-------------------------- MODULE ConsoleLogProof --------------------------
(***************************************************************************)
(* Proofs about the console's log, for every capacity of an entry, every   *)
(* number of entries the allocator has memory for, and every number of key *)
(* presses.  Two lines of code share the log without a lock.               *)
(*                                                                         *)
(*   Shape   where each line is, and what its locals hold there;           *)
(*   Stored  no character of the main line lies at or behind charcount, or *)
(*           where the main line is about to store;                        *)
(*   Chain   the entries are a tree with the first at the root: r is the   *)
(*           distance of an entry from it, and no entry is behind the last *)
(*           but those that are being linked;                              *)
(*   TextOf  T is the main line's text up to an entry;                     *)
(*   Branch  D is what hangs on the entry the main line stores into: the   *)
(*           handler's entries, which hold nothing of the main line.       *)
(*                                                                         *)
(* r, T and D are functions of the history: each step shows that there are *)
(* new ones.  The first two theorems are about putchar and redraw; the     *)
(* last shows that ConsoleLog implements TextLog.                          *)
(***************************************************************************)
EXTENDS ConsoleLog, SequenceTheorems, Recursion

-----------------------------------------------------------------------------
(* The characters of the main line in an entry's data.                     *)

Marks == Chars \cup {"key", "zero"}
Data  == [0 .. MIN_CAPACITY - 1 -> Marks]

KeepStep(data) ==
  [i \in Nat |-> [v \in Seq(Chars) |-> IF data[i] \in Chars THEN Append(v, data[i]) ELSE v]]

LEMMA KeptIs ==
  ASSUME NEW data
  PROVE  /\ Kept(data)[0] = <<>>
         /\ \A n \in Nat : /\ Kept(data)[n] \in Seq(Chars)
                           /\ data[n] \in Chars => Kept(data)[n + 1] = Append(Kept(data)[n], data[n])
                           /\ data[n] \notin Chars => Kept(data)[n + 1] = Kept(data)[n]
<1> DEFINE g == CHOOSE kept : kept = [n \in Nat |->
                  IF n = 0 THEN <<>> ELSE IF data[n - 1] \in Chars
                  THEN Append(kept[n - 1], data[n - 1]) ELSE kept[n - 1]]
<1>1. <<>> \in Seq(Chars) /\ IsStep(Seq(Chars), KeepStep(data))
  <2>1. ASSUME NEW i \in Nat, NEW v \in Seq(Chars)
        PROVE  (IF data[i] \in Chars THEN Append(v, data[i]) ELSE v) \in Seq(Chars)
    BY AppendProperties
  <2> QED BY <2>1, EmptySeq DEF IsStep, KeepStep
<1>2. PICK f : Iterates(Seq(Chars), <<>>, KeepStep(data), f)
  BY <1>1, IterationExists
<1>3. /\ f \in [Nat -> Seq(Chars)] /\ f[0] = <<>>
      /\ \A n \in Nat : f[n + 1] = IF data[n] \in Chars THEN Append(f[n], data[n]) ELSE f[n]
  BY <1>2 DEF Iterates, KeepStep
<1>4. ASSUME NEW n \in Nat
      PROVE  f[n] = IF n = 0 THEN <<>> ELSE IF data[n - 1] \in Chars
                    THEN Append(f[n - 1], data[n - 1]) ELSE f[n - 1]
  <2>1. CASE n = 0
    BY <1>3, <2>1
  <2>2. CASE n # 0
    <3>1. n - 1 \in Nat /\ (n - 1) + 1 = n
      BY <2>2
    <3> QED BY <1>3, <2>2, <3>1
  <2> QED BY <2>1, <2>2
<1>5. f = [n \in Nat |-> IF n = 0 THEN <<>> ELSE IF data[n - 1] \in Chars
                         THEN Append(f[n - 1], data[n - 1]) ELSE f[n - 1]]
  BY <1>3, <1>4
<1>6. g = [n \in Nat |-> IF n = 0 THEN <<>> ELSE IF data[n - 1] \in Chars
                         THEN Append(g[n - 1], data[n - 1]) ELSE g[n - 1]]
  BY <1>5, Zenon
<1>7. Kept(data) = g
  BY DEF Kept
<1> HIDE DEF g
<1>8. g[0] = <<>>
  BY <1>6
<1>9. ASSUME NEW n \in Nat
      PROVE  g[n + 1] = IF data[n] \in Chars THEN Append(g[n], data[n]) ELSE g[n]
  <2>1. n + 1 \in Nat /\ (n + 1) - 1 = n /\ n + 1 # 0
    OBVIOUS
  <2> QED BY <1>6, <2>1
<1>10. \A n \in Nat : g[n] \in Seq(Chars)
  <2> DEFINE S == {n \in Nat : g[n] \in Seq(Chars)}
  <2>1. 0 \in S
    BY <1>8, EmptySeq
  <2>2. ASSUME NEW n \in Nat, n \in S PROVE n + 1 \in S
    <3>1. g[n] \in Seq(Chars)
      BY <2>2
    <3>2. data[n] \in Chars => Append(g[n], data[n]) \in Seq(Chars)
      BY <3>1, AppendProperties
    <3>3. g[n + 1] \in Seq(Chars)
      <4>1. CASE data[n] \in Chars
        BY <1>9, <3>2, <4>1
      <4>2. CASE data[n] \notin Chars
        BY <1>9, <3>1, <4>2
      <4> QED BY <4>1, <4>2
    <3> QED BY <3>3
  <2>3. Nat \subseteq S
    <3> HIDE DEF S
    <3> QED BY <2>1, <2>2, NatInd
  <2> QED BY <2>3
<1> QED BY <1>7, <1>8, <1>9, <1>10

(* What is not the main line's does not count.                             *)
LEMMA KeptRest ==
  ASSUME NEW data, NEW a \in Nat, NEW b \in Nat, a <= b,
         \A j \in Nat : a <= j /\ j < b => data[j] \notin Chars
  PROVE  Kept(data)[b] = Kept(data)[a]
<1> DEFINE S == {n \in Nat : a <= n /\ n <= b => Kept(data)[n] = Kept(data)[a]}
<1>1. 0 \in S
  OBVIOUS
<1>2. ASSUME NEW n \in Nat, n \in S PROVE n + 1 \in S
  <2> SUFFICES ASSUME a <= n + 1, n + 1 <= b PROVE Kept(data)[n + 1] = Kept(data)[a]
    OBVIOUS
  <2>1. CASE a = n + 1
    BY <2>1
  <2>2. CASE a # n + 1
    <3>1. a <= n /\ n < b
      BY <2>2
    <3>2. data[n] \notin Chars /\ Kept(data)[n] = Kept(data)[a]
      BY <1>2, <3>1
    <3> QED BY <3>2, KeptIs
  <2> QED BY <2>1, <2>2
<1>3. Nat \subseteq S
  <2> HIDE DEF S
  <2> QED BY <1>1, <1>2, NatInd
<1> QED BY <1>3

LEMMA KeptSame ==
  ASSUME NEW d, NEW e, NEW m \in Nat,
         \A j \in Nat : j < m => d[j] = e[j] \/ (d[j] \notin Chars /\ e[j] \notin Chars)
  PROVE  Kept(d)[m] = Kept(e)[m]
<1> DEFINE S == {n \in Nat : n <= m => Kept(d)[n] = Kept(e)[n]}
<1>1. 0 \in S
  BY KeptIs
<1>2. ASSUME NEW n \in Nat, n \in S PROVE n + 1 \in S
  <2> SUFFICES ASSUME n + 1 <= m PROVE Kept(d)[n + 1] = Kept(e)[n + 1]
    OBVIOUS
  <2>1. n < m /\ Kept(d)[n] = Kept(e)[n]
    BY <1>2
  <2>2. d[n] = e[n] \/ (d[n] \notin Chars /\ e[n] \notin Chars)
    BY <2>1
  <2>3. CASE d[n] \in Chars
    BY <2>1, <2>2, <2>3, KeptIs, ZenonT(60)
  <2>4. CASE d[n] \notin Chars
    BY <2>1, <2>2, <2>4, KeptIs
  <2> QED BY <2>3, <2>4
<1>3. Nat \subseteq S
  <2> HIDE DEF S
  <2> QED BY <1>1, <1>2, NatInd
<1> QED BY <1>3

(* e is d with c at i, behind all other characters of the main line.       *)
Behind(d, e, i, m, c) ==
  /\ e[i] = c /\ \A j \in Nat : j < m /\ j # i => e[j] = d[j]
  /\ \A j \in Nat : i <= j /\ j < m => d[j] \notin Chars

Longer(u, v, c) == v = Append(u, c)

(* A character stored behind all others of the main line is appended.      *)
LEMMA KeptStore ==
  ASSUME NEW d, NEW e, NEW i \in Nat, NEW m \in Nat, i < m, NEW c \in Chars, Behind(d, e, i, m, c)
  PROVE  Longer(Kept(d)[m], Kept(e)[m], c)
<1>0. /\ e[i] = c /\ \A j \in Nat : j < m /\ j # i => e[j] = d[j]
      /\ \A j \in Nat : i <= j /\ j < m => d[j] \notin Chars
  BY DEF Behind
<1>1. Kept(d)[m] = Kept(d)[i]
  BY <1>0, KeptRest
<1>2. Kept(e)[i] = Kept(d)[i]
  <2>1. \A j \in Nat : j < i => e[j] = d[j]
    BY <1>0
  <2> QED BY <2>1, KeptSame
<1>3. Kept(e)[i + 1] = Append(Kept(e)[i], c)
  BY <1>0, KeptIs
<1>4. Kept(e)[m] = Kept(e)[i + 1]
  <2>1. \A j \in Nat : i + 1 <= j /\ j < m => e[j] \notin Chars
    BY <1>0
  <2>2. i + 1 \in Nat /\ i + 1 <= m
    OBVIOUS
  <2> QED BY <2>1, <2>2, KeptRest
<1> QED BY <1>1, <1>2, <1>3, <1>4 DEF Longer
-----------------------------------------------------------------------------
(* The text of the console.                                                *)

WalkStep == [i \in Nat |-> [e \in Nat |-> IF e \in 1 .. Len(entry) THEN entry[e].prev ELSE Null]]

LEMMA WalkIs ==
  ASSUME last \in 0 .. Len(entry), Len(entry) \in Nat,
         \A e \in 1 .. Len(entry) : entry[e].prev \in 0 .. Len(entry)
  PROVE  /\ Walk[0] = last
         /\ \A n \in Nat : /\ Walk[n] \in 0 .. Len(entry)
                           /\ Walk[n] = Null => Walk[n + 1] = Null
                           /\ Walk[n] # Null => Walk[n + 1] = entry[Walk[n]].prev
<1> DEFINE g == CHOOSE walk : walk = [n \in Nat |-> IF n = 0 THEN last ELSE
                  IF walk[n - 1] = Null THEN Null ELSE entry[walk[n - 1]].prev]
<1>1. last \in Nat /\ IsStep(Nat, WalkStep)
  BY DEF IsStep, WalkStep, Null
<1>2. PICK f : Iterates(Nat, last, WalkStep, f)
  BY <1>1, IterationExists
<1>3. /\ f \in [Nat -> Nat] /\ f[0] = last
      /\ \A n \in Nat : f[n + 1] = IF f[n] \in 1 .. Len(entry) THEN entry[f[n]].prev ELSE Null
  BY <1>2 DEF Iterates, WalkStep
<1>4. \A n \in Nat : f[n] \in 0 .. Len(entry)
  <2> DEFINE S == {n \in Nat : f[n] \in 0 .. Len(entry)}
  <2>1. 0 \in S
    BY <1>3
  <2>2. ASSUME NEW n \in Nat, n \in S PROVE n + 1 \in S
    <3>1. f[n] \in 0 .. Len(entry) /\ 0 \in 0 .. Len(entry)
      BY <2>2
    <3>2. f[n + 1] = IF f[n] \in 1 .. Len(entry) THEN entry[f[n]].prev ELSE Null
      BY <1>3
    <3>3. f[n + 1] \in 0 .. Len(entry)
      <4> HIDE DEF S
      <4> QED BY <3>1, <3>2 DEF Null
    <3> QED BY <3>3
  <2>3. Nat \subseteq S
    <3> HIDE DEF S
    <3> QED BY <2>1, <2>2, NatInd
  <2> QED BY <2>3
<1>5. ASSUME NEW n \in Nat
      PROVE  f[n] = IF n = 0 THEN last ELSE
                    IF f[n - 1] = Null THEN Null ELSE entry[f[n - 1]].prev
  <2>1. CASE n = 0
    BY <1>3, <2>1
  <2>2. CASE n # 0
    <3>1. n - 1 \in Nat /\ (n - 1) + 1 = n
      BY <2>2
    <3>2. f[n - 1] \in 0 .. Len(entry)
      BY <1>4, <3>1
    <3>3. CASE f[n - 1] = Null
      <4>1. f[n] = IF f[n - 1] \in 1 .. Len(entry) THEN entry[f[n - 1]].prev ELSE Null
        BY <1>3, <3>1, Zenon
      <4>2. f[n - 1] \notin 1 .. Len(entry)
        BY <3>3 DEF Null
      <4> QED BY <2>2, <3>3, <4>1, <4>2
    <3>4. CASE f[n - 1] # Null
      <4>1. f[n - 1] \in 1 .. Len(entry)
        BY <3>2, <3>4 DEF Null
      <4>2. f[n] = entry[f[n - 1]].prev
        BY <1>3, <3>1, <4>1
      <4> QED BY <2>2, <3>4, <4>2
    <3> QED BY <3>3, <3>4
  <2> QED BY <2>1, <2>2
<1>6. f = [n \in Nat |-> IF n = 0 THEN last ELSE
                         IF f[n - 1] = Null THEN Null ELSE entry[f[n - 1]].prev]
  BY <1>3, <1>5
<1>7. g = [n \in Nat |-> IF n = 0 THEN last ELSE
                         IF g[n - 1] = Null THEN Null ELSE entry[g[n - 1]].prev]
  BY <1>6, Zenon
<1>8. Walk = g
  BY DEF Walk
<1> HIDE DEF g
<1>9. g[0] = last
  BY <1>7
<1>10. ASSUME NEW n \in Nat
       PROVE  g[n + 1] = IF g[n] = Null THEN Null ELSE entry[g[n]].prev
  <2>1. n + 1 \in Nat /\ (n + 1) - 1 = n /\ n + 1 # 0
    OBVIOUS
  <2> QED BY <1>7, <2>1
<1>11. \A n \in Nat : g[n] \in 0 .. Len(entry)
  <2> DEFINE S == {n \in Nat : g[n] \in 0 .. Len(entry)}
  <2>1. 0 \in S
    BY <1>9
  <2>2. ASSUME NEW n \in Nat, n \in S PROVE n + 1 \in S
    <3>1. g[n] \in 0 .. Len(entry)
      BY <2>2
    <3>2. g[n + 1] = IF g[n] = Null THEN Null ELSE entry[g[n]].prev
      BY <1>10
    <3>3. g[n + 1] \in 0 .. Len(entry)
      <4> HIDE DEF S
      <4> QED BY <3>1, <3>2 DEF Null
    <3> QED BY <3>3
  <2>3. Nat \subseteq S
    <3> HIDE DEF S
    <3> QED BY <2>1, <2>2, NatInd
  <2> QED BY <2>3
<1> QED BY <1>8, <1>9, <1>10, <1>11

TextStep ==
  [i \in Nat |-> [v \in Seq(Chars) |->
     IF Walk[i] = Null THEN v ELSE EntryText(Walk[i]) \o v]]

LEMMA TextIs ==
  ASSUME \A n \in Nat : Walk[n] # Null => EntryText(Walk[n]) \in Seq(Chars)
  PROVE  /\ Text[0] = <<>>
         /\ \A n \in Nat : /\ Text[n] \in Seq(Chars)
                           /\ Walk[n] = Null => Text[n + 1] = Text[n]
                           /\ Walk[n] # Null => Text[n + 1] = EntryText(Walk[n]) \o Text[n]
<1> DEFINE g == CHOOSE text : text = [n \in Nat |-> IF n = 0 THEN <<>> ELSE
                  IF Walk[n - 1] = Null THEN text[n - 1]
                  ELSE EntryText(Walk[n - 1]) \o text[n - 1]]
<1>1. <<>> \in Seq(Chars) /\ IsStep(Seq(Chars), TextStep)
  <2>1. ASSUME NEW i \in Nat, NEW v \in Seq(Chars)
        PROVE  (IF Walk[i] = Null THEN v ELSE EntryText(Walk[i]) \o v) \in Seq(Chars)
    BY ConcatProperties
  <2> QED BY <2>1, EmptySeq DEF IsStep, TextStep
<1>2. PICK f : Iterates(Seq(Chars), <<>>, TextStep, f)
  BY <1>1, IterationExists
<1>3. /\ f \in [Nat -> Seq(Chars)] /\ f[0] = <<>>
      /\ \A n \in Nat : f[n + 1] = IF Walk[n] = Null THEN f[n] ELSE EntryText(Walk[n]) \o f[n]
  BY <1>2 DEF Iterates, TextStep
<1>4. ASSUME NEW n \in Nat
      PROVE  f[n] = IF n = 0 THEN <<>> ELSE IF Walk[n - 1] = Null THEN f[n - 1]
                    ELSE EntryText(Walk[n - 1]) \o f[n - 1]
  <2>1. CASE n = 0
    BY <1>3, <2>1
  <2>2. CASE n # 0
    <3>1. n - 1 \in Nat /\ (n - 1) + 1 = n
      BY <2>2
    <3> QED BY <1>3, <2>2, <3>1
  <2> QED BY <2>1, <2>2
<1>5. f = [n \in Nat |-> IF n = 0 THEN <<>> ELSE IF Walk[n - 1] = Null THEN f[n - 1]
                         ELSE EntryText(Walk[n - 1]) \o f[n - 1]]
  BY <1>3, <1>4
<1>6. g = [n \in Nat |-> IF n = 0 THEN <<>> ELSE IF Walk[n - 1] = Null THEN g[n - 1]
                         ELSE EntryText(Walk[n - 1]) \o g[n - 1]]
  BY <1>5, Zenon
<1>7. Text = g
  BY DEF Text
<1> HIDE DEF g
<1>8. g[0] = <<>>
  BY <1>6
<1>9. ASSUME NEW n \in Nat
      PROVE  g[n + 1] = IF Walk[n] = Null THEN g[n] ELSE EntryText(Walk[n]) \o g[n]
  <2>1. n + 1 \in Nat /\ (n + 1) - 1 = n /\ n + 1 # 0
    OBVIOUS
  <2> QED BY <1>6, <2>1
<1>10. \A n \in Nat : g[n] \in Seq(Chars)
  <2> DEFINE S == {n \in Nat : g[n] \in Seq(Chars)}
  <2>1. 0 \in S
    BY <1>8, EmptySeq
  <2>2. ASSUME NEW n \in Nat, n \in S PROVE n + 1 \in S
    <3>1. g[n] \in Seq(Chars)
      BY <2>2
    <3>2. g[n + 1] = IF Walk[n] = Null THEN g[n] ELSE EntryText(Walk[n]) \o g[n]
      BY <1>9
    <3>3. Walk[n] # Null => EntryText(Walk[n]) \o g[n] \in Seq(Chars)
      BY <3>1, ConcatProperties
    <3>4. g[n + 1] \in Seq(Chars)
      <4> HIDE DEF S
      <4> QED BY <3>1, <3>2, <3>3
    <3> QED BY <3>4
  <2>3. Nat \subseteq S
    <3> HIDE DEF S
    <3> QED BY <2>1, <2>2, NatInd
  <2> QED BY <2>3
<1> QED BY <1>7, <1>8, <1>9, <1>10
-----------------------------------------------------------------------------
(* The lines of code: where each is, and what its locals are then.         *)

TailPcs == {"test", "fetch", "count", "store"}
NewPcs  == {"link", "next", "last", "reset", "clear"}
Pcs     == {"idle", "tail", "alloc"} \cup TailPcs \cup NewPcs
Locals  == [pc : Pcs, chr : Marks, tail : Nat, new : Nat, index : Nat]
Entries == [next : Nat, prev : Nat, charcount : Nat, data : Data]
Ent     == 1 .. Len(entry)
M       == loc["main"]
I       == loc["isr"]
Bytes   == 0 .. MIN_CAPACITY - 1

Types ==
  /\ entry \in Seq(Entries) /\ Len(entry) <= MaxEntries
  /\ first \in 0 .. Len(entry) /\ last \in 0 .. Len(entry)
  /\ loc \in [Line -> Locals] /\ todo \in Nat /\ keys \in Nat

Lines ==
  /\ \A t \in Line : loc[t].tail <= Len(entry) /\ loc[t].new <= Len(entry)
  /\ \A t \in Line : (loc[t].pc \in TailPcs => loc[t].tail # Null)
                     /\ (loc[t].pc \in NewPcs => loc[t].new # Null)
                     /\ (loc[t].pc = "next" => last # Null)
  /\ M.pc = "idle" => M.chr = "zero"
  /\ M.pc # "idle" => M.chr \in Chars
  /\ I.pc # "idle" => I.chr = "key"
  /\ I.pc # "idle" \/ todo > 0 => last # Null
  /\ I.pc \in NewPcs => I.new # M.new /\ I.new # M.tail
  /\ I.pc \in NewPcs \cup {"alloc"} => I.tail # Null
  /\ I.pc \in TailPcs => I.tail = last
  /\ I.pc \in {"reset", "clear"} => I.new = last

Shape == Types /\ Lines

-----------------------------------------------------------------------------
(* What each access does to the entries and to the locals of its line.     *)

LocIs(t, pc, chr, tail, new, index) ==
  /\ loc' \in [Line -> Locals]
  /\ loc'[t].pc = pc /\ loc'[t].chr = chr /\ loc'[t].tail = tail
  /\ loc'[t].new = new /\ loc'[t].index = index
  /\ \A u \in Line : u # t => loc'[u] = loc[u]

Turn(t, pc) == loc[t].pc = pc /\ (t = "main" => todo = 0 /\ I.pc = "idle")

(* The fields of the entries after a step, but for those named.            *)
SameLen == entry' \in Seq(Entries) /\ Len(entry') = Len(entry)
SamePrev == \A e \in Ent : entry'[e].prev = entry[e].prev
SameCount == \A e \in Ent : entry'[e].charcount = entry[e].charcount
SameData == \A e \in Ent : entry'[e].data = entry[e].data

LEMMA EntryTypes ==
  ASSUME Types, NEW e \in Ent
  PROVE  /\ entry[e] \in Entries /\ entry[e].prev \in Nat /\ entry[e].next \in Nat
         /\ entry[e].charcount \in Nat /\ entry[e].data \in Data
<1>1. entry[e] \in Entries
  BY ElementOfSeq DEF Types, Ent
<1> QED BY <1>1 DEF Entries

LEMMA LocTypes ==
  ASSUME Types, NEW t \in Line
  PROVE  /\ loc[t].pc \in Pcs /\ loc[t].chr \in Marks /\ loc[t].tail \in Nat
         /\ loc[t].new \in Nat /\ loc[t].index \in Nat /\ loc[t] \in Locals
  BY DEF Types, Locals

LEMMA SetPc ==
  ASSUME Types, NEW t \in Line, NEW p \in Pcs, loc' = [loc EXCEPT ![t].pc = p]
  PROVE  LocIs(t, p, loc[t].chr, loc[t].tail, loc[t].new, loc[t].index)
<1>1. loc \in [Line -> Locals]
  BY DEF Types
<1>2. /\ loc'[t] = [loc[t] EXCEPT !.pc = p] /\ loc[t] \in Locals
      /\ \A u \in Line : u # t => loc'[u] = loc[u]
  BY <1>1
<1>3. [loc[t] EXCEPT !.pc = p] \in Locals
  BY <1>2 DEF Locals
<1>4. loc' \in [Line -> Locals]
  BY <1>1, <1>2, <1>3
<1>5. /\ loc'[t].pc = p /\ loc'[t].chr = loc[t].chr /\ loc'[t].tail = loc[t].tail
      /\ loc'[t].new = loc[t].new /\ loc'[t].index = loc[t].index
  BY <1>2 DEF Locals
<1> QED BY <1>2, <1>4, <1>5 DEF LocIs

LEMMA SetIdle ==
  ASSUME Types, NEW t \in Line, loc' = [loc EXCEPT ![t] = Idle]
  PROVE  LocIs(t, "idle", "zero", Null, Null, 0)
<1>1. loc \in [Line -> Locals]
  BY DEF Types
<1>2. loc'[t] = Idle /\ \A u \in Line : u # t => loc'[u] = loc[u]
  BY <1>1
<1>3. Idle \in Locals
  BY DEF Idle, Locals, Pcs, Marks, Null
<1> QED BY <1>1, <1>2, <1>3 DEF LocIs, Idle

(* A record of an entry is replaced.                                       *)
Replaced(x, y) == entry' = [entry EXCEPT ![x] = y]

LEMMA SetEntry ==
  ASSUME Types, NEW x \in Ent, NEW y \in Entries, Replaced(x, y)
  PROVE  SameLen /\ entry'[x] = y /\ \A e \in Ent : e # x => entry'[e] = entry[e]
  BY ExceptSeq DEF Types, SameLen, Ent, Replaced

LEMMA SetCount ==
  ASSUME Types, NEW x \in Ent, NEW c \in Nat, entry' = [entry EXCEPT ![x].charcount = c]
  PROVE  /\ SameLen /\ SamePrev /\ SameData /\ entry'[x].charcount = c
         /\ \A e \in Ent : e # x => entry'[e].charcount = entry[e].charcount
<1> DEFINE y == [entry[x] EXCEPT !.charcount = c]
<1>1. /\ y \in Entries /\ y.charcount = c /\ y.prev = entry[x].prev /\ y.data = entry[x].data
  BY EntryTypes DEF Entries
<1>2. Replaced(x, y)
  BY DEF Replaced
<1> HIDE DEF y
<1>3. SameLen /\ entry'[x] = y /\ \A e \in Ent : e # x => entry'[e] = entry[e]
  BY <1>1, <1>2, SetEntry
<1> QED BY <1>1, <1>3 DEF SamePrev, SameData

LEMMA SetPrev ==
  ASSUME Types, NEW x \in Ent, NEW p \in Nat, entry' = [entry EXCEPT ![x].prev = p]
  PROVE  /\ SameLen /\ SameCount /\ SameData /\ entry'[x].prev = p
         /\ \A e \in Ent : e # x => entry'[e].prev = entry[e].prev
<1> DEFINE y == [entry[x] EXCEPT !.prev = p]
<1>1. /\ y \in Entries /\ y.prev = p /\ y.charcount = entry[x].charcount /\ y.data = entry[x].data
  BY EntryTypes DEF Entries
<1>2. Replaced(x, y)
  BY DEF Replaced
<1> HIDE DEF y
<1>3. SameLen /\ entry'[x] = y /\ \A e \in Ent : e # x => entry'[e] = entry[e]
  BY <1>1, <1>2, SetEntry
<1> QED BY <1>1, <1>3 DEF SameCount, SameData

LEMMA SetNext ==
  ASSUME Types, NEW x \in Ent, NEW p \in Nat, entry' = [entry EXCEPT ![x].next = p]
  PROVE  SameLen /\ SameCount /\ SameData /\ SamePrev
<1> DEFINE y == [entry[x] EXCEPT !.next = p]
<1>1. /\ y \in Entries /\ y.prev = entry[x].prev
      /\ y.charcount = entry[x].charcount /\ y.data = entry[x].data
  BY EntryTypes DEF Entries
<1>2. Replaced(x, y)
  BY DEF Replaced
<1> HIDE DEF y
<1>3. SameLen /\ entry'[x] = y /\ \A e \in Ent : e # x => entry'[e] = entry[e]
  BY <1>1, <1>2, SetEntry
<1> QED BY <1>1, <1>3 DEF SameCount, SameData, SamePrev

LEMMA SetData ==
  ASSUME Types, NEW x \in Ent, NEW d \in Data, entry' = [entry EXCEPT ![x].data = d]
  PROVE  /\ SameLen /\ SameCount /\ SamePrev /\ entry'[x].data = d
         /\ \A e \in Ent : e # x => entry'[e].data = entry[e].data
<1> DEFINE y == [entry[x] EXCEPT !.data = d]
<1>1. /\ y \in Entries /\ y.data = d /\ y.prev = entry[x].prev
      /\ y.charcount = entry[x].charcount
  BY EntryTypes DEF Entries
<1>2. Replaced(x, y)
  BY DEF Replaced
<1> HIDE DEF y
<1>3. SameLen /\ entry'[x] = y /\ \A e \in Ent : e # x => entry'[e] = entry[e]
  BY <1>1, <1>2, SetEntry
<1> QED BY <1>1, <1>3 DEF SameCount, SamePrev

(* The locals of a line are replaced.                                      *)
Moved(t, y) == loc' = [loc EXCEPT ![t] = y]

LEMMA SetLine ==
  ASSUME Types, NEW t \in Line, NEW y \in Locals, Moved(t, y)
  PROVE  /\ loc' \in [Line -> Locals] /\ loc'[t] = y
         /\ \A u \in Line : u # t => loc'[u] = loc[u]
  BY DEF Types, Moved

LEMMA SetTwo ==
  ASSUME Types, NEW t \in Line, NEW p \in Pcs,
         \/ \E c \in Marks : loc' = [loc EXCEPT ![t].pc = p, ![t].chr = c]
         \/ \E n \in Nat : loc' = [loc EXCEPT ![t].pc = p, ![t].new = n]
         \/ \E n \in Nat : loc' = [loc EXCEPT ![t].pc = p, ![t].tail = n]
         \/ \E n \in Nat : loc' = [loc EXCEPT ![t].tail = n, ![t].pc = p]
         \/ \E n \in Nat : loc' = [loc EXCEPT ![t].pc = p, ![t].index = n]
  PROVE  /\ loc' \in [Line -> Locals] /\ loc'[t].pc = p
         /\ \A u \in Line : u # t => loc'[u] = loc[u]
<1>1. SUFFICES \E y \in Locals : y.pc = p /\ Moved(t, y)
  BY SetLine
<1>2. ASSUME NEW c \in Marks, loc' = [loc EXCEPT ![t].pc = p, ![t].chr = c]
      PROVE  \E y \in Locals : y.pc = p /\ Moved(t, y)
  <2> DEFINE y == [loc[t] EXCEPT !.pc = p, !.chr = c]
  <2>1. Moved(t, y)
    BY <1>2 DEF Moved, Types
  <2>2. y \in Locals /\ y.pc = p
    BY DEF Types, Locals
  <2> HIDE DEF y
  <2> QED BY <2>1, <2>2
<1>3. ASSUME NEW n \in Nat, loc' = [loc EXCEPT ![t].pc = p, ![t].new = n]
      PROVE  \E y \in Locals : y.pc = p /\ Moved(t, y)
  <2> DEFINE y == [loc[t] EXCEPT !.pc = p, !.new = n]
  <2>1. Moved(t, y)
    BY <1>3 DEF Moved, Types
  <2>2. y \in Locals /\ y.pc = p
    BY DEF Types, Locals
  <2> HIDE DEF y
  <2> QED BY <2>1, <2>2
<1>4. ASSUME NEW n \in Nat, loc' = [loc EXCEPT ![t].pc = p, ![t].tail = n]
      PROVE  \E y \in Locals : y.pc = p /\ Moved(t, y)
  <2> DEFINE y == [loc[t] EXCEPT !.pc = p, !.tail = n]
  <2>1. Moved(t, y)
    BY <1>4 DEF Moved, Types
  <2>2. y \in Locals /\ y.pc = p
    BY DEF Types, Locals
  <2> HIDE DEF y
  <2> QED BY <2>1, <2>2
<1>5. ASSUME NEW n \in Nat, loc' = [loc EXCEPT ![t].tail = n, ![t].pc = p]
      PROVE  \E y \in Locals : y.pc = p /\ Moved(t, y)
  <2> DEFINE y == [loc[t] EXCEPT !.tail = n, !.pc = p]
  <2>1. Moved(t, y)
    BY <1>5 DEF Moved, Types
  <2>2. y \in Locals /\ y.pc = p
    BY DEF Types, Locals
  <2> HIDE DEF y
  <2> QED BY <2>1, <2>2
<1>6. ASSUME NEW n \in Nat, loc' = [loc EXCEPT ![t].pc = p, ![t].index = n]
      PROVE  \E y \in Locals : y.pc = p /\ Moved(t, y)
  <2> DEFINE y == [loc[t] EXCEPT !.pc = p, !.index = n]
  <2>1. Moved(t, y)
    BY <1>6 DEF Moved, Types
  <2>2. y \in Locals /\ y.pc = p
    BY DEF Types, Locals
  <2> HIDE DEF y
  <2> QED BY <2>1, <2>2
<1> QED BY <1>2, <1>3, <1>4, <1>5, <1>6

LEMMA AtIs ==
  ASSUME NEW t \in Line, NEW pc, At(t, pc)
  PROVE  Turn(t, pc)
  BY DEF At, Turn, I

LEMMA CallIs ==
  ASSUME Types, NEW t \in Line, NEW c \in Marks, Call(t, c)
  PROVE  /\ Turn(t, "idle") /\ UNCHANGED <<entry, first, last, keys>>
         /\ LocIs(t, "tail", c, loc[t].tail, loc[t].new, loc[t].index)
<1>1. loc' = [loc EXCEPT ![t].pc = "tail", ![t].chr = c] /\ "tail" \in Pcs
      /\ loc \in [Line -> Locals] /\ loc[t] \in Locals
  BY DEF Call, Types, Pcs
<1>2. /\ loc'[t].pc = "tail" /\ loc'[t].chr = c /\ loc'[t].tail = loc[t].tail
      /\ loc'[t].new = loc[t].new /\ loc'[t].index = loc[t].index
  BY <1>1 DEF Locals
<1>3. loc' \in [Line -> Locals] /\ \A u \in Line : u # t => loc'[u] = loc[u]
  BY <1>1, SetTwo, Zenon
<1> QED BY <1>2, <1>3, AtIs DEF LocIs, Call, console

(* A line's tail and its new entry are entries when it uses them.          *)
LEMMA Bounds ==
  ASSUME Shape, NEW t \in Line
  PROVE  /\ loc[t].pc \in TailPcs => loc[t].tail \in Ent
         /\ loc[t].pc \in NewPcs => loc[t].new \in Ent
         /\ loc[t].pc = "next" => last \in Ent
  BY LocTypes DEF Shape, Types, Lines, Ent, Null

Quiet == UNCHANGED <<entry, first, last>>

LEMMA ReadTailIs ==
  ASSUME Types, NEW t \in Line, ReadTail(t)
  PROVE  /\ Turn(t, "tail") /\ Quiet /\ UNCHANGED <<keys, todo>>
         /\ last = Null => LocIs(t, "alloc", loc[t].chr, Null, loc[t].new, loc[t].index)
         /\ last # Null => LocIs(t, "test", loc[t].chr, last, loc[t].new, loc[t].index)
<1> DEFINE p == IF last = Null THEN "alloc" ELSE "test"
<1>1. loc' = [loc EXCEPT ![t].tail = last, ![t].pc = p] /\ p \in Pcs /\ last \in Nat
      /\ loc \in [Line -> Locals] /\ loc[t] \in Locals
  BY DEF ReadTail, Types, Pcs, TailPcs
<1> HIDE DEF p
<1>2. /\ loc'[t].pc = p /\ loc'[t].chr = loc[t].chr /\ loc'[t].tail = last
      /\ loc'[t].new = loc[t].new /\ loc'[t].index = loc[t].index
  BY <1>1 DEF Locals
<1>3. loc' \in [Line -> Locals] /\ \A u \in Line : u # t => loc'[u] = loc[u]
  BY <1>1, SetTwo, Zenon
<1>4. LocIs(t, p, loc[t].chr, last, loc[t].new, loc[t].index)
  BY <1>2, <1>3 DEF LocIs
<1> QED BY <1>4, AtIs DEF ReadTail, console, Quiet, p

LEMMA TestIs ==
  ASSUME Shape, NEW t \in Line, TestCapacity(t)
  PROVE  /\ Turn(t, "test") /\ Quiet /\ UNCHANGED <<keys, todo>>
         /\ \/ /\ entry[loc[t].tail].charcount >= MIN_CAPACITY - 1
               /\ LocIs(t, "alloc", loc[t].chr, loc[t].tail, loc[t].new, loc[t].index)
            \/ /\ entry[loc[t].tail].charcount < MIN_CAPACITY - 1
               /\ LocIs(t, "fetch", loc[t].chr, loc[t].tail, loc[t].new, loc[t].index)
<1> DEFINE p == IF entry[loc[t].tail].charcount >= MIN_CAPACITY - 1 THEN "alloc" ELSE "fetch"
<1>1. loc' = [loc EXCEPT ![t].pc = p] /\ p \in Pcs /\ Turn(t, "test")
  BY AtIs DEF TestCapacity, Goto, EntryFull, Pcs, TailPcs
<1>2. entry[loc[t].tail].charcount \in Nat
  BY <1>1, Bounds, EntryTypes DEF Turn, TailPcs, Shape
<1>3. LocIs(t, p, loc[t].chr, loc[t].tail, loc[t].new, loc[t].index)
  <2> HIDE DEF p
  <2> QED BY <1>1, SetPc DEF Shape
<1> QED BY <1>1, <1>2, <1>3, ConsoleLogAssumption DEF TestCapacity, console, Quiet

LEMMA FetchIs ==
  ASSUME Shape, NEW t \in Line, FetchCount(t)
  PROVE  /\ Turn(t, "fetch") /\ Quiet /\ UNCHANGED <<keys, todo>>
         /\ LocIs(t, "count", loc[t].chr, loc[t].tail, loc[t].new, entry[loc[t].tail].charcount)
<1> DEFINE n == entry[loc[t].tail].charcount
<1>1. Turn(t, "fetch")
  BY AtIs DEF FetchCount
<1>2. n \in Nat
  BY <1>1, Bounds, EntryTypes DEF Turn, TailPcs, Shape
<1>3. loc' = [loc EXCEPT ![t].pc = "count", ![t].index = n] /\ "count" \in Pcs
      /\ loc \in [Line -> Locals] /\ loc[t] \in Locals
  BY DEF FetchCount, Shape, Types, Pcs, TailPcs
<1> HIDE DEF n
<1>4. /\ loc'[t].pc = "count" /\ loc'[t].chr = loc[t].chr /\ loc'[t].tail = loc[t].tail
      /\ loc'[t].new = loc[t].new /\ loc'[t].index = n
  BY <1>3 DEF Locals
<1>5. loc' \in [Line -> Locals] /\ \A u \in Line : u # t => loc'[u] = loc[u]
  BY <1>2, <1>3, SetTwo, Zenon DEF Shape
<1>6. LocIs(t, "count", loc[t].chr, loc[t].tail, loc[t].new, n)
  BY <1>4, <1>5 DEF LocIs
<1> QED BY <1>1, <1>6 DEF FetchCount, console, Quiet, n

LEMMA CountIs ==
  ASSUME Shape, NEW t \in Line, StoreCount(t)
  PROVE  /\ Turn(t, "count") /\ UNCHANGED <<first, last, keys, todo>>
         /\ LocIs(t, "store", loc[t].chr, loc[t].tail, loc[t].new, loc[t].index)
         /\ SameLen /\ SamePrev /\ SameData
         /\ entry'[loc[t].tail].charcount = loc[t].index + 1
         /\ \A e \in Ent : e # loc[t].tail => entry'[e].charcount = entry[e].charcount
<1>1. Turn(t, "count")
  BY AtIs DEF StoreCount
<1>2. loc[t].tail \in Ent /\ loc[t].index + 1 \in Nat
  BY <1>1, Bounds, LocTypes DEF Turn, TailPcs, Shape
<1>3. loc' = [loc EXCEPT ![t].pc = "store"] /\ "store" \in Pcs
  BY DEF StoreCount, Goto, Pcs, TailPcs
<1>4. entry' = [entry EXCEPT ![loc[t].tail].charcount = loc[t].index + 1]
  BY DEF StoreCount
<1>5. LocIs(t, "store", loc[t].chr, loc[t].tail, loc[t].new, loc[t].index)
  BY <1>3, SetPc DEF Shape
<1>6. UNCHANGED <<first, last, keys, todo>>
  BY DEF StoreCount, console
<1> QED BY <1>1, <1>2, <1>4, <1>5, <1>6, SetCount DEF Shape

LEMMA StoreIs ==
  ASSUME Shape, NEW t \in Line, StoreChar(t)
  PROVE  /\ Turn(t, "store") /\ UNCHANGED <<first, last, keys, todo>>
         /\ LocIs(t, "idle", "zero", Null, Null, 0)
         /\ SameLen /\ SamePrev /\ SameCount
         /\ \A j \in Bytes : entry'[loc[t].tail].data[j] =
              IF j = loc[t].index THEN loc[t].chr ELSE entry[loc[t].tail].data[j]
         /\ \A e \in Ent : e # loc[t].tail => entry'[e].data = entry[e].data
<1> DEFINE x == loc[t].tail
           d == [entry[x].data EXCEPT ![loc[t].index] = loc[t].chr]
           y == [entry[x] EXCEPT !.data = d]
<1>1. Turn(t, "store")
  BY AtIs DEF StoreChar
<1>2. x \in Ent
  BY <1>1, Bounds DEF Turn, TailPcs
<1>3. entry[x] \in Entries /\ entry[x].data \in Data /\ loc[t].chr \in Marks
  BY <1>2, EntryTypes, LocTypes DEF Shape
<1>4. /\ d \in Data
      /\ \A j \in Bytes : d[j] = IF j = loc[t].index THEN loc[t].chr ELSE entry[x].data[j]
  BY <1>3 DEF Data, Bytes
<1>5. Replaced(x, y)
  BY DEF Replaced, StoreChar
<1> HIDE DEF d
<1>6. y \in Entries /\ y.data = d /\ y.prev = entry[x].prev /\ y.charcount = entry[x].charcount
  BY <1>3, <1>4 DEF Entries
<1> HIDE DEF x, y
<1>7. SameLen /\ entry'[x] = y /\ \A e \in Ent : e # x => entry'[e] = entry[e]
  BY <1>2, <1>5, <1>6, SetEntry DEF Shape
<1>8. LocIs(t, "idle", "zero", Null, Null, 0)
  BY SetIdle DEF StoreChar, Return, Shape
<1>9. UNCHANGED <<first, last, keys, todo>>
  BY DEF StoreChar, console
<1>10. /\ SamePrev /\ SameCount
       /\ \A j \in Bytes : entry'[x].data[j] = IF j = loc[t].index THEN loc[t].chr ELSE entry[x].data[j]
       /\ \A e \in Ent : e # x => entry'[e].data = entry[e].data
  BY <1>4, <1>6, <1>7 DEF SamePrev, SameCount
<1> QED BY <1>1, <1>7, <1>8, <1>9, <1>10 DEF x

LEMMA AllocateIs ==
  ASSUME Shape, NEW t \in Line, Allocate(t)
  PROVE  /\ Turn(t, "alloc") /\ UNCHANGED <<first, last, keys, todo>>
         /\ LocIs(t, "link", loc[t].chr, loc[t].tail, Len(entry) + 1, loc[t].index)
         /\ entry' \in Seq(Entries) /\ Len(entry') = Len(entry) + 1 /\ Len(entry') <= MaxEntries
         /\ entry'[Len(entry) + 1] = Zeroed /\ \A e \in Ent : entry'[e] = entry[e]
<1> DEFINE n == Len(entry) + 1
<1>1. Turn(t, "alloc")
  BY AtIs DEF Allocate
<1>2. n \in Nat /\ Len(entry) \in Nat
  BY LenProperties DEF Shape, Types
<1>3. loc' = [loc EXCEPT ![t].pc = "link", ![t].new = n] /\ "link" \in Pcs
      /\ loc \in [Line -> Locals] /\ loc[t] \in Locals
  BY DEF Allocate, Shape, Types, Pcs, NewPcs
<1>4. Zeroed \in Entries
  BY DEF Zeroed, Entries, Data, Marks, Null
<1>5. /\ entry' \in Seq(Entries) /\ Len(entry') = n
      /\ entry'[n] = Zeroed /\ \A e \in Ent : entry'[e] = entry[e]
  <2>1. entry' = Append(entry, Zeroed) /\ entry \in Seq(Entries)
    BY DEF Allocate, Shape, Types
  <2> QED BY <1>4, <2>1, AppendProperties DEF Ent
<1> HIDE DEF n
<1>6. /\ loc'[t].pc = "link" /\ loc'[t].chr = loc[t].chr /\ loc'[t].tail = loc[t].tail
      /\ loc'[t].new = n /\ loc'[t].index = loc[t].index
  BY <1>3 DEF Locals
<1>7. loc' \in [Line -> Locals] /\ \A u \in Line : u # t => loc'[u] = loc[u]
  BY <1>2, <1>3, SetTwo, Zenon DEF Shape
<1>8. LocIs(t, "link", loc[t].chr, loc[t].tail, n, loc[t].index)
  BY <1>6, <1>7 DEF LocIs
<1>9. UNCHANGED <<first, last, keys, todo>> /\ Len(entry) < MaxEntries
  BY DEF Allocate, console
<1>10. n <= MaxEntries
  BY <1>2, <1>9, ConsoleLogAssumption DEF n
<1> QED BY <1>1, <1>5, <1>8, <1>9, <1>10 DEF n

LEMMA RefuseIs ==
  ASSUME Types, NEW t \in Line, Refuse(t)
  PROVE  /\ Turn(t, "alloc") /\ Quiet /\ UNCHANGED <<keys, todo>>
         /\ LocIs(t, "idle", "zero", Null, Null, 0)
  BY AtIs, SetIdle DEF Refuse, Return, console, Quiet

LEMMA LinkBackIs ==
  ASSUME Shape, NEW t \in Line, LinkBack(t)
  PROVE  /\ Turn(t, "link") /\ UNCHANGED <<last, keys, todo>>
         /\ first' = IF last = Null THEN loc[t].new ELSE first
         /\ last = Null => LocIs(t, "last", loc[t].chr, loc[t].tail, loc[t].new, loc[t].index)
         /\ last # Null => LocIs(t, "next", loc[t].chr, loc[t].tail, loc[t].new, loc[t].index)
         /\ SameLen /\ SameCount /\ SameData /\ entry'[loc[t].new].prev = last
         /\ \A e \in Ent : e # loc[t].new => entry'[e].prev = entry[e].prev
<1> DEFINE p == IF last = Null THEN "last" ELSE "next"
<1>1. Turn(t, "link")
  BY AtIs DEF LinkBack
<1>2. loc[t].new \in Ent /\ last \in Nat
  BY <1>1, Bounds DEF Turn, NewPcs, Shape, Types
<1>3. entry' = [entry EXCEPT ![loc[t].new].prev = last]
  BY DEF LinkBack, Before
<1>4. loc' = [loc EXCEPT ![t].pc = p] /\ p \in Pcs
  BY DEF LinkBack, Goto, Pcs, NewPcs
<1>5. LocIs(t, p, loc[t].chr, loc[t].tail, loc[t].new, loc[t].index)
  <2> HIDE DEF p
  <2> QED BY <1>4, SetPc DEF Shape
<1>6. /\ SameLen /\ SameCount /\ SameData /\ entry'[loc[t].new].prev = last
      /\ \A e \in Ent : e # loc[t].new => entry'[e].prev = entry[e].prev
  BY <1>2, <1>3, SetPrev DEF Shape
<1>7. UNCHANGED <<last, keys, todo>> /\ first' = IF last = Null THEN loc[t].new ELSE first
  BY DEF LinkBack
<1> QED BY <1>1, <1>5, <1>6, <1>7

LEMMA LinkNextIs ==
  ASSUME Shape, NEW t \in Line, LinkNext(t)
  PROVE  /\ Turn(t, "next") /\ UNCHANGED <<first, last, keys, todo>>
         /\ LocIs(t, "last", loc[t].chr, loc[t].tail, loc[t].new, loc[t].index)
         /\ SameLen /\ SameCount /\ SameData /\ SamePrev
<1>1. Turn(t, "next")
  BY AtIs DEF LinkNext
<1>2. last \in Ent /\ loc[t].new \in Nat
  BY <1>1, Bounds, LocTypes DEF Turn, NewPcs, Shape
<1>3. entry' = [entry EXCEPT ![last].next = loc[t].new]
  BY DEF LinkNext
<1>4. LocIs(t, "last", loc[t].chr, loc[t].tail, loc[t].new, loc[t].index)
  BY SetPc DEF LinkNext, Goto, Pcs, NewPcs, Shape
<1>5. UNCHANGED <<first, last, keys, todo>>
  BY DEF LinkNext, console
<1> QED BY <1>1, <1>2, <1>3, <1>4, <1>5, SetNext DEF Shape

LEMMA SetLastIs ==
  ASSUME Types, NEW t \in Line, SetLast(t)
  PROVE  /\ Turn(t, "last") /\ UNCHANGED <<entry, first, keys, todo>> /\ last' = loc[t].new
         /\ LocIs(t, "reset", loc[t].chr, loc[t].tail, loc[t].new, loc[t].index)
  BY AtIs, SetPc DEF SetLast, Goto, Pcs, NewPcs

LEMMA ResetIs ==
  ASSUME Shape, NEW t \in Line, ResetCount(t)
  PROVE  /\ Turn(t, "reset") /\ UNCHANGED <<first, last, keys, todo>>
         /\ LocIs(t, "clear", loc[t].chr, loc[t].tail, loc[t].new, loc[t].index)
         /\ SameLen /\ SamePrev /\ SameData /\ entry'[loc[t].new].charcount = 0
         /\ \A e \in Ent : e # loc[t].new => entry'[e].charcount = entry[e].charcount
<1> DEFINE x == loc[t].new
           y == [entry[x] EXCEPT !.charcount = 0, !.next = Null]
<1>1. Turn(t, "reset")
  BY AtIs DEF ResetCount
<1>2. x \in Ent
  BY <1>1, Bounds DEF Turn, NewPcs
<1>3. entry[x] \in Entries
  BY <1>2, EntryTypes DEF Shape
<1>4. Replaced(x, y)
  <2>1. entry' = [entry EXCEPT ![x].charcount = 0, ![x].next = Null]
    BY DEF ResetCount
  <2>2. entry \in [1 .. Len(entry) -> Entries]
    BY LenProperties DEF Shape, Types
  <2> QED BY <1>2, <1>3, <2>1, <2>2 DEF Replaced, Ent, Entries
<1>5. y \in Entries /\ y.data = entry[x].data /\ y.prev = entry[x].prev /\ y.charcount = 0
  BY <1>3 DEF Entries, Null
<1> HIDE DEF x, y
<1>6. SameLen /\ entry'[x] = y /\ \A e \in Ent : e # x => entry'[e] = entry[e]
  BY <1>2, <1>4, <1>5, SetEntry DEF Shape
<1>7. LocIs(t, "clear", loc[t].chr, loc[t].tail, loc[t].new, loc[t].index)
  BY SetPc DEF ResetCount, Goto, Pcs, NewPcs, Shape
<1>8. UNCHANGED <<first, last, keys, todo>>
  BY DEF ResetCount, console
<1>9. /\ SamePrev /\ SameData /\ entry'[x].charcount = 0
      /\ \A e \in Ent : e # x => entry'[e].charcount = entry[e].charcount
  BY <1>5, <1>6 DEF SamePrev, SameData
<1> QED BY <1>1, <1>6, <1>7, <1>8, <1>9 DEF x

LEMMA ClearIs ==
  ASSUME Shape, NEW t \in Line, ClearData(t)
  PROVE  /\ Turn(t, "clear") /\ UNCHANGED <<first, last, keys, todo>>
         /\ loc[t].tail = Null => LocIs(t, "test", loc[t].chr, loc[t].new, loc[t].new, loc[t].index)
         /\ loc[t].tail # Null => LocIs(t, "fetch", loc[t].chr, loc[t].new, loc[t].new, loc[t].index)
         /\ SameLen /\ SamePrev /\ SameCount
         /\ \A j \in Bytes : entry'[loc[t].new].data[j] = "zero"
         /\ \A e \in Ent : e # loc[t].new => entry'[e].data = entry[e].data
<1> DEFINE p == IF loc[t].tail = Null THEN "test" ELSE "fetch"
           n == loc[t].new
<1>1. Turn(t, "clear")
  BY AtIs DEF ClearData
<1>2. n \in Ent /\ n \in Nat
  BY <1>1, Bounds, LocTypes DEF Turn, NewPcs, Shape
<1>3. Zeroed.data \in Data /\ \A j \in Bytes : Zeroed.data[j] = "zero"
  BY DEF Zeroed, Data, Marks, Bytes
<1>4. entry' = [entry EXCEPT ![n].data = Zeroed.data]
  BY DEF ClearData
<1>5. loc' = [loc EXCEPT ![t].pc = p, ![t].tail = n] /\ p \in Pcs
      /\ loc \in [Line -> Locals] /\ loc[t] \in Locals
  BY DEF ClearData, Shape, Types, Pcs, TailPcs
<1>6. UNCHANGED <<first, last, keys, todo>>
  BY DEF ClearData, console
<1> HIDE DEF p
<1>7. /\ loc'[t].pc = p /\ loc'[t].chr = loc[t].chr /\ loc'[t].tail = n
      /\ loc'[t].new = loc[t].new /\ loc'[t].index = loc[t].index
  BY <1>5 DEF Locals
<1>8. loc' \in [Line -> Locals] /\ \A u \in Line : u # t => loc'[u] = loc[u]
  <2> HIDE DEF n
  <2> QED BY <1>2, <1>5, SetTwo, Zenon DEF Shape
<1>9. LocIs(t, p, loc[t].chr, n, n, loc[t].index)
  BY <1>7, <1>8 DEF LocIs
<1>10. /\ SameLen /\ SamePrev /\ SameCount /\ entry'[n].data = Zeroed.data
       /\ \A e \in Ent : e # n => entry'[e].data = entry[e].data
  BY <1>2, <1>3, <1>4, SetData DEF Shape
<1>11. \A j \in Bytes : entry'[n].data[j] = "zero"
  BY <1>3, <1>10
<1> QED BY <1>1, <1>6, <1>9, <1>10, <1>11 DEF p

-----------------------------------------------------------------------------
(* Every access keeps the locals in order.                                 *)

PcSets == {"idle", "tail", "alloc", "test", "fetch", "count", "store",
           "link", "next", "last", "reset", "clear"}

LEMMA ShapeInit == Init => Shape
<1> SUFFICES ASSUME Init PROVE Shape
  OBVIOUS
<1>1. Idle \in Locals
  BY DEF Idle, Locals, Pcs, Marks, Null
<1>2. loc \in [Line -> Locals] /\ \A t \in Line : loc[t] = Idle
  BY <1>1 DEF Init
<1>3. entry \in Seq(Entries) /\ Len(entry) = 0
  BY EmptySeq DEF Init
<1>4. Types
  BY <1>2, <1>3, ConsoleLogAssumption DEF Init, Types, Null
<1>5. Lines
  BY <1>2, <1>3 DEF Init, Lines, Idle, Line, M, I, TailPcs, NewPcs, Null
<1> QED BY <1>4, <1>5 DEF Shape

LEMMA ReadTailShape ==
  ASSUME Shape, NEW t \in Line, ReadTail(t) PROVE Shape'
<1>1. Types'
  BY ReadTailIs, Bounds, LocTypes DEF Shape, Types, LocIs, SameLen, Turn, NewPcs, Ent, Quiet
<1>2. CASE t = "main"
  <2>1. Lines'
    BY <1>2, ReadTailIs, LocTypes, Bounds DEF Shape, Types, Lines, LocIs, SameLen, Turn, TailPcs, NewPcs,
       Line, M, I, Null, Ent, Quiet
  <2> QED BY <1>1, <2>1 DEF Shape
<1>3. CASE t = "isr"
  <2>1. Lines'
    BY <1>3, ReadTailIs, LocTypes, Bounds, SMTT(40) DEF Shape, Types, Lines, LocIs, SameLen, Turn, TailPcs, NewPcs,
       Line, M, I, Null, Ent, Quiet
  <2> QED BY <1>1, <2>1 DEF Shape
<1> QED BY <1>2, <1>3 DEF Line

LEMMA TestCapacityShape ==
  ASSUME Shape, NEW t \in Line, TestCapacity(t) PROVE Shape'
<1>1. Types'
  BY TestIs, Bounds, LocTypes DEF Shape, Types, LocIs, SameLen, Turn, NewPcs, Ent, Quiet
<1>2. CASE t = "main"
  <2>1. Lines'
    BY <1>2, TestIs, LocTypes, Bounds, ZenonT(60) DEF Shape, Types, Lines, LocIs, SameLen, Turn, TailPcs, NewPcs,
       Line, M, I, Null, Ent, Quiet
  <2> QED BY <1>1, <2>1 DEF Shape
<1>3. CASE t = "isr"
  <2>1. Lines'
    BY <1>3, TestIs, LocTypes, Bounds, SMTT(40) DEF Shape, Types, Lines, LocIs, SameLen, Turn, TailPcs, NewPcs,
       Line, M, I, Null, Ent, Quiet
  <2> QED BY <1>1, <2>1 DEF Shape
<1> QED BY <1>2, <1>3 DEF Line

LEMMA FetchCountShape ==
  ASSUME Shape, NEW t \in Line, FetchCount(t) PROVE Shape'
<1>1. Types'
  BY FetchIs, Bounds, LocTypes DEF Shape, Types, LocIs, SameLen, Turn, NewPcs, Ent, Quiet
<1>2. CASE t = "main"
  <2>1. Lines'
    BY <1>2, FetchIs, LocTypes, Bounds, ZenonT(60) DEF Shape, Types, Lines, LocIs, SameLen, Turn, TailPcs, NewPcs,
       Line, M, I, Null, Ent, Quiet
  <2> QED BY <1>1, <2>1 DEF Shape
<1>3. CASE t = "isr"
  <2>1. Lines'
    BY <1>3, FetchIs, LocTypes, Bounds, ZenonT(60) DEF Shape, Types, Lines, LocIs, SameLen, Turn, TailPcs, NewPcs,
       Line, M, I, Null, Ent, Quiet
  <2> QED BY <1>1, <2>1 DEF Shape
<1> QED BY <1>2, <1>3 DEF Line

LEMMA StoreCountShape ==
  ASSUME Shape, NEW t \in Line, StoreCount(t) PROVE Shape'
<1>1. Types'
  BY CountIs, Bounds, LocTypes DEF Shape, Types, LocIs, SameLen, Turn, NewPcs, Ent, Quiet
<1>2. CASE t = "main"
  <2>1. Lines'
    BY <1>2, CountIs, LocTypes, Bounds, SMTT(40) DEF Shape, Types, Lines, LocIs, SameLen, Turn, TailPcs, NewPcs,
       Line, M, I, Null, Ent, Quiet
  <2> QED BY <1>1, <2>1 DEF Shape
<1>3. CASE t = "isr"
  <2>1. Lines'
    BY <1>3, CountIs, LocTypes, Bounds, SMTT(40) DEF Shape, Types, Lines, LocIs, SameLen, Turn, TailPcs, NewPcs,
       Line, M, I, Null, Ent, Quiet
  <2> QED BY <1>1, <2>1 DEF Shape
<1> QED BY <1>2, <1>3 DEF Line

LEMMA StoreCharShape ==
  ASSUME Shape, NEW t \in Line, StoreChar(t) PROVE Shape'
<1>1. Types'
  BY StoreIs, Bounds, LocTypes DEF Shape, Types, LocIs, SameLen, Turn, NewPcs, Ent, Quiet
<1>2. CASE t = "main"
  <2>1. Lines'
    BY <1>2, StoreIs, LocTypes, Bounds DEF Shape, Types, Lines, LocIs, SameLen, Turn, TailPcs, NewPcs,
       Line, M, I, Null, Ent, Quiet
  <2> QED BY <1>1, <2>1 DEF Shape
<1>3. CASE t = "isr"
  <2>1. Lines'
    BY <1>3, StoreIs, LocTypes, Bounds, SMTT(40) DEF Shape, Types, Lines, LocIs, SameLen, Turn, TailPcs, NewPcs,
       Line, M, I, Null, Ent, Quiet
  <2> QED BY <1>1, <2>1 DEF Shape
<1> QED BY <1>2, <1>3 DEF Line

LEMMA AllocateShape ==
  ASSUME Shape, NEW t \in Line, Allocate(t) PROVE Shape'
<1>1. Types'
  BY AllocateIs, Bounds, LocTypes DEF Shape, Types, LocIs, SameLen, Turn, NewPcs, Ent, Quiet
<1>2. CASE t = "main"
  <2>1. Lines'
    BY <1>2, AllocateIs, LocTypes, Bounds, SMTT(40) DEF Shape, Types, Lines, LocIs, SameLen, Turn, TailPcs, NewPcs,
       Line, M, I, Null, Ent, Quiet
  <2> QED BY <1>1, <2>1 DEF Shape
<1>3. CASE t = "isr"
  <2>1. /\ M' = M /\ I'.pc = "link" /\ I'.chr = I.chr /\ I'.tail = I.tail
        /\ I'.new = Len(entry) + 1 /\ I.pc = "alloc" /\ last' = last /\ todo' = todo
        /\ Len(entry') = Len(entry) + 1
    BY <1>3, AllocateIs DEF LocIs, Turn, Line, M, I
  <2>2. /\ M.tail \in Nat /\ M.new \in Nat /\ M.tail <= Len(entry) /\ M.new <= Len(entry)
        /\ I.tail \in Nat /\ I.tail <= Len(entry) /\ Len(entry) \in Nat
    BY LocTypes, LenProperties DEF Shape, Types, Lines, Line, M, I
  <2>3. \A u \in Line : loc'[u].tail <= Len(entry') /\ loc'[u].new <= Len(entry')
    BY <2>1, <2>2 DEF Line, M, I
  <2>4. \A u \in Line : (loc'[u].pc \in TailPcs => loc'[u].tail # Null)
                     /\ (loc'[u].pc \in NewPcs => loc'[u].new # Null)
                     /\ (loc'[u].pc = "next" => last' # Null)
    BY <2>1, <2>2 DEF Shape, Lines, Line, M, I, TailPcs, NewPcs, Null
  <2>5. /\ I'.new # M'.new /\ I'.new # M'.tail /\ I'.tail # Null /\ I'.chr = "key" /\ last' # Null
    BY <2>1, <2>2 DEF Shape, Lines
  <2>6. (M'.pc = "idle" => M'.chr = "zero") /\ (M'.pc # "idle" => M'.chr \in Chars)
    BY <2>1 DEF Shape, Lines
  <2>7. Lines'
    BY <2>1, <2>3, <2>4, <2>5, <2>6 DEF Lines, TailPcs
  <2> QED BY <1>1, <2>7 DEF Shape
<1> QED BY <1>2, <1>3 DEF Line

LEMMA RefuseShape ==
  ASSUME Shape, NEW t \in Line, Refuse(t) PROVE Shape'
<1>1. Types'
  BY RefuseIs, Bounds, LocTypes DEF Shape, Types, LocIs, SameLen, Turn, NewPcs, Ent, Quiet
<1>2. CASE t = "main"
  <2>1. Lines'
    BY <1>2, RefuseIs, LocTypes, Bounds DEF Shape, Types, Lines, LocIs, SameLen, Turn, TailPcs, NewPcs,
       Line, M, I, Null, Ent, Quiet
  <2> QED BY <1>1, <2>1 DEF Shape
<1>3. CASE t = "isr"
  <2>1. Lines'
    BY <1>3, RefuseIs, LocTypes, Bounds, SMTT(40) DEF Shape, Types, Lines, LocIs, SameLen, Turn, TailPcs, NewPcs,
       Line, M, I, Null, Ent, Quiet
  <2> QED BY <1>1, <2>1 DEF Shape
<1> QED BY <1>2, <1>3 DEF Line

LEMMA LinkBackShape ==
  ASSUME Shape, NEW t \in Line, LinkBack(t) PROVE Shape'
<1>1. Types'
  BY LinkBackIs, Bounds, LocTypes DEF Shape, Types, LocIs, SameLen, Turn, NewPcs, Ent, Quiet
<1>2. CASE t = "main"
  <2>1. Lines'
    BY <1>2, LinkBackIs, LocTypes, Bounds, SMTT(40) DEF Shape, Types, Lines, LocIs, SameLen, Turn, TailPcs, NewPcs,
       Line, M, I, Null, Ent, Quiet
  <2> QED BY <1>1, <2>1 DEF Shape
<1>3. CASE t = "isr"
  <2>1. Lines'
    BY <1>3, LinkBackIs, LocTypes, Bounds, ZenonT(60) DEF Shape, Types, Lines, LocIs, SameLen, Turn, TailPcs, NewPcs,
       Line, M, I, Null, Ent, Quiet
  <2> QED BY <1>1, <2>1 DEF Shape
<1> QED BY <1>2, <1>3 DEF Line

LEMMA LinkNextShape ==
  ASSUME Shape, NEW t \in Line, LinkNext(t) PROVE Shape'
<1>1. Types'
  BY LinkNextIs, Bounds, LocTypes DEF Shape, Types, LocIs, SameLen, Turn, NewPcs, Ent, Quiet
<1>2. CASE t = "main"
  <2>1. Lines'
    BY <1>2, LinkNextIs, LocTypes, Bounds, ZenonT(60) DEF Shape, Types, Lines, LocIs, SameLen, Turn, TailPcs, NewPcs,
       Line, M, I, Null, Ent, Quiet
  <2> QED BY <1>1, <2>1 DEF Shape
<1>3. CASE t = "isr"
  <2>1. Lines'
    BY <1>3, LinkNextIs, LocTypes, Bounds, ZenonT(60) DEF Shape, Types, Lines, LocIs, SameLen, Turn, TailPcs, NewPcs,
       Line, M, I, Null, Ent, Quiet
  <2> QED BY <1>1, <2>1 DEF Shape
<1> QED BY <1>2, <1>3 DEF Line

LEMMA SetLastShape ==
  ASSUME Shape, NEW t \in Line, SetLast(t) PROVE Shape'
<1>1. Types'
  BY SetLastIs, Bounds, LocTypes DEF Shape, Types, LocIs, SameLen, Turn, NewPcs, Ent, Quiet
<1>2. CASE t = "main"
  <2>1. Lines'
    BY <1>2, SetLastIs, LocTypes, Bounds, ZenonT(60) DEF Shape, Types, Lines, LocIs, SameLen, Turn, TailPcs, NewPcs,
       Line, M, I, Null, Ent, Quiet
  <2> QED BY <1>1, <2>1 DEF Shape
<1>3. CASE t = "isr"
  <2>1. Lines'
    BY <1>3, SetLastIs, LocTypes, Bounds, ZenonT(60) DEF Shape, Types, Lines, LocIs, SameLen, Turn, TailPcs, NewPcs,
       Line, M, I, Null, Ent, Quiet
  <2> QED BY <1>1, <2>1 DEF Shape
<1> QED BY <1>2, <1>3 DEF Line

LEMMA ResetCountShape ==
  ASSUME Shape, NEW t \in Line, ResetCount(t) PROVE Shape'
<1>1. Types'
  BY ResetIs, Bounds, LocTypes DEF Shape, Types, LocIs, SameLen, Turn, NewPcs, Ent, Quiet
<1>2. CASE t = "main"
  <2>1. Lines'
    BY <1>2, ResetIs, LocTypes, Bounds, SMTT(40) DEF Shape, Types, Lines, LocIs, SameLen, Turn, TailPcs, NewPcs,
       Line, M, I, Null, Ent, Quiet
  <2> QED BY <1>1, <2>1 DEF Shape
<1>3. CASE t = "isr"
  <2>1. Lines'
    BY <1>3, ResetIs, LocTypes, Bounds, SMTT(40) DEF Shape, Types, Lines, LocIs, SameLen, Turn, TailPcs, NewPcs,
       Line, M, I, Null, Ent, Quiet
  <2> QED BY <1>1, <2>1 DEF Shape
<1> QED BY <1>2, <1>3 DEF Line

LEMMA ClearDataShape ==
  ASSUME Shape, NEW t \in Line, ClearData(t) PROVE Shape'
<1>1. Types'
  BY ClearIs, Bounds, LocTypes DEF Shape, Types, LocIs, SameLen, Turn, NewPcs, Ent, Quiet
<1>2. CASE t = "main"
  <2>1. Lines'
    BY <1>2, ClearIs, LocTypes, Bounds DEF Shape, Types, Lines, LocIs, SameLen, Turn, TailPcs, NewPcs,
       Line, M, I, Null, Ent, Quiet
  <2> QED BY <1>1, <2>1 DEF Shape
<1>3. CASE t = "isr"
  <2>1. Lines'
    BY <1>3, ClearIs, LocTypes, Bounds, SMTT(40) DEF Shape, Types, Lines, LocIs, SameLen, Turn, TailPcs, NewPcs,
       Line, M, I, Null, Ent, Quiet
  <2> QED BY <1>1, <2>1 DEF Shape
<1> QED BY <1>2, <1>3 DEF Line

(* A line starts to print, or a key is pressed.                            *)
LEMMA StartShape ==
  ASSUME Shape, (\E c \in Chars : PrintChar(c)) \/ KeyPress \/ PrintKey
  PROVE  Shape' /\ UNCHANGED <<entry, first, last>>
<1>1. CASE \E c \in Chars : PrintChar(c)
  <2>1. PICK c \in Chars : PrintChar(c)
    BY <1>1
  <2>2. /\ Turn("main", "idle") /\ UNCHANGED <<entry, first, last, keys, todo>>
        /\ LocIs("main", "tail", c, M.tail, M.new, M.index)
    BY <2>1, CallIs DEF PrintChar, Marks, Line, Shape, M
  <2>3. Types'
    BY <2>2 DEF Shape, Types, LocIs
  <2>4. Lines'
    BY <2>2 DEF Shape, Lines, LocIs, Turn, Line, M, I, TailPcs, NewPcs
  <2> QED BY <2>2, <2>3, <2>4 DEF Shape
<1>2. CASE KeyPress
  <2>1. Types'
    BY <1>2, ConsoleLogAssumption DEF KeyPress, Shape, Types, console
  <2>2. Lines'
    BY <1>2 DEF KeyPress, Shape, Lines, console, M, I
  <2> QED BY <1>2, <2>1, <2>2 DEF Shape, KeyPress, console
<1>3. CASE PrintKey
  <2>1. /\ Turn("isr", "idle") /\ UNCHANGED <<entry, first, last, keys>>
        /\ LocIs("isr", "tail", "key", I.tail, I.new, I.index)
        /\ todo > 0 /\ todo' = todo - 1
    BY <1>3, CallIs DEF PrintKey, Marks, Line, Shape, I
  <2>2. Types'
    BY <2>1 DEF Shape, Types, LocIs
  <2>3. Lines'
    BY <2>1 DEF Shape, Types, Lines, LocIs, Turn, Line, M, I, TailPcs, NewPcs
  <2> QED BY <2>1, <2>2, <2>3 DEF Shape
<1> QED BY <1>1, <1>2, <1>3

(* A step while no kmalloc has run inside another.                         *)
Alone == given = {} /\ [Next]_vars

LEMMA NextIs ==
  Alone => \/ UNCHANGED vars
          \/ (\E c \in Chars : PrintChar(c)) \/ KeyPress \/ PrintKey
          \/ \E t \in Line : \/ ReadTail(t) \/ TestCapacity(t) \/ FetchCount(t) \/ StoreCount(t)
                             \/ StoreChar(t) \/ Allocate(t) \/ Refuse(t) \/ LinkBack(t)
                             \/ LinkNext(t) \/ SetLast(t) \/ ResetCount(t) \/ ClearData(t)
<1>1. given = {} => ~ AllocateTwice
  BY DEF AllocateTwice
<1> QED BY <1>1 DEF Alone, Next, Putchar

(* As long as no kmalloc has run inside another every step is one of these.*)
Single == ~ reentered => given = {}

LEMMA SingleStep ==
  ASSUME Single, [Next]_vars, ~ reentered' PROVE ~ reentered /\ Alone /\ Single'
<1>1. CASE UNCHANGED kmallocs
  BY <1>1 DEF Single, Alone, kmallocs
<1>2. ASSUME NEW t, NEW n, Kmalloc(t, n) PROVE ~ reentered /\ Alone /\ Single'
  <2>1. CASE given' = {} /\ UNCHANGED reentered
    BY <2>1 DEF Single, Alone
  <2>2. CASE UNCHANGED kmallocs
    BY <1>1, <2>2
  <2> QED BY <1>2, <2>1, <2>2 DEF Kmalloc
<1>3. CASE \E t \in Line : Allocate(t) \/ Refuse(t)
  BY <1>2, <1>3 DEF Allocate, Refuse
<1>4. CASE AllocateTwice
  BY <1>2, <1>4 DEF AllocateTwice
<1> QED BY <1>1, <1>3, <1>4 DEF Next, vars

LEMMA ShapeStep == Shape /\ Alone => Shape'
<1> SUFFICES ASSUME Shape, Alone PROVE Shape'
  OBVIOUS
<1>1. CASE UNCHANGED vars
  BY <1>1 DEF vars, Shape, Types, Lines, M, I
<1>2. CASE ~ UNCHANGED vars
  BY <1>2, NextIs, StartShape, ReadTailShape, TestCapacityShape, FetchCountShape, StoreCountShape,
     StoreCharShape, AllocateShape, RefuseShape, LinkBackShape, LinkNextShape, SetLastShape,
     ResetCountShape, ClearDataShape, Zenon
<1> QED BY <1>1, <1>2

-----------------------------------------------------------------------------
(* The characters of the entries: nothing of the main line lies at or      *)
(* behind charcount, nor at or behind the place the main line stores to.   *)

Clean(e) == \A j \in Bytes : entry[e].data[j] \notin Chars

Filled ==
  \A e \in Ent : /\ entry[e].charcount <= MIN_CAPACITY
                 /\ \A j \in Bytes : j >= entry[e].charcount => entry[e].data[j] \notin Chars

FreshClean == \A t \in Line : loc[t].pc \in NewPcs => Clean(loc[t].new)

MainBytes ==
  /\ M.pc = "fetch" => entry[M.tail].charcount <= MIN_CAPACITY - 1
  /\ M.pc = "clear" => entry[M.new].charcount <= MIN_CAPACITY - 1
  /\ M.pc \in {"count", "store"} =>
       /\ M.index <= MIN_CAPACITY - 1
       /\ \A j \in Bytes : j >= M.index => entry[M.tail].data[j] \notin Chars
  /\ M.pc = "store" => entry[M.tail].charcount >= M.index + 1

HandlerBytes ==
  /\ I.pc = "fetch" => entry[I.tail].charcount <= MIN_CAPACITY - 2
  /\ I.pc = "clear" => entry[I.new].charcount = 0
  /\ I.pc \in {"count", "store"} => I.index <= MIN_CAPACITY - 2
  /\ I.pc = "count" => entry[I.tail].charcount = I.index
  /\ I.pc = "store" => entry[I.tail].charcount = I.index + 1

Stored == Filled /\ FreshClean /\ MainBytes /\ HandlerBytes

LEMMA StoredInit == Init => Stored
  BY DEF Init, Stored, Filled, FreshClean, MainBytes, HandlerBytes, Idle, Line, M, I, Ent, NewPcs

(* What the two lines are to each other.                                   *)
LEMMA Places ==
  ASSUME Shape
  PROVE  /\ M.pc \in TailPcs => M.tail \in Ent
         /\ M.pc \in NewPcs => M.new \in Ent
         /\ I.pc \in TailPcs => I.tail \in Ent
         /\ I.pc \in NewPcs => I.new \in Ent /\ I.new # M.new /\ I.new # M.tail
         /\ M.tail \in Nat /\ M.new \in Nat /\ M.index \in Nat /\ M.tail <= Len(entry) /\ M.new <= Len(entry)
         /\ I.tail \in Nat /\ I.new \in Nat /\ I.index \in Nat /\ Len(entry) \in Nat
  BY Bounds, LocTypes, LenProperties DEF Shape, Types, Lines, Line, M, I

LEMMA CleanSame ==
  ASSUME NEW e, entry'[e].data = entry[e].data, Clean(e) PROVE Clean(e)'
  BY DEF Clean

LEMMA ReadTailStored ==
  ASSUME Shape, Shape', Stored, NEW t \in Line, ReadTail(t) PROVE Stored'
<1> USE ConsoleLogAssumption
<1>1. Filled'
  BY ReadTailIs, Bounds, LocTypes, EntryTypes DEF Shape, Stored, Filled, Turn, TailPcs, NewPcs, Ent, Quiet,
     SameLen, SameCount, SameData, Lines, MainBytes, HandlerBytes, M, I, Line, Bytes, Marks, Zeroed
<1>2. FreshClean'
  BY ReadTailIs, Bounds, LocTypes, SMTT(40) DEF Shape, Stored, FreshClean, Clean, LocIs, Turn, TailPcs, NewPcs, Ent, Quiet,
     SameLen, SameData, Lines, M, I, Line, Bytes, Zeroed, Marks
<1>3. CASE t = "main"
  <2>1. /\ Turn("main", M.pc) /\ I' = I /\ I.pc = "idle"
    BY <1>3, ReadTailIs DEF Turn, LocIs, Line, M, I, Shape
  <2>2. HandlerBytes'
    BY <2>1 DEF HandlerBytes
  <2>3. MainBytes'
    BY <1>3, ReadTailIs, Places, EntryTypes DEF Stored, Filled, MainBytes, FreshClean, Clean, Turn, LocIs, Quiet,
       TailPcs, NewPcs, Ent, SameLen, SameData, SameCount, Line, M, Bytes, Marks, Shape
  <2> QED BY <1>1, <1>2, <2>2, <2>3 DEF Stored
<1>4. CASE t = "isr"
  <2>1. M' = M
    BY <1>4, ReadTailIs DEF LocIs, Line, M, Shape
  <2>2. HandlerBytes'
    BY <1>4, ReadTailIs, Places, EntryTypes DEF Stored, Filled, HandlerBytes, Turn, LocIs, Quiet,
       TailPcs, NewPcs, Ent, SameLen, SameData, SameCount, Line, I, Bytes, Shape, Lines, Null
  <2>3. MainBytes'
    BY <1>4, <2>1, ReadTailIs, Places, EntryTypes DEF Stored, Filled, MainBytes, HandlerBytes, Turn, LocIs, Quiet,
       TailPcs, NewPcs, Ent, SameLen, SameData, SameCount, Line, I, Bytes, Shape, Lines, Marks
  <2> QED BY <1>1, <1>2, <2>2, <2>3 DEF Stored
<1> QED BY <1>3, <1>4 DEF Line

LEMMA TestCapacityStored ==
  ASSUME Shape, Shape', Stored, NEW t \in Line, TestCapacity(t) PROVE Stored'
<1> USE ConsoleLogAssumption
<1>1. Filled'
  BY TestIs, Bounds, LocTypes, EntryTypes DEF Shape, Stored, Filled, Turn, TailPcs, NewPcs, Ent, Quiet,
     SameLen, SameCount, SameData, Lines, MainBytes, HandlerBytes, M, I, Line, Bytes, Marks, Zeroed
<1>2. FreshClean'
  BY TestIs, Bounds, LocTypes DEF Shape, Stored, FreshClean, Clean, LocIs, Turn, TailPcs, NewPcs, Ent, Quiet,
     SameLen, SameData, Lines, M, I, Line, Bytes, Zeroed, Marks
<1>3. CASE t = "main"
  <2>1. /\ Turn("main", M.pc) /\ I' = I /\ I.pc = "idle"
    BY <1>3, TestIs DEF Turn, LocIs, Line, M, I
  <2>2. HandlerBytes'
    BY <2>1 DEF HandlerBytes
  <2>3. MainBytes'
    BY <1>3, TestIs, Places, EntryTypes DEF Stored, Filled, MainBytes, FreshClean, Clean, Turn, LocIs, Quiet,
       TailPcs, NewPcs, Ent, SameLen, SameData, SameCount, Line, M, Bytes, Marks, Shape
  <2> QED BY <1>1, <1>2, <2>2, <2>3 DEF Stored
<1>4. CASE t = "isr"
  <2>1. M' = M
    BY <1>4, TestIs DEF LocIs, Line, M
  <2>2. HandlerBytes'
    BY <1>4, TestIs, Places, EntryTypes, SMTT(40) DEF Stored, Filled, HandlerBytes, Turn, LocIs, Quiet,
       TailPcs, NewPcs, Ent, SameLen, SameData, SameCount, Line, I, Bytes, Shape, Lines, Null
  <2>3. MainBytes'
    BY <1>4, <2>1, TestIs, Places, EntryTypes DEF Stored, Filled, MainBytes, HandlerBytes, Turn, LocIs, Quiet,
       TailPcs, NewPcs, Ent, SameLen, SameData, SameCount, Line, I, Bytes, Shape, Lines, Marks
  <2> QED BY <1>1, <1>2, <2>2, <2>3 DEF Stored
<1> QED BY <1>3, <1>4 DEF Line

LEMMA FetchCountStored ==
  ASSUME Shape, Shape', Stored, NEW t \in Line, FetchCount(t) PROVE Stored'
<1> USE ConsoleLogAssumption
<1>1. Filled'
  BY FetchIs, Bounds, LocTypes, EntryTypes DEF Shape, Stored, Filled, Turn, TailPcs, NewPcs, Ent, Quiet,
     SameLen, SameCount, SameData, Lines, MainBytes, HandlerBytes, M, I, Line, Bytes, Marks, Zeroed
<1>2. FreshClean'
  BY FetchIs, Bounds, LocTypes DEF Shape, Stored, FreshClean, Clean, LocIs, Turn, TailPcs, NewPcs, Ent, Quiet,
     SameLen, SameData, Lines, M, I, Line, Bytes, Zeroed, Marks
<1>3. CASE t = "main"
  <2>1. /\ Turn("main", M.pc) /\ I' = I /\ I.pc = "idle"
    BY <1>3, FetchIs DEF Turn, LocIs, Line, M, I
  <2>2. HandlerBytes'
    BY <2>1 DEF HandlerBytes
  <2>3. MainBytes'
    BY <1>3, FetchIs, Places, EntryTypes DEF Stored, Filled, MainBytes, FreshClean, Clean, Turn, LocIs, Quiet,
       TailPcs, NewPcs, Ent, SameLen, SameData, SameCount, Line, M, Bytes, Marks, Shape
  <2> QED BY <1>1, <1>2, <2>2, <2>3 DEF Stored
<1>4. CASE t = "isr"
  <2>1. M' = M
    BY <1>4, FetchIs DEF LocIs, Line, M
  <2>2. HandlerBytes'
    BY <1>4, FetchIs, Places, EntryTypes DEF Stored, Filled, HandlerBytes, Turn, LocIs, Quiet,
       TailPcs, NewPcs, Ent, SameLen, SameData, SameCount, Line, I, Bytes, Shape, Lines, Null
  <2>3. MainBytes'
    BY <1>4, <2>1, FetchIs, Places, EntryTypes DEF Stored, Filled, MainBytes, HandlerBytes, Turn, LocIs, Quiet,
       TailPcs, NewPcs, Ent, SameLen, SameData, SameCount, Line, I, Bytes, Shape, Lines, Marks
  <2> QED BY <1>1, <1>2, <2>2, <2>3 DEF Stored
<1> QED BY <1>3, <1>4 DEF Line

LEMMA StoreCountStored ==
  ASSUME Shape, Shape', Stored, NEW t \in Line, StoreCount(t) PROVE Stored'
<1> USE ConsoleLogAssumption
<1>1. Filled'
  <2> DEFINE x == loc[t].tail
             n == loc[t].index
  <2>1. /\ x \in Ent /\ entry'[x].charcount = n + 1 /\ SameLen /\ SameData /\ n \in Nat
        /\ \A e \in Ent : e # x => entry'[e].charcount = entry[e].charcount
    BY CountIs, Bounds, LocTypes DEF Turn, TailPcs, Shape
  <2>2. n <= MIN_CAPACITY - 1 /\ \A j \in Bytes : j >= n => entry[x].data[j] \notin Chars
    <3>1. CASE t = "main"
      BY <3>1, CountIs DEF Stored, MainBytes, M, Turn
    <3>2. CASE t = "isr"
      <4>1. /\ entry[x].charcount = n /\ n <= MIN_CAPACITY - 2
        BY <3>2, CountIs DEF Stored, HandlerBytes, I, Turn
      <4> QED BY <2>1, <4>1 DEF Stored, Filled
    <3> QED BY <3>1, <3>2 DEF Line
  <2> HIDE DEF x, n
  <2>3. ASSUME NEW e \in Ent
        PROVE  /\ entry'[e].charcount <= MIN_CAPACITY
               /\ \A j \in Bytes : j >= entry'[e].charcount => entry'[e].data[j] \notin Chars
    <3>1. entry'[e].data = entry[e].data
      BY <2>1 DEF SameData
    <3>2. CASE e = x
      BY <2>1, <2>2, <3>1, <3>2 DEF Bytes
    <3>3. CASE e # x
      BY <2>1, <3>1, <3>3 DEF Stored, Filled
    <3> QED BY <3>2, <3>3
  <2>4. Ent' = Ent
    BY <2>1 DEF SameLen, Ent
  <2> QED BY <2>3, <2>4 DEF Filled
<1>2. FreshClean'
  BY CountIs, Bounds, LocTypes, SMTT(40) DEF Shape, Stored, FreshClean, Clean, LocIs, Turn, TailPcs, NewPcs, Ent, Quiet,
     SameLen, SameData, Lines, M, I, Line, Bytes, Zeroed, Marks
<1>3. CASE t = "main"
  <2>1. /\ Turn("main", M.pc) /\ I' = I /\ I.pc = "idle"
    BY <1>3, CountIs DEF Turn, LocIs, Line, M, I
  <2>2. HandlerBytes'
    BY <2>1 DEF HandlerBytes
  <2>3. /\ M.pc = "count" /\ M'.pc = "store" /\ M'.tail = M.tail /\ M'.index = M.index
        /\ entry'[M.tail].charcount = M.index + 1 /\ M.index \in Nat
        /\ entry'[M.tail].data = entry[M.tail].data
    <3>1. /\ M.pc = "count" /\ M'.pc = "store" /\ M'.tail = M.tail /\ M'.index = M.index
          /\ entry'[M.tail].charcount = M.index + 1 /\ SameData
      BY <1>3, CountIs DEF Turn, LocIs, M
    <3>2. M.tail \in Ent /\ M.index \in Nat
      BY <3>1, Places DEF TailPcs
    <3> QED BY <3>1, <3>2 DEF SameData
  <2>4. MainBytes'
    BY <2>3 DEF Stored, MainBytes
  <2> QED BY <1>1, <1>2, <2>2, <2>4 DEF Stored
<1>4. CASE t = "isr"
  <2>1. M' = M
    BY <1>4, CountIs DEF LocIs, Line, M
  <2>2. HandlerBytes'
    BY <1>4, CountIs, Places, EntryTypes DEF Stored, Filled, HandlerBytes, Turn, LocIs, Quiet,
       TailPcs, NewPcs, Ent, SameLen, SameData, SameCount, Line, I, Bytes, Shape, Lines, Null
  <2>3. MainBytes'
    <3>1. /\ SameData /\ entry'[I.tail].charcount = I.index + 1 /\ I.pc = "count"
          /\ \A e \in Ent : e # I.tail => entry'[e].charcount = entry[e].charcount
      BY <1>4, CountIs DEF I, Turn
    <3>2. entry[I.tail].charcount = I.index /\ I.index <= MIN_CAPACITY - 2 /\ I.index \in Nat
      BY <3>1, Places DEF Stored, HandlerBytes
    <3>3. /\ M.pc \in TailPcs => M.tail \in Ent /\ entry[M.tail].charcount \in Nat
          /\ M.pc \in NewPcs => M.new \in Ent /\ entry[M.new].charcount \in Nat
      BY Places, EntryTypes DEF Shape
    <3>4. M.pc = "fetch" => entry'[M.tail].charcount <= MIN_CAPACITY - 1
      BY <3>1, <3>2, <3>3 DEF Stored, MainBytes, TailPcs
    <3>5. M.pc = "clear" => entry'[M.new].charcount <= MIN_CAPACITY - 1
      BY <3>1, <3>2, <3>3 DEF Stored, MainBytes, NewPcs
    <3>6. M.pc \in {"count", "store"} => entry'[M.tail].data = entry[M.tail].data
      BY <3>1, <3>3 DEF SameData, TailPcs
    <3>7. M.pc = "store" => entry'[M.tail].charcount >= M.index + 1
      <4>1. CASE M.tail = I.tail
        BY <3>1, <3>2, <4>1, Places DEF Stored, MainBytes
      <4>2. CASE M.tail # I.tail
        BY <3>1, <3>3, <4>2, Places DEF Stored, MainBytes, TailPcs
      <4> QED BY <4>1, <4>2
    <3> QED BY <2>1, <3>4, <3>5, <3>6, <3>7 DEF Stored, MainBytes
  <2> QED BY <1>1, <1>2, <2>2, <2>3 DEF Stored
<1> QED BY <1>3, <1>4 DEF Line

LEMMA StoreCharStored ==
  ASSUME Shape, Shape', Stored, NEW t \in Line, StoreChar(t) PROVE Stored'
<1> USE ConsoleLogAssumption
<1> DEFINE x == loc[t].tail
           n == loc[t].index
<1>0. /\ x \in Ent /\ SameLen /\ SameCount /\ n \in Nat /\ loc[t].pc = "store"
      /\ \A j \in Bytes : entry'[x].data[j] = IF j = n THEN loc[t].chr ELSE entry[x].data[j]
      /\ \A e \in Ent : e # x => entry'[e].data = entry[e].data
      /\ LocIs(t, "idle", "zero", Null, Null, 0)
  BY StoreIs, Bounds, LocTypes DEF Turn, TailPcs, Shape
<1>1. Filled'
  <2>1. n < entry[x].charcount /\ entry[x].charcount \in Nat
    <3>1. CASE t = "main"
      BY <1>0, <3>1, EntryTypes DEF Stored, MainBytes, M, Shape
    <3>2. CASE t = "isr"
      BY <1>0, <3>2, EntryTypes DEF Stored, HandlerBytes, I, Shape
    <3> QED BY <3>1, <3>2 DEF Line
  <2> HIDE DEF x, n
  <2>2. ASSUME NEW e \in Ent
        PROVE  /\ entry'[e].charcount <= MIN_CAPACITY
               /\ \A j \in Bytes : j >= entry'[e].charcount => entry'[e].data[j] \notin Chars
    <3>1. entry'[e].charcount = entry[e].charcount
      BY <1>0 DEF SameCount
    <3>2. CASE e = x
      <4>1. ASSUME NEW j \in Bytes, j >= entry[x].charcount PROVE entry'[x].data[j] \notin Chars
        <5>1. j # n
          BY <2>1, <1>0, <4>1 DEF Bytes
        <5> QED BY <1>0, <4>1, <5>1 DEF Stored, Filled
      <4> QED BY <1>0, <3>1, <3>2, <4>1 DEF Stored, Filled
    <3>3. CASE e # x
      BY <1>0, <3>1, <3>3 DEF Stored, Filled
    <3> QED BY <3>2, <3>3
  <2>3. Ent' = Ent
    BY <1>0 DEF SameLen, Ent
  <2> QED BY <2>2, <2>3 DEF Filled
<1>2. FreshClean'
  <2>1. ASSUME NEW u \in Line, loc'[u].pc \in NewPcs PROVE \A j \in Bytes : entry'[loc'[u].new].data[j] \notin Chars
    <3>1. u # t /\ loc'[u] = loc[u]
      BY <1>0, <2>1 DEF LocIs, NewPcs
    <3>2. t = "isr"
      BY <1>0, <2>1, <3>1, StoreIs DEF Turn, I, Line, NewPcs
    <3>3. loc[t].chr = "key"
      BY <1>0, <3>2 DEF Shape, Lines, I
    <3>4. loc[u].new \in Ent /\ Clean(loc[u].new)
      BY <2>1, <3>1, Bounds DEF Stored, FreshClean
    <3>5. ASSUME NEW j \in Bytes PROVE entry'[loc[u].new].data[j] \notin Chars
      <4>1. CASE loc[u].new = x
        BY <1>0, <3>3, <3>4, <4>1, ConsoleLogAssumption DEF Clean
      <4>2. CASE loc[u].new # x
        BY <1>0, <3>4, <4>2 DEF Clean
      <4> QED BY <4>1, <4>2
    <3> QED BY <3>1, <3>5 DEF Clean
  <2> QED BY <2>1 DEF FreshClean, Clean
<1>3. CASE t = "main"
  <2>1. /\ Turn("main", M.pc) /\ I' = I /\ I.pc = "idle"
    BY <1>3, StoreIs DEF Turn, LocIs, Line, M, I
  <2>2. HandlerBytes'
    BY <2>1 DEF HandlerBytes
  <2>3. MainBytes'
    BY <1>3, StoreIs, Places, EntryTypes DEF Stored, Filled, MainBytes, FreshClean, Clean, Turn, LocIs, Quiet,
       TailPcs, NewPcs, Ent, SameLen, SameData, SameCount, Line, M, Bytes, Marks, Shape
  <2> QED BY <1>1, <1>2, <2>2, <2>3 DEF Stored
<1>4. CASE t = "isr"
  <2>1. M' = M
    BY <1>4, StoreIs DEF LocIs, Line, M
  <2>2. HandlerBytes'
    BY <1>4, StoreIs, Places, EntryTypes DEF Stored, Filled, HandlerBytes, Turn, LocIs, Quiet,
       TailPcs, NewPcs, Ent, SameLen, SameData, SameCount, Line, I, Bytes, Shape, Lines, Null
  <2>3. MainBytes'
    <3>1. loc[t].chr = "key" /\ "key" \notin Chars
      BY <1>0, <1>4, ConsoleLogAssumption DEF Shape, Lines, I
    <3>2. /\ M.pc \in TailPcs => M.tail \in Ent
          /\ M.pc \in NewPcs => M.new \in Ent
      BY Places
    <3>3. \A e \in Ent : entry'[e].charcount = entry[e].charcount
      BY <1>0 DEF SameCount
    <3>4. ASSUME M.pc \in {"count", "store"}, NEW j \in Bytes, j >= M.index
          PROVE  entry'[M.tail].data[j] \notin Chars
      <4>1. M.tail \in Ent /\ entry[M.tail].data[j] \notin Chars
        BY <3>2, <3>4 DEF Stored, MainBytes, TailPcs
      <4>2. CASE M.tail = x
        BY <1>0, <3>1, <4>1, <4>2
      <4>3. CASE M.tail # x
        BY <1>0, <4>1, <4>3
      <4> QED BY <4>2, <4>3
    <3>5. M.pc = "fetch" => entry'[M.tail].charcount <= MIN_CAPACITY - 1
      BY <3>2, <3>3 DEF Stored, MainBytes, TailPcs
    <3>6. M.pc = "clear" => entry'[M.new].charcount <= MIN_CAPACITY - 1
      BY <3>2, <3>3 DEF Stored, MainBytes, NewPcs
    <3>7. M.pc = "store" => entry'[M.tail].charcount >= M.index + 1
      BY <3>2, <3>3 DEF Stored, MainBytes, TailPcs
    <3> QED BY <2>1, <3>4, <3>5, <3>6, <3>7 DEF Stored, MainBytes
  <2> QED BY <1>1, <1>2, <2>2, <2>3 DEF Stored
<1> QED BY <1>3, <1>4 DEF Line

LEMMA AllocateStored ==
  ASSUME Shape, Shape', Stored, NEW t \in Line, Allocate(t) PROVE Stored'
<1> USE ConsoleLogAssumption
<1>0. /\ Len(entry) \in Nat /\ Ent' = Ent \cup {Len(entry) + 1}
      /\ entry'[Len(entry) + 1] = Zeroed /\ \A e \in Ent : entry'[e] = entry[e]
  BY AllocateIs, Places, SMTT(40) DEF Ent
<1>5. Zeroed.charcount = 0 /\ \A j \in Bytes : Zeroed.data[j] \notin Chars
  BY DEF Zeroed, Bytes
<1>1. Filled'
  BY <1>0, <1>5 DEF Stored, Filled
<1>2. FreshClean'
  <2>1. ASSUME NEW u \in Line, loc'[u].pc \in NewPcs PROVE \A j \in Bytes : entry'[loc'[u].new].data[j] \notin Chars
    <3>1. CASE u = t
      <4>1. loc'[u].new = Len(entry) + 1
        BY <3>1, AllocateIs DEF LocIs
      <4> QED BY <1>0, <1>5, <4>1 DEF Clean
    <3>2. CASE u # t
      <4>1. loc'[u] = loc[u]
        BY <3>2, AllocateIs DEF LocIs
      <4>2. loc[u].new \in Ent /\ Clean(loc[u].new)
        BY <2>1, <4>1, Bounds DEF Stored, FreshClean
      <4> QED BY <1>0, <4>1, <4>2 DEF Clean
    <3> QED BY <3>1, <3>2
  <2> QED BY <2>1 DEF FreshClean, Clean
<1>3. CASE t = "main"
  <2>1. /\ Turn("main", M.pc) /\ I' = I /\ I.pc = "idle"
    BY <1>3, AllocateIs DEF Turn, LocIs, Line, M, I
  <2>2. HandlerBytes'
    BY <2>1 DEF HandlerBytes
  <2>3. MainBytes'
    BY <1>3, AllocateIs, Places, EntryTypes DEF Stored, Filled, MainBytes, FreshClean, Clean, Turn, LocIs, Quiet,
       TailPcs, NewPcs, Ent, SameLen, SameData, SameCount, Line, M, Bytes, Marks, Shape
  <2> QED BY <1>1, <1>2, <2>2, <2>3 DEF Stored
<1>4. CASE t = "isr"
  <2>1. M' = M
    BY <1>4, AllocateIs DEF LocIs, Line, M
  <2>2. HandlerBytes'
    BY <1>4, AllocateIs, Places, EntryTypes DEF Stored, Filled, HandlerBytes, Turn, LocIs, Quiet,
       TailPcs, NewPcs, Ent, SameLen, SameData, SameCount, Line, I, Bytes, Shape, Lines, Null
  <2>3. MainBytes'
    BY <1>4, <2>1, AllocateIs, Places, EntryTypes DEF Stored, Filled, MainBytes, HandlerBytes, Turn, LocIs, Quiet,
       TailPcs, NewPcs, Ent, SameLen, SameData, SameCount, Line, I, Bytes, Shape, Lines, Marks
  <2> QED BY <1>1, <1>2, <2>2, <2>3 DEF Stored
<1> QED BY <1>3, <1>4 DEF Line

LEMMA RefuseStored ==
  ASSUME Shape, Shape', Stored, NEW t \in Line, Refuse(t) PROVE Stored'
<1> USE ConsoleLogAssumption
<1>1. Filled'
  BY RefuseIs, Bounds, LocTypes, EntryTypes DEF Shape, Stored, Filled, Turn, TailPcs, NewPcs, Ent, Quiet,
     SameLen, SameCount, SameData, Lines, MainBytes, HandlerBytes, M, I, Line, Bytes, Marks, Zeroed
<1>2. FreshClean'
  BY RefuseIs, Bounds, LocTypes DEF Shape, Stored, FreshClean, Clean, LocIs, Turn, TailPcs, NewPcs, Ent, Quiet,
     SameLen, SameData, Lines, M, I, Line, Bytes, Zeroed, Marks
<1>3. CASE t = "main"
  <2>1. /\ Turn("main", M.pc) /\ I' = I /\ I.pc = "idle"
    BY <1>3, RefuseIs DEF Turn, LocIs, Line, M, I, Shape
  <2>2. HandlerBytes'
    BY <2>1 DEF HandlerBytes
  <2>3. MainBytes'
    BY <1>3, RefuseIs, Places, EntryTypes DEF Stored, Filled, MainBytes, FreshClean, Clean, Turn, LocIs, Quiet,
       TailPcs, NewPcs, Ent, SameLen, SameData, SameCount, Line, M, Bytes, Marks, Shape
  <2> QED BY <1>1, <1>2, <2>2, <2>3 DEF Stored
<1>4. CASE t = "isr"
  <2>1. M' = M
    BY <1>4, RefuseIs DEF LocIs, Line, M, Shape
  <2>2. HandlerBytes'
    BY <1>4, RefuseIs, Places, EntryTypes DEF Stored, Filled, HandlerBytes, Turn, LocIs, Quiet,
       TailPcs, NewPcs, Ent, SameLen, SameData, SameCount, Line, I, Bytes, Shape, Lines, Null
  <2>3. MainBytes'
    BY <1>4, <2>1, RefuseIs, Places, EntryTypes DEF Stored, Filled, MainBytes, HandlerBytes, Turn, LocIs, Quiet,
       TailPcs, NewPcs, Ent, SameLen, SameData, SameCount, Line, I, Bytes, Shape, Lines, Marks
  <2> QED BY <1>1, <1>2, <2>2, <2>3 DEF Stored
<1> QED BY <1>3, <1>4 DEF Line

LEMMA LinkBackStored ==
  ASSUME Shape, Shape', Stored, NEW t \in Line, LinkBack(t) PROVE Stored'
<1> USE ConsoleLogAssumption
<1>1. Filled'
  BY LinkBackIs, Bounds, LocTypes, EntryTypes DEF Shape, Stored, Filled, Turn, TailPcs, NewPcs, Ent, Quiet,
     SameLen, SameCount, SameData, Lines, MainBytes, HandlerBytes, M, I, Line, Bytes, Marks, Zeroed
<1>2. FreshClean'
  <2>1. ASSUME NEW u \in Line, loc'[u].pc \in NewPcs PROVE \A j \in Bytes : entry'[loc'[u].new].data[j] \notin Chars
    <3>1. loc[u].pc \in NewPcs /\ loc'[u].new = loc[u].new
      BY <2>1, LinkBackIs DEF LocIs, Turn, NewPcs
    <3>2. loc[u].new \in Ent /\ Clean(loc[u].new)
      BY <3>1, Bounds DEF Stored, FreshClean
    <3>3. entry'[loc[u].new].data = entry[loc[u].new].data
      BY <3>2, LinkBackIs DEF SameData
    <3> QED BY <3>1, <3>2, <3>3 DEF Clean
  <2> QED BY <2>1 DEF FreshClean, Clean
<1>3. CASE t = "main"
  <2>1. /\ Turn("main", M.pc) /\ I' = I /\ I.pc = "idle"
    BY <1>3, LinkBackIs DEF Turn, LocIs, Line, M, I
  <2>2. HandlerBytes'
    BY <2>1 DEF HandlerBytes
  <2>3. MainBytes'
    BY <1>3, LinkBackIs, Places, EntryTypes DEF Stored, Filled, MainBytes, FreshClean, Clean, Turn, LocIs, Quiet,
       TailPcs, NewPcs, Ent, SameLen, SameData, SameCount, Line, M, Bytes, Marks, Shape
  <2> QED BY <1>1, <1>2, <2>2, <2>3 DEF Stored
<1>4. CASE t = "isr"
  <2>1. M' = M
    BY <1>4, LinkBackIs DEF LocIs, Line, M
  <2>2. HandlerBytes'
    BY <1>4, LinkBackIs, Places, EntryTypes DEF Stored, Filled, HandlerBytes, Turn, LocIs, Quiet,
       TailPcs, NewPcs, Ent, SameLen, SameData, SameCount, Line, I, Bytes, Shape, Lines, Null
  <2>3. MainBytes'
    BY <1>4, <2>1, LinkBackIs, Places, EntryTypes DEF Stored, Filled, MainBytes, HandlerBytes, Turn, LocIs, Quiet,
       TailPcs, NewPcs, Ent, SameLen, SameData, SameCount, Line, I, Bytes, Shape, Lines, Marks
  <2> QED BY <1>1, <1>2, <2>2, <2>3 DEF Stored
<1> QED BY <1>3, <1>4 DEF Line

LEMMA LinkNextStored ==
  ASSUME Shape, Shape', Stored, NEW t \in Line, LinkNext(t) PROVE Stored'
<1> USE ConsoleLogAssumption
<1>1. Filled'
  BY LinkNextIs, Bounds, LocTypes, EntryTypes DEF Shape, Stored, Filled, Turn, TailPcs, NewPcs, Ent, Quiet,
     SameLen, SameCount, SameData, Lines, MainBytes, HandlerBytes, M, I, Line, Bytes, Marks, Zeroed
<1>2. FreshClean'
  <2>1. ASSUME NEW u \in Line, loc'[u].pc \in NewPcs PROVE \A j \in Bytes : entry'[loc'[u].new].data[j] \notin Chars
    <3>1. loc[u].pc \in NewPcs /\ loc'[u].new = loc[u].new
      BY <2>1, LinkNextIs DEF LocIs, Turn, NewPcs
    <3>2. loc[u].new \in Ent /\ Clean(loc[u].new)
      BY <3>1, Bounds DEF Stored, FreshClean
    <3>3. entry'[loc[u].new].data = entry[loc[u].new].data
      BY <3>2, LinkNextIs DEF SameData
    <3> QED BY <3>1, <3>2, <3>3 DEF Clean
  <2> QED BY <2>1 DEF FreshClean, Clean
<1>3. CASE t = "main"
  <2>1. /\ Turn("main", M.pc) /\ I' = I /\ I.pc = "idle"
    BY <1>3, LinkNextIs DEF Turn, LocIs, Line, M, I
  <2>2. HandlerBytes'
    BY <2>1 DEF HandlerBytes
  <2>3. MainBytes'
    BY <1>3, LinkNextIs, Places, EntryTypes DEF Stored, Filled, MainBytes, FreshClean, Clean, Turn, LocIs, Quiet,
       TailPcs, NewPcs, Ent, SameLen, SameData, SameCount, Line, M, Bytes, Marks, Shape
  <2> QED BY <1>1, <1>2, <2>2, <2>3 DEF Stored
<1>4. CASE t = "isr"
  <2>1. M' = M
    BY <1>4, LinkNextIs DEF LocIs, Line, M
  <2>2. HandlerBytes'
    BY <1>4, LinkNextIs, Places, EntryTypes DEF Stored, Filled, HandlerBytes, Turn, LocIs, Quiet,
       TailPcs, NewPcs, Ent, SameLen, SameData, SameCount, Line, I, Bytes, Shape, Lines, Null
  <2>3. MainBytes'
    BY <1>4, <2>1, LinkNextIs, Places, EntryTypes DEF Stored, Filled, MainBytes, HandlerBytes, Turn, LocIs, Quiet,
       TailPcs, NewPcs, Ent, SameLen, SameData, SameCount, Line, I, Bytes, Shape, Lines, Marks
  <2> QED BY <1>1, <1>2, <2>2, <2>3 DEF Stored
<1> QED BY <1>3, <1>4 DEF Line

LEMMA SetLastStored ==
  ASSUME Shape, Shape', Stored, NEW t \in Line, SetLast(t) PROVE Stored'
<1> USE ConsoleLogAssumption
<1>1. Filled'
  BY SetLastIs, Bounds, LocTypes, EntryTypes DEF Shape, Stored, Filled, Turn, TailPcs, NewPcs, Ent, Quiet,
     SameLen, SameCount, SameData, Lines, MainBytes, HandlerBytes, M, I, Line, Bytes, Marks, Zeroed
<1>2. FreshClean'
  BY SetLastIs, Bounds, LocTypes, ZenonT(60) DEF Shape, Stored, FreshClean, Clean, LocIs, Turn, TailPcs, NewPcs, Ent, Quiet,
     SameLen, SameData, Lines, M, I, Line, Bytes, Zeroed, Marks
<1>3. CASE t = "main"
  <2>1. /\ Turn("main", M.pc) /\ I' = I /\ I.pc = "idle"
    BY <1>3, SetLastIs DEF Turn, LocIs, Line, M, I, Shape
  <2>2. HandlerBytes'
    BY <2>1 DEF HandlerBytes
  <2>3. MainBytes'
    BY <1>3, SetLastIs, Places, EntryTypes DEF Stored, Filled, MainBytes, FreshClean, Clean, Turn, LocIs, Quiet,
       TailPcs, NewPcs, Ent, SameLen, SameData, SameCount, Line, M, Bytes, Marks, Shape
  <2> QED BY <1>1, <1>2, <2>2, <2>3 DEF Stored
<1>4. CASE t = "isr"
  <2>1. M' = M
    BY <1>4, SetLastIs DEF LocIs, Line, M, Shape
  <2>2. HandlerBytes'
    BY <1>4, SetLastIs, Places, EntryTypes DEF Stored, Filled, HandlerBytes, Turn, LocIs, Quiet,
       TailPcs, NewPcs, Ent, SameLen, SameData, SameCount, Line, I, Bytes, Shape, Lines, Null
  <2>3. MainBytes'
    BY <1>4, <2>1, SetLastIs, Places, EntryTypes DEF Stored, Filled, MainBytes, HandlerBytes, Turn, LocIs, Quiet,
       TailPcs, NewPcs, Ent, SameLen, SameData, SameCount, Line, I, Bytes, Shape, Lines, Marks
  <2> QED BY <1>1, <1>2, <2>2, <2>3 DEF Stored
<1> QED BY <1>3, <1>4 DEF Line

LEMMA ResetCountStored ==
  ASSUME Shape, Shape', Stored, NEW t \in Line, ResetCount(t) PROVE Stored'
<1> USE ConsoleLogAssumption
<1>1. Filled'
  BY ResetIs, Bounds, LocTypes, EntryTypes, SMTT(40) DEF Shape, Stored, Filled, Turn, TailPcs, NewPcs, Ent, Quiet,
     SameLen, SameCount, SameData, Lines, FreshClean, Clean
<1>2. FreshClean'
  BY ResetIs, Bounds, LocTypes, SMTT(40) DEF Shape, Stored, FreshClean, Clean, LocIs, Turn, TailPcs, NewPcs, Ent, Quiet,
     SameLen, SameData, Lines, M, I, Line, Bytes, Zeroed, Marks
<1>3. CASE t = "main"
  <2>1. /\ Turn("main", M.pc) /\ I' = I /\ I.pc = "idle"
    BY <1>3, ResetIs DEF Turn, LocIs, Line, M, I
  <2>2. HandlerBytes'
    BY <2>1 DEF HandlerBytes
  <2>3. MainBytes'
    BY <1>3, ResetIs, Places, EntryTypes, SMTT(40) DEF Stored, Filled, MainBytes, FreshClean, Clean, Turn, LocIs, Quiet,
       TailPcs, NewPcs, Ent, SameLen, SameData, SameCount, Line, M, Bytes, Marks, Shape
  <2> QED BY <1>1, <1>2, <2>2, <2>3 DEF Stored
<1>4. CASE t = "isr"
  <2>1. M' = M
    BY <1>4, ResetIs DEF LocIs, Line, M
  <2>2. HandlerBytes'
    BY <1>4, ResetIs, Places, EntryTypes DEF Stored, Filled, HandlerBytes, Turn, LocIs, Quiet,
       TailPcs, NewPcs, Ent, SameLen, SameData, SameCount, Line, I, Bytes, Shape, Lines, Null
  <2>3. MainBytes'
    BY <1>4, <2>1, ResetIs, Places, EntryTypes DEF Stored, Filled, MainBytes, HandlerBytes, Turn, LocIs, Quiet,
       TailPcs, NewPcs, Ent, SameLen, SameData, SameCount, Line, I, Bytes, Shape, Lines, Marks
  <2> QED BY <1>1, <1>2, <2>2, <2>3 DEF Stored
<1> QED BY <1>3, <1>4 DEF Line

LEMMA ClearDataStored ==
  ASSUME Shape, Shape', Stored, NEW t \in Line, ClearData(t) PROVE Stored'
<1> USE ConsoleLogAssumption
<1>0. /\ loc[t].pc = "clear" /\ loc'[t].pc \notin NewPcs /\ "zero" \notin Chars
      /\ SameLen /\ SameCount /\ Ent' = Ent
      /\ \A j \in Bytes : entry'[loc[t].new].data[j] = "zero"
      /\ \A e \in Ent : e # loc[t].new => entry'[e].data = entry[e].data
      /\ \A u \in Line : u # t => loc'[u] = loc[u]
  BY ClearIs DEF Turn, LocIs, NewPcs, SameLen, Ent
<1>1. Filled'
  <2>1. ASSUME NEW e \in Ent
        PROVE  /\ entry'[e].charcount <= MIN_CAPACITY
               /\ \A j \in Bytes : j >= entry'[e].charcount => entry'[e].data[j] \notin Chars
    <3>1. entry'[e].charcount = entry[e].charcount
      BY <1>0 DEF SameCount
    <3>2. CASE e = loc[t].new
      BY <1>0, <3>1, <3>2 DEF Stored, Filled
    <3>3. CASE e # loc[t].new
      BY <1>0, <3>1, <3>3 DEF Stored, Filled
    <3> QED BY <3>2, <3>3
  <2> QED BY <1>0, <2>1 DEF Filled
<1>2. FreshClean'
  <2>1. ASSUME NEW u \in Line, loc'[u].pc \in NewPcs
        PROVE  \A j \in Bytes : entry'[loc'[u].new].data[j] \notin Chars
    <3>1. u # t /\ loc'[u] = loc[u]
      BY <1>0, <2>1
    <3>2. loc[u].new \in Ent /\ Clean(loc[u].new)
      BY <2>1, <3>1, Bounds DEF Stored, FreshClean
    <3>3. CASE loc[u].new = loc[t].new
      BY <1>0, <3>1, <3>3
    <3>4. CASE loc[u].new # loc[t].new
      BY <1>0, <3>1, <3>2, <3>4 DEF Clean
    <3> QED BY <3>3, <3>4
  <2> QED BY <2>1 DEF FreshClean, Clean
<1>3. CASE t = "main"
  <2>1. /\ Turn("main", M.pc) /\ I' = I /\ I.pc = "idle"
    BY <1>3, ClearIs DEF Turn, LocIs, Line, M, I
  <2>2. HandlerBytes'
    BY <2>1 DEF HandlerBytes
  <2>3. MainBytes'
    BY <1>3, ClearIs, Places, EntryTypes, SMTT(40) DEF Stored, Filled, MainBytes, FreshClean, Clean, Turn, LocIs, Quiet,
       TailPcs, NewPcs, Ent, SameLen, SameData, SameCount, Line, M, Bytes, Marks, Shape
  <2> QED BY <1>1, <1>2, <2>2, <2>3 DEF Stored
<1>4. CASE t = "isr"
  <2>1. M' = M
    BY <1>4, ClearIs DEF LocIs, Line, M
  <2>2. HandlerBytes'
    BY <1>4, ClearIs, Places, EntryTypes, SMTT(40) DEF Stored, Filled, HandlerBytes, Turn, LocIs, Quiet,
       TailPcs, NewPcs, Ent, SameLen, SameData, SameCount, Line, I, Bytes, Shape, Lines, Null
  <2>3. MainBytes'
    BY <1>4, <2>1, ClearIs, Places, EntryTypes DEF Stored, Filled, MainBytes, HandlerBytes, Turn, LocIs, Quiet,
       TailPcs, NewPcs, Ent, SameLen, SameData, SameCount, Line, I, Bytes, Shape, Lines, Marks
  <2> QED BY <1>1, <1>2, <2>2, <2>3 DEF Stored
<1> QED BY <1>3, <1>4 DEF Line


LEMMA StoredStep == Shape /\ Shape' /\ Stored /\ Alone => Stored'
<1> SUFFICES ASSUME Shape, Shape', Stored, Alone PROVE Stored'
  OBVIOUS
<1>1. CASE UNCHANGED vars
  BY <1>1 DEF vars, Stored, Filled, FreshClean, Clean, MainBytes, HandlerBytes, M, I, Ent
<1>2. CASE (\E c \in Chars : PrintChar(c)) \/ KeyPress \/ PrintKey
  <2>1. UNCHANGED <<entry, first, last>>
    BY <1>2, StartShape
  <2>2. \A t \in Line : loc'[t] # loc[t] => loc'[t].pc = "tail"
    <3>1. CASE \E c \in Chars : PrintChar(c)
      BY <3>1, CallIs DEF PrintChar, LocIs, Marks, Line, Shape
    <3>2. CASE KeyPress
      BY <3>2 DEF KeyPress
    <3>3. CASE PrintKey
      BY <3>3, CallIs DEF PrintKey, LocIs, Marks, Line, Shape
    <3> QED BY <1>2, <3>1, <3>2, <3>3
  <2>3. FreshClean'
    BY <2>1, <2>2 DEF Stored, FreshClean, Clean, NewPcs
  <2>4. MainBytes' /\ HandlerBytes'
    BY <2>1, <2>2 DEF Stored, MainBytes, HandlerBytes, M, I, Line
  <2> QED BY <2>1, <2>3, <2>4 DEF Stored, Filled, Ent
<1>3. CASE ~ UNCHANGED vars
  BY <1>2, <1>3, NextIs, ReadTailStored, TestCapacityStored, FetchCountStored, StoreCountStored,
     StoreCharStored, AllocateStored, RefuseStored, LinkBackStored, LinkNextStored, SetLastStored,
     ResetCountStored, ClearDataStored, Zenon
<1> QED BY <1>1, <1>3
-----------------------------------------------------------------------------
(* The entries as a tree with the first one at its root: r gives the       *)
(* distance of an entry from it, and entries that wait to be linked back   *)
(* are not in it yet.  last is a leaf, but for the entries just linked.    *)

Tree == {e \in Ent : \A t \in Line : loc[t].pc = "link" => e # loc[t].new}

Waiting == (IF M.pc = "link" THEN 1 ELSE 0) + (IF I.pc = "link" THEN 1 ELSE 0)

Rooted(r) ==
  \A e \in Tree :
    /\ entry[e].prev # Null => entry[e].prev \in Tree
    /\ entry[e].prev = Null => e = first
    /\ r[e] = r[entry[e].prev] + 1 /\ r[e] + Waiting <= Len(entry)
    /\ first \in Tree /\ entry[first].prev = Null
    /\ last = Null => M.pc = "last" /\ e = M.new

Ahead ==
  \A t \in Line : loc[t].pc \in {"link", "next", "last"} =>
    last # loc[t].new /\ \A e \in Tree : entry[e].prev # loc[t].new

Leaf ==
  last # Null => \A e \in Tree : entry[e].prev = last =>
    \E t \in Line : loc[t].pc \in {"next", "last"} /\ e = loc[t].new

Chain(r) ==
  /\ r \in [Nat -> Nat] /\ r[Null] = 0
  /\ \A e \in Ent : entry[e].prev <= Len(entry)
  /\ last # Null => last \in Tree
  /\ Rooted(r) /\ Ahead /\ Leaf

LEMMA ChainInit ==
  ASSUME Init PROVE Chain([e \in Nat |-> 0])
  BY DEF Init, Chain, Rooted, Ahead, Leaf, Tree, Ent, Idle, Null

LEMMA TreeEnt == Tree \subseteq Ent
  BY DEF Tree

(* A step that links nothing.                                              *)
SamePhase ==
  \A t \in Line : /\ loc'[t].pc = "link" <=> loc[t].pc = "link"
                  /\ loc'[t].pc \in {"next", "last"} <=> loc[t].pc \in {"next", "last"}
                  /\ loc[t].pc = "last" => loc'[t].pc = "last"
                  /\ loc[t].pc \in {"link", "next", "last"} => loc'[t].new = loc[t].new

LEMMA SameTree ==
  ASSUME SamePhase, Len(entry') = Len(entry)
  PROVE  Tree' = Tree /\ Waiting' = Waiting
<1>1. Tree' = Tree
  BY DEF SamePhase, Tree, Ent
<1>2. Waiting' = Waiting
  BY DEF SamePhase, Waiting, M, I, Line
<1> QED BY <1>1, <1>2

LEMMA ChainSame ==
  ASSUME Shape, NEW r, Chain(r), SamePhase, Len(entry') = Len(entry), SamePrev,
         first' = first, last' = last
  PROVE  Chain(r)'
<1>1. Tree' = Tree /\ Waiting' = Waiting /\ Ent' = Ent
  BY SameTree DEF Ent
<1>2. (\A e \in Ent : entry'[e].prev = entry[e].prev) /\ Tree \subseteq Ent
  BY TreeEnt DEF SamePrev
<1>3. M.pc = "last" => M'.pc = "last" /\ M'.new = M.new
  BY DEF SamePhase, M, Line
<1>4. Rooted(r)'
  BY <1>1, <1>2, <1>3 DEF Chain, Rooted
<1>5. Ahead'
  BY <1>1, <1>2 DEF Chain, Ahead, SamePhase
<1>6. Leaf'
  <2>1. ASSUME last # Null, NEW e \in Tree, entry[e].prev = last
        PROVE  \E t \in Line : loc'[t].pc \in {"next", "last"} /\ e = loc'[t].new
    <3>1. PICK t \in Line : loc[t].pc \in {"next", "last"} /\ e = loc[t].new
      BY <2>1 DEF Chain, Leaf
    <3> QED BY <3>1 DEF SamePhase
  <2> QED BY <1>1, <1>2, <2>1 DEF Leaf
<1> QED BY <1>1, <1>2, <1>4, <1>5, <1>6 DEF Chain

(* A new entry is outside the tree.                                        *)
LEMMA AllocateChain ==
  ASSUME Shape, NEW r, Chain(r), NEW t \in Line, Allocate(t)
  PROVE  Chain(r)'
<1> DEFINE n == Len(entry) + 1
<1>1. /\ Len(entry) \in Nat /\ Ent' = Ent \cup {n} /\ n \notin Ent /\ Len(entry') = n
      /\ entry'[n].prev = Null /\ \A e \in Ent : entry'[e] = entry[e]
      /\ UNCHANGED <<first, last>> /\ n # Null
  BY AllocateIs, Places DEF Ent, Zeroed, Null
<1>2. /\ loc[t].pc = "alloc" /\ loc'[t].pc = "link" /\ loc'[t].new = n
      /\ \A u \in Line : u # t => loc'[u] = loc[u]
  BY AllocateIs DEF Turn, LocIs
<1>3. n = Len(entry) + 1
  OBVIOUS
<1> HIDE DEF n
<1>4. Tree' = Tree /\ Tree \subseteq Ent
  BY <1>1, <1>2 DEF Tree
<1>5. Waiting' = Waiting + 1 /\ Waiting \in Nat
  <2>1. CASE t = "main"
    BY <1>2, <2>1 DEF Waiting, M, I, Line
  <2>2. CASE t = "isr"
    BY <1>2, <2>2 DEF Waiting, M, I, Line
  <2> QED BY <2>1, <2>2 DEF Line
<1>6. \A e \in Tree : r[e] \in Nat /\ r[e] + Waiting' <= Len(entry')
  BY <1>1, <1>3, <1>4, <1>5, SMTT(40) DEF Chain, Rooted, Ent
<1>7. M.pc = "last" => M' = M
  BY <1>2 DEF M, Line
<1>8. Rooted(r)'
  BY <1>1, <1>4, <1>6, <1>7, ZenonT(60) DEF Chain, Rooted
<1>9. Ahead'
  <2>1. \A e \in Tree : entry[e].prev # n
    BY <1>1, <1>4 DEF Chain, Rooted
  <2>2. last # n
    BY <1>1, <1>4 DEF Chain
  <2>3. ASSUME NEW u \in Line, loc'[u].pc \in {"link", "next", "last"}
        PROVE  last # loc'[u].new /\ \A e \in Tree : entry[e].prev # loc'[u].new
    BY <1>2, <2>1, <2>2, <2>3 DEF Chain, Ahead
  <2> QED BY <1>1, <1>4, <2>3 DEF Ahead
<1>10. Leaf'
  <2>1. ASSUME last # Null, NEW e \in Tree, entry[e].prev = last
        PROVE  \E u \in Line : loc'[u].pc \in {"next", "last"} /\ e = loc'[u].new
    <3>1. PICK u \in Line : loc[u].pc \in {"next", "last"} /\ e = loc[u].new
      BY <2>1 DEF Chain, Leaf
    <3>2. loc'[u] = loc[u]
      BY <1>2, <3>1
    <3> QED BY <3>1, <3>2
  <2> QED BY <1>1, <1>4, <2>1 DEF Leaf
<1>11. \A e \in Ent' : entry'[e].prev <= Len(entry')
  <2>1. ASSUME NEW e \in Ent PROVE entry'[e].prev <= Len(entry')
    <3>1. entry[e].prev <= Len(entry) /\ entry[e].prev \in Nat
      BY EntryTypes DEF Chain, Shape
    <3> QED BY <1>1, <1>3, <3>1
  <2>2. 0 <= Len(entry')
    BY <1>1, <1>3
  <2> QED BY <1>1, <2>1, <2>2 DEF Null
<1> QED BY <1>1, <1>4, <1>8, <1>9, <1>10, <1>11 DEF Chain

(* The entry linked back hangs from the last one.                          *)
LEMMA LinkBackChain ==
  ASSUME Shape, NEW r, Chain(r), NEW t \in Line, LinkBack(t)
  PROVE  \E q : Chain(q)'
<1> DEFINE n == loc[t].new
<1>1. /\ Len(entry') = Len(entry) /\ Len(entry) \in Nat /\ Ent' = Ent /\ n \in Ent /\ n # Null
      /\ entry'[n].prev = last /\ \A e \in Ent : e # n => entry'[e].prev = entry[e].prev
      /\ last' = last /\ first' = IF last = Null THEN n ELSE first
  BY LinkBackIs, Bounds, Places DEF Ent, SameLen, Turn, NewPcs, Null
<1>2. /\ loc[t].pc = "link" /\ loc[t].new = n /\ loc'[t].new = n /\ loc'[t].pc # "link"
      /\ last = Null => loc'[t].pc = "last"
      /\ last # Null => loc'[t].pc = "next"
      /\ \A u \in Line : u # t => loc'[u] = loc[u]
  BY LinkBackIs DEF Turn, LocIs
<1>3. /\ last = Null => t = "main"
      /\ t = "main" => I.pc = "idle" /\ I' = I
      /\ t = "isr" => I.new # M.new /\ M' = M
  BY <1>2, LinkBackIs DEF Shape, Lines, Turn, Line, M, I, NewPcs
<1>4. \A u \in Line : u # t /\ loc[u].pc \in {"link", "next", "last"} => loc[u].new # n
  BY <1>2, <1>3 DEF Line, M, I
<1>5. n \notin Tree /\ last # n /\ \A e \in Tree : entry[e].prev # n
  BY <1>1, <1>2 DEF Tree, Chain, Ahead
<1> HIDE DEF n
<1>6. Tree' = Tree \cup {n} /\ Tree \subseteq Ent
  BY <1>1, <1>2, <1>4 DEF Tree
<1>7. Waiting' = Waiting - 1 /\ Waiting \in Nat /\ Waiting' \in Nat
  <2>1. CASE t = "main"
    BY <1>2, <2>1 DEF Waiting, M, I, Line
  <2>2. CASE t = "isr"
    BY <1>2, <2>2 DEF Waiting, M, I, Line
  <2> QED BY <2>1, <2>2 DEF Line
<1>8. /\ r \in [Nat -> Nat] /\ r[Null] = 0 /\ last \in Nat /\ n \in Nat
      /\ \A e \in Ent : e \in Nat /\ entry[e].prev \in Nat
  <2>1. \A e \in Ent : e \in Nat /\ entry[e].prev \in Nat
    BY EntryTypes DEF Shape, Ent
  <2>2. last \in Nat
    BY <1>1 DEF Shape, Types
  <2> QED BY <1>1, <2>1, <2>2 DEF Chain
<1>9. PICK q : /\ q \in [Nat -> Nat] /\ q[n] = r[last] + 1 /\ q[Null] = 0
               /\ \A x \in Nat : x # n => q[x] = r[x]
  <2> DEFINE f == [r EXCEPT ![n] = r[last] + 1]
  <2>1. r[last] + 1 \in Nat
    BY <1>8
  <2>2. f \in [Nat -> Nat] /\ f[n] = r[last] + 1 /\ \A x \in Nat : x # n => f[x] = r[x]
    BY <1>8, <2>1
  <2> HIDE DEF f
  <2> QED BY <1>1, <1>8, <2>2 DEF Null
<1>10. last # Null => last \in Tree /\ r[last] + Waiting <= Len(entry)
  BY DEF Chain, Rooted
<1>11. last = Null => Tree = {}
  <2>1. ASSUME last = Null, NEW e \in Tree PROVE FALSE
    BY <1>2, <1>3, <2>1 DEF Chain, Rooted, M
  <2> QED BY <2>1
<1>12. Rooted(q)'
  <2>1. ASSUME NEW e \in Tree
        PROVE  /\ entry'[e].prev # Null => entry'[e].prev \in Tree'
               /\ entry'[e].prev = Null => e = first'
               /\ q[e] = q[entry'[e].prev] + 1 /\ q[e] + Waiting' <= Len(entry)
               /\ first' \in Tree' /\ entry'[first'].prev = Null
               /\ last' # Null
    <3>1. e # n /\ e \in Ent /\ entry'[e].prev = entry[e].prev /\ last # Null /\ first' = first
      BY <1>1, <1>5, <1>6, <1>11, <2>1
    <3>2. /\ entry[e].prev # Null => entry[e].prev \in Tree
          /\ entry[e].prev = Null => e = first
          /\ r[e] = r[entry[e].prev] + 1 /\ r[e] + Waiting <= Len(entry)
          /\ first \in Tree /\ entry[first].prev = Null
      BY <2>1 DEF Chain, Rooted
    <3>3. q[e] = r[e] /\ q[entry[e].prev] = r[entry[e].prev] /\ r[e] \in Nat
      BY <1>5, <1>8, <1>9, <2>1, <3>1
    <3>4. entry'[first].prev = Null
      BY <1>1, <1>5, <1>6, <3>2
    <3> QED BY <1>1, <1>6, <1>7, <3>1, <3>2, <3>3, <3>4
  <2>2. /\ entry'[n].prev # Null => entry'[n].prev \in Tree'
        /\ entry'[n].prev = Null => n = first'
        /\ q[n] = q[entry'[n].prev] + 1 /\ q[n] + Waiting' <= Len(entry)
        /\ first' \in Tree' /\ entry'[first'].prev = Null
        /\ last' = Null => M'.pc = "last" /\ n = M'.new
    <3>1. CASE last = Null
      <4>1. Waiting = 1
        BY <1>2, <1>3, <3>1 DEF Waiting, M
      <4>2. Waiting' = 0
        BY <1>7, <4>1
      <4>3. q[n] = 1 /\ 1 <= Len(entry)
        BY <1>1, <1>8, <1>9, <3>1 DEF Ent
      <4>4. M'.pc = "last" /\ n = M'.new
        BY <1>2, <1>3, <3>1 DEF M
      <4> QED BY <1>1, <1>6, <1>8, <1>9, <3>1, <4>2, <4>3, <4>4
    <3>2. CASE last # Null
      <4>1. last \in Tree /\ q[last] = r[last] /\ r[last] \in Nat
        BY <1>5, <1>8, <1>9, <1>10, <3>2
      <4>2. first \in Tree /\ entry[first].prev = Null /\ first # n
        BY <1>5, <4>1 DEF Chain, Rooted
      <4>3. entry'[first].prev = Null
        BY <1>1, <1>6, <4>2
      <4>4. q[n] + Waiting' <= Len(entry)
        <5>1. r[last] + Waiting <= Len(entry)
          BY <1>10, <3>2
        <5>2. q[n] = r[last] + 1 /\ r[last] \in Nat /\ Len(entry) \in Nat
          BY <1>1, <1>9, <4>1
        <5>3. \A a, w, l \in Nat : a + w <= l => (a + 1) + (w - 1) <= l
          OBVIOUS
        <5>4. (r[last] + 1) + (Waiting - 1) <= Len(entry)
          BY <1>7, <5>1, <5>2, <5>3
        <5>5. q[n] + Waiting' = (r[last] + 1) + (Waiting - 1)
          BY <1>7, <5>2
        <5> QED BY <5>4, <5>5
      <4> QED BY <1>1, <1>6, <1>9, <3>2, <4>1, <4>2, <4>3, <4>4
    <3> QED BY <3>1, <3>2
  <2> QED BY <1>1, <1>6, <2>1, <2>2 DEF Rooted
<1>13. Ahead'
  <2>1. \A e \in Tree : entry'[e].prev = entry[e].prev
    BY <1>1, <1>5, <1>6
  <2>2. ASSUME NEW u \in Line, loc'[u].pc \in {"link", "next", "last"}
        PROVE  /\ last # loc'[u].new /\ \A e \in Tree : entry'[e].prev # loc'[u].new
               /\ entry'[n].prev # loc'[u].new
    BY <1>1, <1>2, <1>5, <2>1, <2>2 DEF Chain, Ahead
  <2> QED BY <1>1, <1>6, <2>2 DEF Ahead
<1>14. Leaf'
  <2>1. ASSUME last # Null, NEW e \in Tree, entry'[e].prev = last
        PROVE  \E u \in Line : loc'[u].pc \in {"next", "last"} /\ e = loc'[u].new
    <3>1. entry[e].prev = last
      BY <1>1, <1>5, <1>6, <2>1
    <3>2. PICK u \in Line : loc[u].pc \in {"next", "last"} /\ e = loc[u].new
      BY <2>1, <3>1 DEF Chain, Leaf
    <3>3. loc'[u] = loc[u]
      BY <1>2, <3>2
    <3> QED BY <3>2, <3>3
  <2> QED BY <1>1, <1>2, <1>6, <2>1 DEF Leaf
<1>15. \A e \in Ent : entry'[e].prev <= Len(entry)
  <2>1. last <= Len(entry) /\ \A e \in Ent : entry[e].prev <= Len(entry)
    BY <1>1 DEF Chain, Shape, Types
  <2> QED BY <1>1, <2>1
<1>16. Chain(q)'
  BY <1>1, <1>6, <1>9, <1>10, <1>12, <1>13, <1>14, <1>15 DEF Chain
<1> QED BY <1>16

(* The last entry becomes the one that hangs in the tree.                  *)
LEMMA SetLastChain ==
  ASSUME Shape, NEW r, Chain(r), NEW t \in Line, SetLast(t)
  PROVE  Chain(r)'
<1> DEFINE n == loc[t].new
<1>1. /\ UNCHANGED <<entry, first>> /\ last' = n /\ loc[t].pc = "last" /\ loc'[t].pc = "reset"
      /\ n \in Ent /\ n # Null /\ \A u \in Line : u # t => loc'[u] = loc[u]
  BY SetLastIs, Bounds DEF Turn, LocIs, Shape, NewPcs, Ent, Null
<1>2. /\ t = "main" => I.pc = "idle" /\ I' = I
      /\ t = "isr" => I.new # M.new /\ M' = M /\ last # Null
  BY <1>1, SetLastIs DEF Shape, Lines, Turn, Line, M, I, NewPcs
<1>3. \A u \in Line : u # t /\ loc[u].pc \in {"link", "next", "last"} => loc[u].new # n
  BY <1>1, <1>2 DEF Line, M, I
<1>4. Tree' = Tree /\ Ent' = Ent /\ n \in Tree /\ Waiting' = Waiting
  <2>1. Tree' = Tree /\ Ent' = Ent /\ n \in Tree
    BY <1>1, <1>3 DEF Tree, Ent
  <2>2. Waiting' = Waiting
    BY <1>1 DEF Waiting, M, I, Line
  <2> QED BY <2>1, <2>2
<1>5. \A e \in Tree : entry[e].prev # n
  BY <1>1 DEF Chain, Ahead
<1> HIDE DEF n
<1>6. Rooted(r)'
  BY <1>1, <1>4 DEF Chain, Rooted
<1>7. Ahead'
  <2>1. ASSUME NEW u \in Line, loc'[u].pc \in {"link", "next", "last"}
        PROVE  n # loc'[u].new /\ \A e \in Tree : entry[e].prev # loc'[u].new
    BY <1>1, <1>3, <2>1 DEF Chain, Ahead
  <2> QED BY <1>1, <1>4, <2>1 DEF Ahead
<1>8. Leaf'
  BY <1>1, <1>4, <1>5 DEF Leaf
<1> QED BY <1>1, <1>4, <1>6, <1>7, <1>8 DEF Chain

LEMMA ChainStep ==
  ASSUME Shape, NEW r, Chain(r), Alone
  PROVE  \E q : Chain(q)'
<1>1. SUFFICES ASSUME ~ \E t \in Line : Allocate(t) \/ LinkBack(t) \/ SetLast(t)
               PROVE  Chain(r)'
  BY AllocateChain, LinkBackChain, SetLastChain, Zenon
<1>2. SUFFICES /\ SamePhase /\ Len(entry') = Len(entry) /\ SamePrev
               /\ first' = first /\ last' = last
  BY ChainSame
<1>3. CASE UNCHANGED vars
  BY <1>3 DEF vars, SamePhase, SamePrev
<1>4. CASE (\E c \in Chars : PrintChar(c)) \/ KeyPress \/ PrintKey
  <2>1. UNCHANGED <<entry, first, last>>
    BY <1>4, StartShape
  <2>2. SamePhase
    <3>1. CASE \E c \in Chars : PrintChar(c)
      BY <3>1, CallIs DEF PrintChar, LocIs, Turn, Marks, Line, Shape, SamePhase
    <3>2. CASE KeyPress
      BY <3>2 DEF KeyPress, SamePhase
    <3>3. CASE PrintKey
      BY <3>3, CallIs DEF PrintKey, LocIs, Turn, Marks, Line, Shape, SamePhase
    <3> QED BY <1>4, <3>1, <3>2, <3>3
  <2> QED BY <2>1, <2>2 DEF SamePrev
<1>5. ASSUME NEW t \in Line,
             \/ ReadTail(t) \/ TestCapacity(t) \/ FetchCount(t) \/ StoreCount(t) \/ StoreChar(t)
             \/ Refuse(t) \/ LinkNext(t) \/ ResetCount(t) \/ ClearData(t)
      PROVE  /\ SamePhase /\ Len(entry') = Len(entry) /\ SamePrev
             /\ first' = first /\ last' = last
  <2>1. CASE ReadTail(t)
    BY <2>1, ReadTailIs DEF Turn, LocIs, SamePhase, SamePrev, Quiet, Shape
  <2>2. CASE TestCapacity(t)
    BY <2>2, TestIs DEF Turn, LocIs, SamePhase, SamePrev, Quiet
  <2>3. CASE FetchCount(t)
    BY <2>3, FetchIs DEF Turn, LocIs, SamePhase, SamePrev, Quiet
  <2>4. CASE StoreCount(t)
    BY <2>4, CountIs DEF Turn, LocIs, SamePhase, SameLen
  <2>5. CASE StoreChar(t)
    BY <2>5, StoreIs DEF Turn, LocIs, SamePhase, SameLen
  <2>6. CASE Refuse(t)
    BY <2>6, RefuseIs DEF Turn, LocIs, SamePhase, SamePrev, Quiet, Shape
  <2>7. CASE LinkNext(t)
    BY <2>7, LinkNextIs DEF Turn, LocIs, SamePhase, SameLen
  <2>8. CASE ResetCount(t)
    BY <2>8, ResetIs DEF Turn, LocIs, SamePhase, SameLen
  <2>9. CASE ClearData(t)
    BY <2>9, ClearIs DEF Turn, LocIs, SamePhase, SameLen
  <2> QED BY <1>5, <2>1, <2>2, <2>3, <2>4, <2>5, <2>6, <2>7, <2>8, <2>9
<1> QED BY <1>1, <1>3, <1>4, <1>5, NextIs, Zenon

-----------------------------------------------------------------------------
(* The walk.                                                               *)

LEMMA Distance ==
  ASSUME Shape, NEW r, Chain(r), NEW e \in Tree
  PROVE  /\ r[e] \in 1 .. MaxEntries /\ e # Null /\ r[entry[e].prev] = r[e] - 1
         /\ r[e] = 1 => entry[e].prev = Null /\ e = first
         /\ r[e] # 1 => entry[e].prev \in Tree
<1>1. /\ e \in Ent /\ entry[e].prev \in Nat /\ Len(entry) \in Nat /\ Len(entry) <= MaxEntries
  BY TreeEnt, EntryTypes, Places DEF Shape, Types
<1>2. /\ r[e] = r[entry[e].prev] + 1 /\ r[e] + Waiting <= Len(entry)
      /\ entry[e].prev # Null => entry[e].prev \in Tree
      /\ entry[e].prev = Null => e = first
  BY DEF Chain, Rooted
<1>3. r[entry[e].prev] \in Nat /\ Waiting \in Nat /\ r[Null] = 0
  <2>1. r \in [Nat -> Nat] /\ r[Null] = 0
    BY DEF Chain
  <2>2. Waiting \in Nat
    BY DEF Waiting
  <2> QED BY <1>1, <2>1, <2>2
<1>4. entry[e].prev # Null => r[entry[e].prev] >= 1
  <2>1. ASSUME entry[e].prev \in Tree PROVE r[entry[e].prev] >= 1
    <3>1. r[entry[e].prev] = r[entry[entry[e].prev].prev] + 1
      BY <2>1 DEF Chain, Rooted
    <3>2. entry[entry[e].prev].prev \in Nat
      BY <2>1, TreeEnt, EntryTypes DEF Shape
    <3>3. r[entry[entry[e].prev].prev] \in Nat
      BY <3>2 DEF Chain
    <3> QED BY <3>1, <3>3
  <2> QED BY <1>2, <2>1
<1>5. r[e] \in 1 .. MaxEntries
  BY <1>1, <1>2, <1>3, ConsoleLogAssumption
<1>6. r[entry[e].prev] = r[e] - 1
  BY <1>2, <1>3
<1>7. r[e] = 1 => entry[e].prev = Null /\ e = first
  BY <1>2, <1>3, <1>4
<1>8. r[e] # 1 => entry[e].prev \in Tree
  BY <1>2, <1>3
<1>9. e # Null
  BY <1>1 DEF Ent, Null
<1> QED BY <1>5, <1>6, <1>7, <1>8, <1>9

LEMMA WalkTypes ==
  ASSUME Shape, NEW r, Chain(r)
  PROVE  /\ Walk[0] = last
         /\ \A n \in Nat : /\ Walk[n] \in 0 .. Len(entry)
                           /\ Walk[n] = Null => Walk[n + 1] = Null
                           /\ Walk[n] # Null => Walk[n + 1] = entry[Walk[n]].prev
<1>1. last \in 0 .. Len(entry) /\ Len(entry) \in Nat
  BY Places DEF Shape, Types
<1>2. ASSUME NEW e \in 1 .. Len(entry) PROVE entry[e].prev \in 0 .. Len(entry)
  <2>1. entry[e].prev \in Nat /\ entry[e].prev <= Len(entry)
    BY EntryTypes DEF Chain, Ent, Shape
  <2> QED BY <1>1, <2>1
<1> QED BY <1>1, <1>2, WalkIs

LEMMA WalkDown ==
  ASSUME Shape, NEW r, Chain(r), last # Null
  PROVE  /\ r[last] \in 1 .. MaxEntries
         /\ \A n \in Nat : n < r[last] => Walk[n] \in Tree /\ r[Walk[n]] = r[last] - n
<1>1. last \in Tree /\ r[last] \in 1 .. MaxEntries
  BY Distance DEF Chain
<1> DEFINE S == {n \in Nat : n < r[last] => Walk[n] \in Tree /\ r[Walk[n]] = r[last] - n}
<1>2. 0 \in S
  BY <1>1, WalkTypes
<1>3. ASSUME NEW n \in Nat, n \in S PROVE n + 1 \in S
  <2> SUFFICES ASSUME n + 1 < r[last]
               PROVE  Walk[n + 1] \in Tree /\ r[Walk[n + 1]] = r[last] - (n + 1)
    OBVIOUS
  <2>1. Walk[n] \in Tree /\ r[Walk[n]] = r[last] - n
    BY <1>1, <1>3
  <2>2. /\ r[Walk[n]] # 1 /\ Walk[n] # Null /\ r[entry[Walk[n]].prev] = r[Walk[n]] - 1
        /\ entry[Walk[n]].prev \in Tree
    <3>1. r[Walk[n]] # 1
      BY <1>1, <2>1
    <3> QED BY <2>1, <3>1, Distance
  <2>3. Walk[n + 1] = entry[Walk[n]].prev
    BY <2>2, WalkTypes
  <2> QED BY <1>1, <2>1, <2>2, <2>3
<1>4. Nat \subseteq S
  <2> HIDE DEF S
  <2> QED BY <1>2, <1>3, NatInd
<1> QED BY <1>1, <1>4

LEMMA WalkEndsFollows ==
  ASSUME Shape, Stored, NEW r, Chain(r) PROVE WalkEnds
<1> SUFFICES ASSUME last # Null, ~ reentered PROVE WalkEnds
  BY DEF WalkEnds
<1>1. r[last] \in 1 .. MaxEntries /\ \A i \in Nat : i < r[last] => Walk[i] \in Tree /\ r[Walk[i]] = r[last] - i
  BY WalkDown
<1>2. PICK n \in 0 .. MaxEntries - 1 : n \in Nat /\ n < r[last] /\ r[last] - n = 1
  <2>1. /\ r[last] - 1 \in 0 .. MaxEntries - 1 /\ r[last] - 1 \in Nat /\ r[last] - 1 < r[last]
        /\ r[last] - (r[last] - 1) = 1
    BY <1>1, ConsoleLogAssumption
  <2> QED BY <2>1
<1>3. Walk[n] \in Tree /\ r[Walk[n]] = 1
  BY <1>1, <1>2
<1>4. Walk[n] = first /\ entry[first].prev = Null
  BY <1>3, Distance
<1> QED BY <1>2, <1>4 DEF WalkEnds, Stored, Filled, Ent

LEMMA BoundsFollow ==
  ASSUME Shape, Stored PROVE StoreInBounds
<1>1. M.pc = "store" => M.index < MIN_CAPACITY
  BY Places, ConsoleLogAssumption DEF Stored, MainBytes
<1>2. I.pc = "store" => I.index < MIN_CAPACITY
  BY Places, ConsoleLogAssumption DEF Stored, HandlerBytes
<1> QED BY <1>1, <1>2 DEF StoreInBounds, Line, M, I

IsTree == \E r : Chain(r)
Sound  == Shape /\ Stored /\ IsTree

(* The invariant: all is sound while no kmalloc has run inside another.    *)
SoundAlone == Single /\ (~ reentered => Sound)

LEMMA SoundInit == Init => SoundAlone
  BY ShapeInit, StoredInit, ChainInit DEF Init, SoundAlone, Single, Sound, IsTree

LEMMA SoundStep == SoundAlone /\ [Next]_vars => SoundAlone'
<1> SUFFICES ASSUME SoundAlone, [Next]_vars PROVE SoundAlone'
  OBVIOUS
<1>1. CASE reentered'
  BY <1>1 DEF SoundAlone, Single
<1>2. CASE ~ reentered'
  <2>1. ~ reentered /\ Alone /\ Single'
    BY <1>2, SingleStep DEF SoundAlone
  <2>2. Sound
    BY <2>1 DEF SoundAlone
  <2>3. Sound'
    BY <2>1, <2>2, ShapeStep, StoredStep, ChainStep DEF Sound, IsTree
  <2> QED BY <2>1, <2>3 DEF SoundAlone
<1> QED BY <1>1, <1>2

(* putchar never stores behind the data of an entry, although a key press  *)
(* can make its test of the capacity out of date: as long as no kmalloc    *)
(* has run inside another.                                                 *)
THEOREM NoOverrun == Spec => [](~ reentered => StoreInBounds)
<1>1. SoundAlone => (~ reentered => StoreInBounds)
  BY BoundsFollow DEF SoundAlone, Sound
<1> QED BY <1>1, SoundInit, SoundStep, PTL DEF Spec

(* redraw's walk ends at the first entry, at every step of every add_entry,*)
(* as long as no kmalloc has run inside another.                           *)
THEOREM WalkReachesFirst == Spec => []WalkEnds
<1>1. SoundAlone => WalkEnds
  BY WalkEndsFollows DEF SoundAlone, Sound, IsTree, WalkEnds
<1> QED BY <1>1, SoundInit, SoundStep, PTL DEF Spec
-----------------------------------------------------------------------------
(* The text: T gives the main line's characters from the first entry up to *)
(* an entry; D is the branch of the entry the main line is about to store  *)
(* into, with the entries the handler hung behind it meanwhile.            *)

Whole(e) == Kept(entry[e].data)[MIN_CAPACITY]

TextOf(T) ==
  /\ T \in [Nat -> Seq(Chars)] /\ T[Null] = <<>>
  /\ \A e \in Tree : T[e] = T[entry[e].prev] \o Whole(e)
  /\ \A t \in Line : loc[t].pc \in {"next", "last"} => T[last] = T[entry[loc[t].new].prev]

OwnPcs == TailPcs \cup {"reset", "clear"}
Base   == IF M.pc \in {"reset", "clear"} THEN M.new ELSE M.tail

Branch(D) ==
  M.pc \in OwnPcs =>
    /\ Base \in D /\ last \in D /\ Null \notin D /\ entry[Base].prev \notin D
    /\ \A e \in Tree : e # Base => (e \in D <=> entry[e].prev \in D) /\ (e \in D => Clean(e))

(* The handler's character is no main line's, and it hangs behind the last.*)
KeyLine ==
  /\ I.pc = "store" => entry[I.tail].data[I.index] \notin Chars
  /\ I.pc \in {"next", "last"} => entry[I.new].prev = last

LEMMA KeyLineInit == Init => KeyLine
  BY DEF Init, KeyLine, I, Idle, Line

LEMMA KeyLineStep ==
  Shape /\ Stored /\ KeyLine /\ Alone => KeyLine'
<1> SUFFICES ASSUME Shape, Stored, KeyLine, Alone PROVE KeyLine'
  OBVIOUS
<1>1. CASE UNCHANGED vars
  BY <1>1 DEF vars, KeyLine, I
<1>2. CASE (\E c \in Chars : PrintChar(c)) \/ KeyPress \/ PrintKey
  <2>1. UNCHANGED <<entry, first, last>>
    BY <1>2, StartShape
  <2>2. I' # I => I'.pc = "tail"
    <3>1. CASE \E c \in Chars : PrintChar(c)
      BY <3>1, CallIs DEF PrintChar, LocIs, Marks, Line, Shape, I
    <3>2. CASE KeyPress
      BY <3>2 DEF KeyPress, I
    <3>3. CASE PrintKey
      BY <3>3, CallIs DEF PrintKey, LocIs, Marks, Line, Shape, I
    <3> QED BY <1>2, <3>1, <3>2, <3>3
  <2> QED BY <2>1, <2>2 DEF KeyLine
<1>3. ASSUME NEW t \in Line,
             \/ ReadTail(t) \/ TestCapacity(t) \/ FetchCount(t) \/ Refuse(t)
      PROVE  KeyLine'
  <2>1. Quiet /\ (I' # I => I'.pc \notin {"store", "next", "last"})
    <3>1. CASE ReadTail(t)
      BY <3>1, ReadTailIs DEF Shape, LocIs, I, Line
    <3>2. CASE TestCapacity(t)
      BY <3>2, TestIs DEF LocIs, I, Line
    <3>3. CASE FetchCount(t)
      BY <3>3, FetchIs DEF LocIs, I, Line
    <3>4. CASE Refuse(t)
      BY <3>4, RefuseIs DEF Shape, LocIs, I, Line
    <3> QED BY <1>3, <3>1, <3>2, <3>3, <3>4
  <2> QED BY <2>1 DEF KeyLine, Quiet
<1>4. ASSUME NEW t \in Line, t = "main",
             \/ StoreCount(t) \/ StoreChar(t) \/ Allocate(t) \/ LinkBack(t) \/ LinkNext(t)
             \/ SetLast(t) \/ ResetCount(t) \/ ClearData(t)
      PROVE  KeyLine'
  <2>1. I' = I /\ I.pc = "idle"
    <3>1. CASE StoreCount(t)
      BY <1>4, <3>1, CountIs DEF Turn, LocIs, I, Line
    <3>2. CASE StoreChar(t)
      BY <1>4, <3>2, StoreIs DEF Turn, LocIs, I, Line
    <3>3. CASE Allocate(t)
      BY <1>4, <3>3, AllocateIs DEF Turn, LocIs, I, Line
    <3>4. CASE LinkBack(t)
      BY <1>4, <3>4, LinkBackIs DEF Turn, LocIs, I, Line
    <3>5. CASE LinkNext(t)
      BY <1>4, <3>5, LinkNextIs DEF Turn, LocIs, I, Line
    <3>6. CASE SetLast(t)
      BY <1>4, <3>6, SetLastIs DEF Turn, LocIs, I, Line, Shape
    <3>7. CASE ResetCount(t)
      BY <1>4, <3>7, ResetIs DEF Turn, LocIs, I, Line
    <3>8. CASE ClearData(t)
      BY <1>4, <3>8, ClearIs DEF Turn, LocIs, I, Line
    <3> QED BY <1>4, <3>1, <3>2, <3>3, <3>4, <3>5, <3>6, <3>7, <3>8
  <2> QED BY <2>1 DEF KeyLine
<1>5. ASSUME NEW t \in Line, t = "isr",
             \/ StoreCount(t) \/ StoreChar(t) \/ Allocate(t) \/ LinkBack(t) \/ LinkNext(t)
             \/ SetLast(t) \/ ResetCount(t) \/ ClearData(t)
      PROVE  KeyLine'
  <2>1. CASE StoreCount(t)
    <3>1. /\ I.tail \in Ent /\ I.pc = "count" /\ I'.pc = "store" /\ I'.tail = I.tail /\ I'.index = I.index
          /\ entry'[I.tail].data = entry[I.tail].data /\ I.index \in Nat
      BY <1>5, <2>1, CountIs, Places DEF Turn, LocIs, I, SameData, TailPcs
    <3>2. entry[I.tail].data[I.index] \notin Chars
      BY <3>1, ConsoleLogAssumption DEF Stored, HandlerBytes, Filled, Bytes
    <3> QED BY <3>1, <3>2 DEF KeyLine
  <2>2. CASE StoreChar(t) \/ Allocate(t) \/ SetLast(t) \/ ResetCount(t) \/ ClearData(t)
    <3>1. I'.pc \notin {"store", "next", "last"}
      <4>1. CASE StoreChar(t)
        BY <1>5, <4>1, StoreIs DEF LocIs, I
      <4>2. CASE Allocate(t)
        BY <1>5, <4>2, AllocateIs DEF LocIs, I
      <4>3. CASE SetLast(t)
        BY <1>5, <4>3, SetLastIs DEF LocIs, I, Shape
      <4>4. CASE ResetCount(t)
        BY <1>5, <4>4, ResetIs DEF LocIs, I
      <4>5. CASE ClearData(t)
        BY <1>5, <4>5, ClearIs DEF LocIs, I
      <4> QED BY <2>2, <4>1, <4>2, <4>3, <4>4, <4>5
    <3> QED BY <3>1 DEF KeyLine
  <2>3. CASE LinkBack(t)
    BY <1>5, <2>3, LinkBackIs DEF LocIs, I, KeyLine
  <2>4. CASE LinkNext(t)
    <3>1. I.new \in Ent /\ I.pc = "next" /\ I'.pc = "last" /\ I'.new = I.new /\ last' = last
      BY <1>5, <2>4, LinkNextIs, Places DEF Turn, LocIs, I, NewPcs
    <3>2. entry'[I.new].prev = entry[I.new].prev
      BY <1>5, <2>4, <3>1, LinkNextIs DEF SamePrev
    <3> QED BY <3>1, <3>2 DEF KeyLine
  <2> QED BY <1>5, <2>1, <2>2, <2>3, <2>4
<1>6. CASE ~ UNCHANGED vars
  <2>1. SUFFICES ASSUME NEW t \in Line,
                   \/ ReadTail(t) \/ TestCapacity(t) \/ FetchCount(t) \/ StoreCount(t)
                   \/ StoreChar(t) \/ Allocate(t) \/ Refuse(t) \/ LinkBack(t)
                   \/ LinkNext(t) \/ SetLast(t) \/ ResetCount(t) \/ ClearData(t)
                 PROVE KeyLine'
    BY <1>2, <1>6, NextIs, Zenon
  <2> QED BY <1>3, <1>4, <1>5, <2>1 DEF Line
<1> QED BY <1>1, <1>6

(* But for the characters of the main line no step changes the text of an  *)
(* entry.                                                                  *)
Agree ==
  \A e \in Ent : \A j \in Bytes :
    entry'[e].data[j] = entry[e].data[j] \/ (entry'[e].data[j] \notin Chars /\ entry[e].data[j] \notin Chars)

LEMMA AgreeWhole ==
  ASSUME Agree, NEW e \in Ent
  PROVE  /\ Kept(entry'[e].data)[MIN_CAPACITY] = Whole(e)
         /\ Clean(e) => Clean(e)'
<1>1. \A j \in Bytes : entry'[e].data[j] = entry[e].data[j]
         \/ (entry'[e].data[j] \notin Chars /\ entry[e].data[j] \notin Chars)
  BY DEF Agree
<1>2. MIN_CAPACITY \in Nat /\ \A j \in Nat : j < MIN_CAPACITY => j \in Bytes
  BY ConsoleLogAssumption DEF Bytes
<1>3. Kept(entry'[e].data)[MIN_CAPACITY] = Kept(entry[e].data)[MIN_CAPACITY]
  BY <1>1, <1>2, KeptSame
<1>4. Clean(e) => Clean(e)'
  BY <1>1 DEF Clean
<1> QED BY <1>3, <1>4 DEF Whole

LEMMA AgreeStep ==
  ASSUME Shape, Stored, KeyLine, Alone, ~ StoreChar("main")
  PROVE  Agree
<1>1. CASE entry' = entry
  BY <1>1 DEF Agree
<1>2. CASE SameData
  BY <1>2 DEF Agree, SameData
<1>3. CASE \E t \in Line : Allocate(t)
  BY <1>3, AllocateIs DEF Agree
<1>4. CASE StoreChar("isr")
  <2> DEFINE x == I.tail
  <2>1. /\ \A j \in Bytes : entry'[x].data[j] = IF j = I.index THEN "key" ELSE entry[x].data[j]
        /\ \A e \in Ent : e # x => entry'[e].data = entry[e].data
        /\ I.pc = "store"
    BY <1>4, StoreIs DEF Turn, I, Line, Shape, Lines
  <2>2. entry[x].data[I.index] \notin Chars /\ "key" \notin Chars
    BY <2>1, ConsoleLogAssumption DEF KeyLine
  <2> HIDE DEF x
  <2>3. ASSUME NEW e \in Ent, NEW j \in Bytes
        PROVE  entry'[e].data[j] = entry[e].data[j]
               \/ (entry'[e].data[j] \notin Chars /\ entry[e].data[j] \notin Chars)
    <3>1. CASE e # x
      BY <2>1, <3>1
    <3>2. CASE e = x
      BY <2>1, <2>2, <3>2
    <3> QED BY <3>1, <3>2
  <2> QED BY <2>3 DEF Agree
<1>5. ASSUME NEW t \in Line, ClearData(t) PROVE Agree
  <2>1. Clean(loc[t].new) /\ "zero" \notin Chars
    BY <1>5, ClearIs, ConsoleLogAssumption DEF Turn, NewPcs, Stored, FreshClean
  <2>2. /\ \A j \in Bytes : entry'[loc[t].new].data[j] = "zero"
        /\ \A e \in Ent : e # loc[t].new => entry'[e].data = entry[e].data
    BY <1>5, ClearIs
  <2> QED BY <2>1, <2>2 DEF Agree, Clean
<1>6. CASE UNCHANGED vars
  BY <1>1, <1>6 DEF vars
<1>7. CASE (\E c \in Chars : PrintChar(c)) \/ KeyPress \/ PrintKey
  BY <1>1, <1>7, StartShape
<1>8. ASSUME NEW t \in Line,
             \/ ReadTail(t) \/ TestCapacity(t) \/ FetchCount(t) \/ StoreCount(t)
             \/ Refuse(t) \/ LinkBack(t) \/ LinkNext(t) \/ SetLast(t) \/ ResetCount(t)
      PROVE  Agree
  <2>1. CASE ReadTail(t)
    BY <1>1, <2>1, ReadTailIs DEF Shape, Quiet
  <2>2. CASE TestCapacity(t)
    BY <1>1, <2>2, TestIs DEF Quiet
  <2>3. CASE FetchCount(t)
    BY <1>1, <2>3, FetchIs DEF Quiet
  <2>4. CASE StoreCount(t)
    BY <1>2, <2>4, CountIs
  <2>5. CASE Refuse(t)
    BY <1>1, <2>5, RefuseIs DEF Shape, Quiet
  <2>6. CASE LinkBack(t)
    BY <1>2, <2>6, LinkBackIs
  <2>7. CASE LinkNext(t)
    BY <1>2, <2>7, LinkNextIs
  <2>8. CASE SetLast(t)
    BY <1>1, <2>8, SetLastIs DEF Shape
  <2>9. CASE ResetCount(t)
    BY <1>2, <2>9, ResetIs
  <2> QED BY <1>8, <2>1, <2>2, <2>3, <2>4, <2>5, <2>6, <2>7, <2>8, <2>9
<1>9. ASSUME NEW t \in Line, StoreChar(t) PROVE Agree
  BY <1>4, <1>9 DEF Line
<1> QED BY <1>3, <1>5, <1>6, <1>7, <1>8, <1>9, NextIs, Zenon
-----------------------------------------------------------------------------
(* The text from step to step.                                             *)

LEMMA WholeClean ==
  ASSUME NEW e, Clean(e) PROVE Whole(e) = <<>>
<1>1. MIN_CAPACITY \in Nat /\ \A j \in Nat : 0 <= j /\ j < MIN_CAPACITY => entry[e].data[j] \notin Chars
  BY ConsoleLogAssumption DEF Clean, Bytes
<1>2. Kept(entry[e].data)[MIN_CAPACITY] = Kept(entry[e].data)[0]
  BY <1>1, KeptRest
<1> QED BY <1>2, KeptIs DEF Whole

LEMMA WholeSeq ==
  ASSUME NEW e PROVE Whole(e) \in Seq(Chars)
<1>1. MIN_CAPACITY \in Nat
  BY ConsoleLogAssumption
<1> QED BY <1>1, KeptIs DEF Whole

(* The entry the main line stores into is linked.                          *)
LEMMA BaseTree ==
  ASSUME Shape, M.pc \in OwnPcs PROVE Base \in Tree
<1>1. Base \in Ent /\ (I.pc = "link" => Base # I.new) /\ M.pc # "link"
  BY Places DEF OwnPcs, TailPcs, NewPcs, Base
<1> QED BY <1>1 DEF Tree, Line, M, I

LEMMA NewTree ==
  ASSUME Shape, NEW t \in Line, loc[t].pc \in NewPcs \ {"link"}
  PROVE  loc[t].new \in Tree
<1>1. loc[t].new \in Ent
  BY Bounds
<1>2. \A u \in Line : loc[u].pc = "link" => loc[t].new # loc[u].new
  BY Places DEF Line, M, I, NewPcs
<1> QED BY <1>1, <1>2 DEF Tree

SameBase == M'.pc \in OwnPcs => M.pc \in OwnPcs /\ Base' = Base

(* A step that links nothing and leaves the text alone.                    *)
LEMMA TextSame ==
  ASSUME Shape, NEW r, Chain(r), NEW T, TextOf(T), SamePhase,
         Len(entry') = Len(entry), SamePrev, last' = last, Agree
  PROVE  TextOf(T)' /\ T[last'] = T[last]
<1>1. Tree' = Tree /\ Tree \subseteq Ent
  BY SameTree, TreeEnt
<1>2. ASSUME NEW e \in Tree PROVE T[e] = T[entry'[e].prev] \o Kept(entry'[e].data)[MIN_CAPACITY]
  BY <1>1, AgreeWhole DEF TextOf, SamePrev
<1>3. ASSUME NEW t \in Line, loc'[t].pc \in {"next", "last"}
      PROVE  T[last] = T[entry'[loc'[t].new].prev]
  <2>1. loc[t].pc \in {"next", "last"} /\ loc'[t].new = loc[t].new
    BY <1>3 DEF SamePhase
  <2>2. loc[t].new \in Ent
    BY <2>1, Bounds DEF NewPcs
  <2> QED BY <2>1, <2>2 DEF TextOf, SamePrev
<1> QED BY <1>1, <1>2, <1>3 DEF TextOf, Whole

LEMMA BranchSame ==
  ASSUME Shape, NEW D, Branch(D), SamePhase, SameBase,
         Len(entry') = Len(entry), SamePrev, last' = last,
         \A e \in Ent : M'.pc \in OwnPcs /\ e # Base /\ Clean(e) => Clean(e)'
  PROVE  Branch(D)'
<1>1. Tree' = Tree /\ Tree \subseteq Ent
  BY SameTree, TreeEnt
<1> SUFFICES ASSUME M'.pc \in OwnPcs
             PROVE  /\ Base' \in D /\ last' \in D /\ Null \notin D /\ entry'[Base'].prev \notin D
                    /\ \A e \in Tree' : e # Base' =>
                         (e \in D <=> entry'[e].prev \in D) /\ (e \in D => Clean(e)')
  BY DEF Branch
<1>2. M.pc \in OwnPcs /\ Base' = Base /\ Base \in Tree
  BY BaseTree DEF SameBase
<1> QED BY <1>1, <1>2 DEF Branch, SamePrev

LEMMA AllocateText ==
  ASSUME Shape, NEW r, Chain(r), NEW T, TextOf(T), NEW D, Branch(D), NEW t \in Line, Allocate(t)
  PROVE  TextOf(T)' /\ Branch(D)' /\ T[last'] = T[last]
<1> DEFINE n == Len(entry) + 1
<1>1. /\ Len(entry) \in Nat /\ Ent' = Ent \cup {n} /\ n \notin Ent
      /\ \A e \in Ent : entry'[e] = entry[e]
      /\ last' = last
  BY AllocateIs, Places DEF Ent
<1>2. /\ loc[t].pc = "alloc" /\ loc'[t].pc = "link" /\ loc'[t].new = n
      /\ \A u \in Line : u # t => loc'[u] = loc[u]
  BY AllocateIs DEF Turn, LocIs
<1> HIDE DEF n
<1>3. Tree' = Tree /\ Tree \subseteq Ent
  BY <1>1, <1>2 DEF Tree
<1>4. TextOf(T)'
  <2>1. ASSUME NEW e \in Tree PROVE T[e] = T[entry'[e].prev] \o Kept(entry'[e].data)[MIN_CAPACITY]
    BY <1>1, <1>3 DEF TextOf, Whole
  <2>2. ASSUME NEW u \in Line, loc'[u].pc \in {"next", "last"}
        PROVE  T[last] = T[entry'[loc'[u].new].prev]
    <3>1. loc'[u] = loc[u] /\ loc[u].new \in Ent
      BY <1>2, <2>2, Bounds DEF NewPcs
    <3> QED BY <1>1, <2>2, <3>1, ZenonT(60) DEF TextOf
  <2> QED BY <1>1, <1>3, <2>1, <2>2 DEF TextOf, Whole
<1>5. Branch(D)'
  <2> SUFFICES ASSUME M'.pc \in OwnPcs
               PROVE  /\ Base' \in D /\ last' \in D /\ Null \notin D /\ entry'[Base'].prev \notin D
                      /\ \A e \in Tree' : e # Base' =>
                           (e \in D <=> entry'[e].prev \in D) /\ (e \in D => Clean(e)')
    BY DEF Branch
  <2>1. M' = M
    BY <1>2 DEF M, Line, OwnPcs, TailPcs
  <2>2. M.pc \in OwnPcs /\ Base' = Base /\ Base \in Tree
    BY <2>1, BaseTree DEF Base
  <2>3. \A e \in Tree : Clean(e) => Clean(e)'
    BY <1>1, <1>3 DEF Clean
  <2> QED BY <1>1, <1>3, <2>2, <2>3 DEF Branch
<1> QED BY <1>1, <1>4, <1>5

(* The entry linked back has no text yet, and hangs in the branch that the *)
(* last entry is in.                                                       *)
LEMMA LinkBackText ==
  ASSUME Shape, Stored, NEW r, Chain(r), NEW T, TextOf(T), NEW D, Branch(D),
         NEW t \in Line, LinkBack(t)
  PROVE  \E S, B : TextOf(S)' /\ Branch(B)' /\ S[last'] = T[last]
<1>0. PICK n : n = loc[t].new
  OBVIOUS
<1>1. /\ Len(entry') = Len(entry) /\ Len(entry) \in Nat /\ Ent' = Ent /\ n \in Ent /\ n # Null
      /\ entry'[n].prev = last /\ \A e \in Ent : e # n => entry'[e].prev = entry[e].prev
      /\ last' = last /\ \A e \in Ent : entry'[e].data = entry[e].data
  BY <1>0, LinkBackIs, Bounds, Places, SMTT(40) DEF Ent, SameLen, SameData, Turn, NewPcs, Null
<1>2. /\ loc[t].pc = "link" /\ loc'[t].new = n /\ loc'[t].pc \in {"next", "last"} /\ loc'[t].pc # "link"
      /\ \A u \in Line : u # t => loc'[u] = loc[u]
  BY <1>0, LinkBackIs DEF Turn, LocIs
<1>3. /\ t = "main" => I.pc = "idle" /\ I' = I
      /\ t = "isr" => I.new # M.new /\ M' = M
  BY <1>0, <1>2, LinkBackIs DEF Shape, Lines, Turn, Line, M, I, NewPcs
<1>4. \A u \in Line : u # t /\ loc[u].pc \in {"link", "next", "last"} => loc[u].new # n
  BY <1>0, <1>2, <1>3 DEF Line, M, I
<1>5. n \notin Tree /\ last # n /\ \A e \in Tree : entry[e].prev # n
  BY <1>0, <1>1, <1>2 DEF Tree, Chain, Ahead
<1>6. Clean(n)
  BY <1>0, <1>2 DEF Stored, FreshClean, NewPcs
<1>7. \A u \in Line : u # t /\ loc[u].pc \in {"next", "last"} => loc[u].new \in Tree
  BY <1>0, NewTree DEF NewPcs
<1>8. Tree' = Tree \cup {n} /\ Tree \subseteq Ent
  <2>1. ASSUME NEW e \in Ent PROVE e \in Tree' <=> e \in Tree \cup {n}
    <3>1. CASE e = n
      BY <1>1, <1>2, <1>4, <3>1 DEF Tree
    <3>2. CASE e # n
      BY <1>0, <1>1, <1>2, <3>2 DEF Tree
    <3> QED BY <3>1, <3>2
  <2>2. Tree' \subseteq Ent /\ Tree \subseteq Ent /\ n \in Ent
    BY <1>1 DEF Tree
  <2> QED BY <2>1, <2>2
<1>9. n \in Nat /\ last \in Nat /\ \A e \in Ent : e \in Nat /\ entry[e].prev \in Nat
  <2>1. \A e \in Ent : e \in Nat /\ entry[e].prev \in Nat
    BY EntryTypes DEF Shape, Ent
  <2>2. last \in Nat
    BY <1>1 DEF Shape, Types
  <2> QED BY <1>1, <2>1, <2>2
<1>10. PICK S : /\ S \in [Nat -> Seq(Chars)] /\ S[n] = T[last]
                /\ \A x \in Nat : x # n => S[x] = T[x]
  <2> DEFINE f == [T EXCEPT ![n] = T[last]]
  <2>1. T \in [Nat -> Seq(Chars)] /\ T[last] \in Seq(Chars)
    BY <1>9 DEF TextOf
  <2>2. f \in [Nat -> Seq(Chars)] /\ f[n] = T[last] /\ \A x \in Nat : x # n => f[x] = T[x]
    BY <1>9, <2>1
  <2> HIDE DEF f
  <2> QED BY <2>2
<1>11. \A e \in Ent : Kept(entry'[e].data)[MIN_CAPACITY] = Whole(e)
  BY <1>1 DEF Whole
<1>12. S[last] = T[last]
  BY <1>5, <1>9, <1>10, SMTT(40)
<1>13. TextOf(S)'
  <2>1. ASSUME NEW e \in Tree PROVE S[e] = S[entry'[e].prev] \o Kept(entry'[e].data)[MIN_CAPACITY]
    <3>1. e # n /\ e \in Ent /\ entry'[e].prev = entry[e].prev /\ entry[e].prev # n
      BY <1>1, <1>5, <1>8
    <3>2. S[e] = T[e] /\ S[entry[e].prev] = T[entry[e].prev]
      BY <1>9, <1>10, <3>1
    <3>3. T[e] = T[entry[e].prev] \o Whole(e)
      BY DEF TextOf
    <3> QED BY <1>11, <3>1, <3>2, <3>3
  <2>2. S[n] = S[entry'[n].prev] \o Kept(entry'[n].data)[MIN_CAPACITY]
    <3>1. Whole(n) = <<>>
      BY <1>6, WholeClean
    <3>2. T[last] \in Seq(Chars)
      BY <1>9 DEF TextOf
    <3>3. T[last] \o <<>> = T[last]
      BY <3>2, ConcatEmptySeq
    <3> QED BY <1>1, <1>10, <1>11, <1>12, <3>1, <3>3
  <2>3. ASSUME NEW u \in Line, loc'[u].pc \in {"next", "last"}
        PROVE  S[last] = S[entry'[loc'[u].new].prev]
    <3>1. CASE u = t
      BY <1>1, <1>2, <3>1
    <3>2. CASE u # t
      <4>1. loc'[u] = loc[u] /\ loc[u].new \in Tree /\ loc[u].new # n
        BY <1>2, <1>5, <1>7, <2>3, <3>2
      <4>2. entry'[loc[u].new].prev = entry[loc[u].new].prev /\ entry[loc[u].new].prev # n
            /\ entry[loc[u].new].prev \in Nat
        BY <1>1, <1>5, <1>8, <1>9, <4>1
      <4>3. T[last] = T[entry[loc[u].new].prev]
        BY <2>3, <4>1 DEF TextOf
      <4> QED BY <1>10, <1>12, <4>1, <4>2, <4>3
    <3> QED BY <3>1, <3>2
  <2>4. S[Null] = <<>>
    BY <1>1, <1>10 DEF TextOf, Null
  <2> QED BY <1>1, <1>8, <1>10, <2>1, <2>2, <2>3, <2>4 DEF TextOf, Whole
<1>14. PICK B : B = D \cup {n}
  OBVIOUS
<1>15. Branch(B)'
  <2> SUFFICES ASSUME M'.pc \in OwnPcs
               PROVE  /\ Base' \in B /\ last' \in B /\ Null \notin B /\ entry'[Base'].prev \notin B
                      /\ \A e \in Tree' : e # Base' =>
                           (e \in B <=> entry'[e].prev \in B) /\ (e \in B => Clean(e)')
    BY DEF Branch
  <2>1. M' = M
    BY <1>2, <1>3 DEF M, Line, OwnPcs, TailPcs
  <2>2. M.pc \in OwnPcs /\ Base' = Base /\ Base \in Tree
    BY <2>1, BaseTree DEF Base
  <2>3. \A e \in Ent : Clean(e) => Clean(e)'
    BY <1>1 DEF Clean
  <2>4. Base # n /\ entry'[Base].prev = entry[Base].prev /\ entry[Base].prev # n
    BY <1>1, <1>5, <1>8, <2>2
  <2>5. /\ Base \in D /\ last \in D /\ Null \notin D /\ entry[Base].prev \notin D
        /\ \A e \in Tree : e # Base => (e \in D <=> entry[e].prev \in D) /\ (e \in D => Clean(e))
    BY <2>2 DEF Branch
  <2>6. ASSUME NEW e \in Tree, e # Base
        PROVE  (e \in B <=> entry'[e].prev \in B) /\ (e \in B => Clean(e)')
    <3>1. e # n /\ e \in Ent /\ entry'[e].prev = entry[e].prev /\ entry[e].prev # n
      BY <1>1, <1>5, <1>8
    <3> QED BY <1>14, <2>3, <2>5, <2>6, <3>1
  <2>7. entry'[n].prev \in B /\ Clean(n)'
    BY <1>1, <1>6, <1>14, <2>3, <2>5
  <2> QED BY <1>1, <1>8, <1>14, <2>2, <2>4, <2>5, <2>6, <2>7
<1> QED BY <1>1, <1>12, <1>13, <1>15

LEMMA SetLastText ==
  ASSUME Shape, Stored, KeyLine, NEW r, Chain(r), NEW T, TextOf(T), NEW D, Branch(D),
         NEW t \in Line, SetLast(t)
  PROVE  \E B : TextOf(T)' /\ Branch(B)' /\ T[last'] = T[last]
<1> DEFINE n == loc[t].new
<1>1. /\ UNCHANGED <<entry, first>> /\ last' = n /\ loc[t].pc = "last" /\ loc'[t].pc = "reset"
      /\ loc'[t].new = n /\ n \in Ent /\ n # Null /\ \A u \in Line : u # t => loc'[u] = loc[u]
  BY SetLastIs, Bounds DEF Turn, LocIs, Shape, NewPcs, Ent, Null
<1>2. /\ t = "main" => I.pc = "idle" /\ I' = I
      /\ t = "isr" => I.new # M.new /\ M' = M
  BY <1>1, SetLastIs DEF Shape, Lines, Turn, Line, M, I, NewPcs
<1>3. \A u \in Line : u # t /\ loc[u].pc \in {"link", "next", "last"} => loc[u].new # n
  BY <1>1, <1>2 DEF Line, M, I
<1>4. Tree' = Tree /\ n \in Tree /\ Tree \subseteq Ent
  <2>1. Tree' = Tree /\ n \in Tree
    BY <1>1, <1>3 DEF Tree, Ent
  <2> QED BY <2>1, TreeEnt
<1>5. \A e \in Tree : entry[e].prev # n
  BY <1>1 DEF Chain, Ahead
<1>6. T[n] = T[last]
  <2>1. Whole(n) = <<>>
    BY <1>1, WholeClean, SMTT(40) DEF Stored, FreshClean, NewPcs
  <2>2. T[n] = T[entry[n].prev] \o Whole(n) /\ T[last] = T[entry[n].prev]
    BY <1>1, <1>4 DEF TextOf
  <2>3. T[last] \in Seq(Chars)
    BY DEF TextOf, Shape, Types
  <2> QED BY <2>1, <2>2, <2>3, ConcatEmptySeq
<1>7. TextOf(T)'
  <2>1. ASSUME NEW u \in Line, loc'[u].pc \in {"next", "last"}
        PROVE  T[n] = T[entry[loc'[u].new].prev]
    <3>1. loc'[u] = loc[u]
      BY <1>1, <2>1
    <3> QED BY <1>6, <2>1, <3>1 DEF TextOf
  <2> QED BY <1>1, <1>4, <2>1 DEF TextOf, Whole
<1>8. \E B : Branch(B)'
  <2>1. CASE t = "main"
    <3>1. M'.pc = "reset" /\ M'.new = n
      BY <1>1, <2>1 DEF M
    <3>2. Base' = n
      BY <3>1 DEF Base
    <3>3. Branch({n})'
      BY <1>1, <1>4, <1>5, <3>1, <3>2 DEF Branch
    <3> QED BY <3>3
  <2>2. CASE t = "isr"
    <3>1. Branch(D)'
      <4> SUFFICES ASSUME M'.pc \in OwnPcs
                   PROVE  /\ Base' \in D /\ last' \in D /\ Null \notin D /\ entry'[Base'].prev \notin D
                          /\ \A e \in Tree' : e # Base' =>
                               (e \in D <=> entry'[e].prev \in D) /\ (e \in D => Clean(e)')
        BY DEF Branch
      <4>1. M' = M
        BY <1>2, <2>2
      <4>2. M.pc \in OwnPcs /\ Base' = Base
        BY <4>1 DEF Base
      <4>3. n # Base
        BY <1>1, <2>2, Places DEF Base, I, NewPcs
      <4>4. n \in D
        <5>1. entry[n].prev = last
          BY <1>1, <2>2 DEF KeyLine, I
        <5> QED BY <1>4, <4>2, <4>3, <5>1 DEF Branch
      <4>5. \A e \in Tree : Clean(e) => Clean(e)'
        BY <1>1 DEF Clean
      <4> QED BY <1>1, <1>4, <4>2, <4>4, <4>5 DEF Branch
    <3> QED BY <3>1
  <2> QED BY <2>1, <2>2 DEF Line
<1> QED BY <1>1, <1>6, <1>7, <1>8

(* Where the main line finds the last entry it begins the branch with it.  *)
LEMMA ReadTailText ==
  ASSUME Shape, NEW r, Chain(r), NEW T, TextOf(T), ReadTail("main")
  PROVE  \E B : TextOf(T)' /\ Branch(B)' /\ T[last'] = T[last]
<1>1. /\ Turn("main", "tail") /\ Quiet /\ "main" \in Line
      /\ last = Null => LocIs("main", "alloc", M.chr, Null, M.new, M.index)
      /\ last # Null => LocIs("main", "test", M.chr, last, M.new, M.index)
  BY ReadTailIs DEF Shape, Line, M
<1>2. SamePhase
  BY <1>1 DEF Turn, LocIs, SamePhase
<1>3. TextOf(T)' /\ T[last'] = T[last]
  BY <1>1, <1>2, TextSame DEF Quiet, SamePrev, Agree
<1>4. Tree' = Tree
  BY <1>1, <1>2, SameTree DEF Quiet
<1>5. PICK l : l = last
  OBVIOUS
<1>6. Branch({l})'
  <2>1. CASE last = Null
    BY <1>1, <2>1 DEF Branch, LocIs, M, OwnPcs, TailPcs
  <2>2. CASE last # Null
    <3>1. M'.pc = "test" /\ M'.tail = l
      BY <1>1, <1>5, <2>2 DEF LocIs, M
    <3>2. Base' = l
      BY <3>1 DEF Base
    <3>3. \A e \in Tree : entry[e].prev # l
      BY <1>1, <1>5, <2>2 DEF Chain, Leaf, Turn, Line, I
    <3>4. l \in Tree
      BY <1>5, <2>2 DEF Chain
    <3> QED BY <1>1, <1>4, <1>5, <2>2, <3>2, <3>3, <3>4 DEF Branch, Quiet
  <2> QED BY <2>1, <2>2
<1> QED BY <1>3, <1>6

(* The main line's character is appended to the text of every entry in the *)
(* branch, and to that of no other.                                        *)
LEMMA StoreText ==
  ASSUME Shape, Stored, NEW r, Chain(r), NEW T, TextOf(T), NEW D, Branch(D), StoreChar("main")
  PROVE  \E S : TextOf(S)' /\ Branch(D)' /\ S[last'] = Append(T[last], M.chr)
<1>0. PICK x, i, c : x = M.tail /\ i = M.index /\ c = M.chr
  OBVIOUS
<1>1. /\ Turn("main", "store") /\ last' = last /\ Len(entry') = Len(entry) /\ SamePrev
      /\ LocIs("main", "idle", "zero", Null, Null, 0)
      /\ \A j \in Bytes : entry'[x].data[j] = IF j = i THEN c ELSE entry[x].data[j]
      /\ \A e \in Ent : e # x => entry'[e].data = entry[e].data
  BY <1>0, StoreIs DEF SameLen, Line, M
<1>2. /\ M.pc = "store" /\ M'.pc = "idle" /\ I.pc = "idle" /\ I' = I /\ SamePhase
      /\ c \in Chars /\ i \in Nat /\ i < MIN_CAPACITY /\ MIN_CAPACITY \in Nat
  <2>1. /\ M.pc = "store" /\ M'.pc = "idle" /\ I.pc = "idle" /\ I' = I /\ SamePhase
    BY <1>1 DEF Turn, LocIs, SamePhase, M, I, Line
  <2>2. c \in Chars /\ i \in Nat
    BY <1>0, <2>1, Places DEF Shape, Lines
  <2>3. i < MIN_CAPACITY /\ MIN_CAPACITY \in Nat
    BY <1>0, <2>1, <2>2, ConsoleLogAssumption DEF Stored, MainBytes
  <2> QED BY <2>1, <2>2, <2>3
<1>3. Tree' = Tree /\ Tree \subseteq Ent
  BY <1>1, <1>2, SameTree, TreeEnt
<1>4. /\ x \in Tree /\ x \in D /\ last \in D /\ Null \notin D /\ entry[x].prev \notin D
      /\ \A e \in Tree : e # x => (e \in D <=> entry[e].prev \in D) /\ (e \in D => Clean(e))
  <2>1. M.pc \in OwnPcs /\ Base = x
    BY <1>0, <1>2 DEF OwnPcs, TailPcs, Base
  <2> QED BY <2>1, BaseTree DEF Branch
<1>5. Kept(entry'[x].data)[MIN_CAPACITY] = Append(Whole(x), c)
  <2>1. \A j \in Nat : j < MIN_CAPACITY => j \in Bytes
    BY <1>2 DEF Bytes
  <2>2. \A j \in Nat : i <= j /\ j < MIN_CAPACITY => entry[x].data[j] \notin Chars
    BY <1>0, <1>2, <2>1 DEF Stored, MainBytes
  <2>3. entry'[x].data[i] = c /\ \A j \in Nat : j < MIN_CAPACITY /\ j # i => entry'[x].data[j] = entry[x].data[j]
    BY <1>1, <1>2, <2>1
  <2>4. PICK d, f : d = entry[x].data /\ f = entry'[x].data
    OBVIOUS
  <2>5. Behind(d, f, i, MIN_CAPACITY, c)
    BY <2>2, <2>3, <2>4 DEF Behind
  <2>6. Kept(f)[MIN_CAPACITY] = Append(Kept(d)[MIN_CAPACITY], c)
    <3>1. Longer(Kept(d)[MIN_CAPACITY], Kept(f)[MIN_CAPACITY], c)
      BY <1>2, <2>5, KeptStore
    <3> QED BY <3>1 DEF Longer
  <2> QED BY <2>4, <2>6 DEF Whole
<1>6. \A e \in Ent : e # x => Kept(entry'[e].data)[MIN_CAPACITY] = Whole(e)
  BY <1>1 DEF Whole
<1>7. T \in [Nat -> Seq(Chars)] /\ \A e \in Ent : e \in Nat /\ entry[e].prev \in Nat
  BY EntryTypes DEF TextOf, Shape, Ent
<1>8. PICK S : /\ S \in [Nat -> Seq(Chars)]
               /\ \A e \in Nat : S[e] = IF e \in D THEN Append(T[e], c) ELSE T[e]
  <2>1. \A e \in Nat : (IF e \in D THEN Append(T[e], c) ELSE T[e]) \in Seq(Chars)
    BY <1>2, <1>7, AppendProperties
  <2> DEFINE g == [e \in Nat |-> IF e \in D THEN Append(T[e], c) ELSE T[e]]
  <2>2. g \in [Nat -> Seq(Chars)]
    BY <2>1
  <2>3. \A e \in Nat : g[e] = IF e \in D THEN Append(T[e], c) ELSE T[e]
    OBVIOUS
  <2> HIDE DEF g
  <2> QED BY <2>2, <2>3
<1>9. ASSUME NEW e \in Tree PROVE S[e] = S[entry'[e].prev] \o Kept(entry'[e].data)[MIN_CAPACITY]
  <2>1. /\ e \in Nat /\ entry[e].prev \in Nat /\ entry'[e].prev = entry[e].prev /\ e \in Ent
        /\ T[e] = T[entry[e].prev] \o Whole(e)
    BY <1>1, <1>3, <1>7 DEF TextOf, SamePrev
  <2>2. T[entry[e].prev] \in Seq(Chars) /\ Whole(e) \in Seq(Chars) /\ T[e] \in Seq(Chars)
    BY <1>7, <2>1, WholeSeq
  <2>3. CASE e = x
    <3>1. S[e] = Append(T[e], c) /\ S[entry[e].prev] = T[entry[e].prev]
      BY <1>4, <1>8, <2>1, <2>3
    <3>2. Append(T[entry[e].prev] \o Whole(e), c) = T[entry[e].prev] \o Append(Whole(e), c)
      <4>1. Append(T[e], c) = T[e] \o <<c>> /\ Append(Whole(e), c) = Whole(e) \o <<c>>
        BY <1>2, <2>2, AppendIsConcat
      <4>2. (T[entry[e].prev] \o Whole(e)) \o <<c>> = T[entry[e].prev] \o (Whole(e) \o <<c>>)
        <5>1. PICK u, v, w : u = T[entry[e].prev] /\ v = Whole(e) /\ w = <<c>>
          OBVIOUS
        <5>2. u \in Seq(Chars) /\ v \in Seq(Chars) /\ w \in Seq(Chars)
          BY <1>2, <2>2, <5>1
        <5>3. (u \o v) \o w = u \o (v \o w)
          BY <5>2, ConcatAssociative
        <5> QED BY <5>1, <5>3
      <4> QED BY <2>1, <4>1, <4>2
    <3> QED BY <1>5, <2>1, <2>3, <3>1, <3>2
  <2>4. CASE e # x /\ e \in D
    <3>1. entry[e].prev \in D /\ Whole(e) = <<>>
      BY <1>4, <2>4, WholeClean
    <3>2. T[e] = T[entry[e].prev]
      BY <2>1, <2>2, <3>1, ConcatEmptySeq
    <3>3. S[e] = S[entry[e].prev] /\ S[entry[e].prev] \in Seq(Chars)
      BY <1>8, <2>1, <2>4, <3>1, <3>2
    <3> QED BY <1>6, <2>1, <2>4, <3>1, <3>3, ConcatEmptySeq
  <2>5. CASE e # x /\ e \notin D
    BY <1>4, <1>6, <1>8, <2>1, <2>5, ZenonT(60)
  <2> QED BY <2>3, <2>4, <2>5
<1>10. TextOf(S)'
  <2>1. S[Null] = <<>>
    BY <1>4, <1>8 DEF TextOf, Null
  <2>2. \A u \in Line : loc'[u].pc \notin {"next", "last"}
    BY <1>2 DEF Line, M, I
  <2> QED BY <1>3, <1>8, <1>9, <2>1, <2>2 DEF TextOf, Whole
<1>11. Branch(D)'
  BY <1>2 DEF Branch, OwnPcs, TailPcs
<1>12. last \in Nat
  BY DEF Shape, Types
<1> QED BY <1>0, <1>1, <1>4, <1>8, <1>10, <1>11, <1>12, ZenonT(60)

(* The text of the log grows by the main line's StoreChar only.            *)
LEMMA TextStepIs ==
  ASSUME Shape, Stored, KeyLine, NEW r, Chain(r), NEW T, TextOf(T), NEW D, Branch(D), Alone
  PROVE  \E S, B : /\ TextOf(S)' /\ Branch(B)'
                   /\ StoreChar("main") => S[last'] = Append(T[last], M.chr)
                   /\ ~ StoreChar("main") => S[last'] = T[last]
<1>1. CASE StoreChar("main")
  BY <1>1, StoreText
<1>2. CASE ReadTail("main") /\ ~ StoreChar("main")
  BY <1>2, ReadTailText
<1>3. ASSUME NEW t \in Line, LinkBack(t) \/ SetLast(t) \/ Allocate(t), ~ StoreChar("main")
      PROVE  \E S, B : TextOf(S)' /\ Branch(B)' /\ S[last'] = T[last]
  BY <1>3, LinkBackText, SetLastText, AllocateText, Zenon
<1>4. CASE /\ ~ StoreChar("main") /\ ~ ReadTail("main")
           /\ ~ \E t \in Line : LinkBack(t) \/ SetLast(t) \/ Allocate(t)
  <2>1. Agree
    BY <1>4, AgreeStep
  <2>2. SUFFICES /\ SamePhase /\ SameBase /\ Len(entry') = Len(entry) /\ SamePrev /\ last' = last
    <3>1. \A e \in Ent : Clean(e) => Clean(e)'
      BY <2>1, AgreeWhole
    <3>2. TextOf(T)' /\ T[last'] = T[last]
      BY <2>1, <2>2, TextSame
    <3>3. Branch(D)'
      BY <2>2, <3>1, BranchSame
    <3> QED BY <1>4, <3>2, <3>3
  <2>3. CASE UNCHANGED vars
    BY <2>3 DEF vars, SamePhase, SamePrev, SameBase, Base, M
  <2>4. CASE (\E c \in Chars : PrintChar(c)) \/ KeyPress \/ PrintKey
    <3>1. UNCHANGED <<entry, first, last>>
      BY <2>4, StartShape
    <3>2. SamePhase /\ SameBase
      <4>1. CASE \E c \in Chars : PrintChar(c)
        BY <4>1, CallIs DEF PrintChar, LocIs, Turn, Marks, Line, Shape, SamePhase, SameBase, OwnPcs, TailPcs, M
      <4>2. CASE KeyPress
        BY <4>2 DEF KeyPress, SamePhase, SameBase, Base, M
      <4>3. CASE PrintKey
        BY <4>3, CallIs DEF PrintKey, LocIs, Turn, Marks, Line, Shape, SamePhase, SameBase, Base, M
      <4> QED BY <2>4, <4>1, <4>2, <4>3
    <3> QED BY <3>1, <3>2 DEF SamePrev
  <2>5. ASSUME NEW t \in Line,
               \/ ReadTail(t) \/ TestCapacity(t) \/ FetchCount(t) \/ StoreCount(t) \/ StoreChar(t)
               \/ Refuse(t) \/ LinkNext(t) \/ ResetCount(t) \/ ClearData(t)
        PROVE  /\ SamePhase /\ SameBase /\ Len(entry') = Len(entry) /\ SamePrev /\ last' = last
    <3>1. CASE ReadTail(t)
      BY <1>4, <3>1, ReadTailIs DEF Turn, LocIs, SamePhase, SamePrev, Quiet, Shape, Line, SameBase, Base, M
    <3>2. CASE TestCapacity(t)
      BY <3>2, TestIs DEF Turn, LocIs, SamePhase, SamePrev, Quiet, Line, SameBase, Base, M, OwnPcs, TailPcs
    <3>3. CASE FetchCount(t)
      BY <3>3, FetchIs DEF Turn, LocIs, SamePhase, SamePrev, Quiet, Line, SameBase, Base, M, OwnPcs, TailPcs
    <3>4. CASE StoreCount(t)
      BY <3>4, CountIs DEF Turn, LocIs, SamePhase, SameLen, Line, SameBase, Base, M, OwnPcs, TailPcs
    <3>5. CASE StoreChar(t)
      BY <1>4, <3>5, StoreIs DEF Turn, LocIs, SamePhase, SameLen, Line, SameBase, Base, M, OwnPcs, TailPcs
    <3>6. CASE Refuse(t)
      BY <3>6, RefuseIs DEF Turn, LocIs, SamePhase, SamePrev, Quiet, Shape, Line, SameBase, Base, M, OwnPcs, TailPcs
    <3>7. CASE LinkNext(t)
      BY <3>7, LinkNextIs DEF Turn, LocIs, SamePhase, SameLen, Line, SameBase, Base, M, OwnPcs, TailPcs
    <3>8. CASE ResetCount(t)
      BY <3>8, ResetIs DEF Turn, LocIs, SamePhase, SameLen, Line, SameBase, Base, M, OwnPcs, TailPcs
    <3>9. CASE ClearData(t)
      BY <3>9, ClearIs DEF Turn, LocIs, SamePhase, SameLen, Line, SameBase, Base, M, OwnPcs, TailPcs
    <3> QED BY <2>5, <3>1, <3>2, <3>3, <3>4, <3>5, <3>6, <3>7, <3>8, <3>9
  <2> QED BY <1>4, <2>3, <2>4, <2>5, NextIs, Zenon
<1> QED BY <1>1, <1>2, <1>3, <1>4, Zenon
-----------------------------------------------------------------------------
(* The walk reads the text of the last entry.                              *)

LEMMA EntryTextIs ==
  ASSUME Shape, Stored, NEW e \in Ent
  PROVE  EntryText(e) = Whole(e) /\ EntryText(e) \in Seq(Chars)
<1>1. /\ entry[e].charcount \in Nat /\ entry[e].charcount <= MIN_CAPACITY /\ MIN_CAPACITY \in Nat
  BY EntryTypes, ConsoleLogAssumption DEF Shape, Stored, Filled
<1>2. \A j \in Nat : entry[e].charcount <= j /\ j < MIN_CAPACITY => entry[e].data[j] \notin Chars
  BY <1>1 DEF Stored, Filled, Bytes
<1>3. Kept(entry[e].data)[MIN_CAPACITY] = Kept(entry[e].data)[entry[e].charcount]
  BY <1>1, <1>2, KeptRest
<1> QED BY <1>3, WholeSeq DEF Whole, EntryText

(* The walk is over after at most MaxEntries entries.                      *)
LEMMA WalkOver ==
  ASSUME Shape, NEW r, Chain(r) PROVE Walk[MaxEntries] = Null
<1>1. PICK k \in 0 .. MaxEntries : Walk[k] = Null
  <2>1. CASE last = Null
    BY <2>1, WalkTypes, ConsoleLogAssumption
  <2>2. CASE last # Null
    <3>1. r[last] \in 1 .. MaxEntries /\ \A i \in Nat : i < r[last] => Walk[i] \in Tree /\ r[Walk[i]] = r[last] - i
      BY <2>2, WalkDown
    <3>2. PICK n \in Nat : n < r[last] /\ r[last] - n = 1 /\ n + 1 \in 0 .. MaxEntries
      <4>1. /\ r[last] - 1 \in Nat /\ r[last] - 1 < r[last] /\ r[last] - (r[last] - 1) = 1
            /\ (r[last] - 1) + 1 \in 0 .. MaxEntries
        BY <3>1, ConsoleLogAssumption
      <4> QED BY <4>1
    <3>3. Walk[n] \in Tree /\ r[Walk[n]] = 1
      BY <3>1, <3>2
    <3>4. Walk[n] # Null /\ entry[Walk[n]].prev = Null
      BY <3>3, Distance
    <3>5. Walk[n + 1] = Null
      BY <3>4, WalkTypes
    <3> QED BY <3>2, <3>5
  <2> QED BY <2>1, <2>2
<1> DEFINE S == {n \in Nat : n >= k => Walk[n] = Null}
<1>2. 0 \in S
  BY <1>1
<1>3. ASSUME NEW n \in Nat, n \in S PROVE n + 1 \in S
  <2> SUFFICES ASSUME n + 1 >= k PROVE Walk[n + 1] = Null
    OBVIOUS
  <2>1. CASE n + 1 = k
    BY <1>1, <2>1
  <2>2. CASE n + 1 # k
    <3>1. n >= k
      BY <1>1, <2>2
    <3>2. Walk[n] = Null
      BY <1>3, <3>1
    <3> QED BY <3>2, WalkTypes
  <2> QED BY <2>1, <2>2
<1>4. Nat \subseteq S
  <2> HIDE DEF S
  <2> QED BY <1>2, <1>3, NatInd
<1> QED BY <1>1, <1>4, ConsoleLogAssumption

LEMMA MainTextIs ==
  ASSUME Shape, Stored, NEW r, Chain(r), NEW T, TextOf(T)
  PROVE  MainText = T[last] /\ MainText \in Seq(Chars)
<1>1. \A n \in Nat : Walk[n] \in 0 .. Len(entry)
  BY WalkTypes
<1>2. ASSUME NEW n \in Nat, Walk[n] # Null
      PROVE  EntryText(Walk[n]) = Whole(Walk[n]) /\ EntryText(Walk[n]) \in Seq(Chars)
  <2>1. Walk[n] \in Ent
    BY <1>1, <1>2, Places DEF Ent, Null
  <2> QED BY <2>1, EntryTextIs
<1>3. /\ Text[0] = <<>>
      /\ \A n \in Nat : /\ Text[n] \in Seq(Chars)
                        /\ Walk[n] = Null => Text[n + 1] = Text[n]
                        /\ Walk[n] # Null => Text[n + 1] = EntryText(Walk[n]) \o Text[n]
  BY <1>2, TextIs
<1>4. T \in [Nat -> Seq(Chars)] /\ T[Null] = <<>> /\ last \in Nat
  BY DEF TextOf, Shape, Types
<1> DEFINE S == {n \in Nat : Walk[n] \in Tree \cup {Null} /\ T[last] = T[Walk[n]] \o Text[n]}
<1>5. 0 \in S
  <2>1. T[last] \in Seq(Chars) /\ T[last] \o <<>> = T[last]
    BY <1>4, ConcatEmptySeq
  <2>2. Walk[0] = last /\ last \in Tree \cup {Null}
    BY WalkTypes DEF Chain
  <2> QED BY <1>3, <2>1, <2>2
<1>6. ASSUME NEW n \in Nat, n \in S PROVE n + 1 \in S
  <2>1. Walk[n] \in Tree \cup {Null} /\ T[last] = T[Walk[n]] \o Text[n] /\ Text[n] \in Seq(Chars)
    BY <1>3, <1>6
  <2> HIDE DEF S
  <2>2. Walk[n + 1] \in Tree \cup {Null} /\ T[last] = T[Walk[n + 1]] \o Text[n + 1]
    <3>1. CASE Walk[n] = Null
      <4>1. Walk[n + 1] = Null /\ Text[n + 1] = Text[n]
        BY <1>3, <3>1, WalkTypes
      <4> QED BY <2>1, <3>1, <4>1
    <3>2. CASE Walk[n] # Null
      <4>0. PICK e, p, w, v : e = Walk[n] /\ p = entry[e].prev /\ w = Whole(e) /\ v = Text[n]
        OBVIOUS
      <4>1. e \in Tree /\ Walk[n + 1] = p /\ Text[n + 1] = w \o v
        BY <1>2, <1>3, <2>1, <3>2, <4>0, WalkTypes
      <4>2. p \in Tree \cup {Null} /\ p \in Nat
        <5>1. p # Null => p \in Tree
          BY <4>0, <4>1 DEF Chain, Rooted
        <5>2. p \in Nat
          BY <4>0, <4>1, TreeEnt, EntryTypes DEF Shape
        <5> QED BY <5>1, <5>2
      <4>3. T[e] = T[p] \o w
        BY <4>0, <4>1 DEF TextOf
      <4>4. PICK u : u = T[p]
        OBVIOUS
      <4>5. u \in Seq(Chars) /\ w \in Seq(Chars) /\ v \in Seq(Chars)
        BY <1>4, <2>1, <4>0, <4>2, <4>4, WholeSeq
      <4>6. (u \o w) \o v = u \o (w \o v)
        BY <4>5, ConcatAssociative
      <4>7. T[last] = T[e] \o v
        BY <2>1, <4>0
      <4> QED BY <4>1, <4>2, <4>3, <4>4, <4>6, <4>7
    <3> QED BY <3>1, <3>2
  <2>3. n + 1 \in Nat
    OBVIOUS
  <2> QED BY <2>2, <2>3, Zenon DEF S
<1>7. Nat \subseteq S
  <2> HIDE DEF S
  <2> QED BY <1>5, <1>6, NatInd
<1>8. MaxEntries \in Nat /\ Walk[MaxEntries] = Null
  BY WalkOver, ConsoleLogAssumption
<1>9. T[last] = <<>> \o Text[MaxEntries] /\ Text[MaxEntries] \in Seq(Chars)
  BY <1>3, <1>4, <1>7, <1>8
<1> QED BY <1>9, ConcatEmptySeq DEF MainText

-----------------------------------------------------------------------------
(* For the main line the log is a TextLog.                                 *)

Logged == KeyLine /\ \E T, D : TextOf(T) /\ Branch(D)
Read   == \A T : TextOf(T) => MainText = T[last]

LEMMA LoggedInit == Init => Logged
<1> SUFFICES ASSUME Init PROVE Logged
  OBVIOUS
<1>1. TextOf([e \in Nat |-> <<>>])
  BY EmptySeq DEF Init, TextOf, Tree, Ent, Idle, Null
<1>2. Branch({})
  BY DEF Init, Branch, M, Idle, OwnPcs, TailPcs, Line
<1> QED BY <1>1, <1>2, KeyLineInit DEF Logged

LEMMA LoggedStep == Sound /\ Logged /\ Alone => Logged'
<1> SUFFICES ASSUME Sound, Logged, Alone PROVE Logged'
  OBVIOUS
<1>1. PICK r, T, D : Chain(r) /\ TextOf(T) /\ Branch(D)
  BY DEF Sound, IsTree, Logged
<1>2. PICK S, B : TextOf(S)' /\ Branch(B)'
  BY <1>1, TextStepIs DEF Sound, Logged
<1> QED BY <1>2, KeyLineStep DEF Sound, Logged

LEMMA ReadFollows == Sound => Read
  BY MainTextIs DEF Sound, IsTree, Read

LEMMA Silent ==
  ASSUME Sound, Alone, M' # M,
         ~ (\E c \in Chars : PrintChar(c)), ~ StoreChar("main"), ~ Refuse("main")
  PROVE  M'.chr = M.chr
<1>1. ~ UNCHANGED vars
  BY DEF vars, M
<1>2. ~ KeyPress
  BY DEF KeyPress, M
<1>3. ~ PrintKey
  BY CallIs DEF PrintKey, Sound, Shape, Marks, LocIs, M, Line
<1>4. SUFFICES ASSUME NEW t \in Line,
                 \/ ReadTail(t) \/ TestCapacity(t) \/ FetchCount(t) \/ StoreCount(t)
                 \/ StoreChar(t) \/ Allocate(t) \/ Refuse(t) \/ LinkBack(t)
                 \/ LinkNext(t) \/ SetLast(t) \/ ResetCount(t) \/ ClearData(t)
               PROVE M'.chr = M.chr
  BY <1>1, <1>2, <1>3, NextIs, Zenon
<1>5. CASE ReadTail(t)
  BY <1>5, ReadTailIs DEF LocIs, M, Line, Sound, Shape
<1>6. CASE TestCapacity(t)
  BY <1>6, TestIs DEF LocIs, M, Line, Sound
<1>7. CASE FetchCount(t)
  BY <1>7, FetchIs DEF LocIs, M, Line, Sound
<1>8. CASE StoreCount(t)
  BY <1>8, CountIs DEF LocIs, M, Line, Sound
<1>9. CASE StoreChar(t)
  BY <1>9, StoreIs DEF LocIs, M, Line, Sound
<1>10. CASE Allocate(t)
  BY <1>10, AllocateIs DEF LocIs, M, Line, Sound
<1>11. CASE Refuse(t)
  BY <1>11, RefuseIs DEF LocIs, M, Line, Sound, Shape
<1>12. CASE LinkBack(t)
  BY <1>12, LinkBackIs DEF LocIs, M, Line, Sound
<1>13. CASE LinkNext(t)
  BY <1>13, LinkNextIs DEF LocIs, M, Line, Sound
<1>14. CASE SetLast(t)
  BY <1>14, SetLastIs DEF LocIs, M, Line, Sound, Shape
<1>15. CASE ResetCount(t)
  BY <1>15, ResetIs DEF LocIs, M, Line, Sound
<1>16. CASE ClearData(t)
  BY <1>16, ClearIs DEF LocIs, M, Line, Sound
<1> QED BY <1>4, <1>5, <1>6, <1>7, <1>8, <1>9, <1>10, <1>11, <1>12, <1>13, <1>14, <1>15, <1>16

LEMMA LogStep ==
  Sound /\ Logged /\ Read /\ Read' /\ Alone => [MainLog!Next]_<<MainText, loc["main"].chr>>
<1> SUFFICES ASSUME Sound, Logged, Read, Read', Alone
             PROVE  MainLog!Next \/ (MainText' = MainText /\ M'.chr = M.chr)
  BY DEF M
<1>1. PICK r, T, D : Chain(r) /\ TextOf(T) /\ Branch(D)
  BY DEF Sound, IsTree, Logged
<1>2. PICK S, B : /\ TextOf(S)' /\ Branch(B)'
                  /\ StoreChar("main") => S[last'] = Append(T[last], M.chr)
                  /\ ~ StoreChar("main") => S[last'] = T[last]
  BY <1>1, TextStepIs DEF Sound, Logged
<1>3. MainText = T[last] /\ MainText' = S[last']
  BY <1>1, <1>2 DEF Read
<1>4. "zero" \notin Chars /\ "main" \in Line
  BY ConsoleLogAssumption DEF Line
<1>5. (M.pc = "idle" => M.chr = "zero") /\ (M.pc # "idle" => M.chr \in Chars)
  BY DEF Sound, Shape, Lines
<1>6. CASE StoreChar("main")
  <2>1. M.pc = "store" /\ M'.chr = "zero"
    BY <1>4, <1>6, StoreIs DEF Turn, LocIs, M, Sound
  <2>2. M.chr # "zero"
    BY <1>4, <1>5, <2>1
  <2> QED BY <1>2, <1>3, <1>6, <2>1, <2>2 DEF MainLog!Next, MainLog!Commit, M
<1>7. CASE Refuse("main") /\ ~ StoreChar("main")
  <2>1. M.pc = "alloc" /\ M'.chr = "zero"
    BY <1>4, <1>7, RefuseIs DEF Turn, LocIs, M, Sound, Shape
  <2>2. M.chr # "zero"
    BY <1>4, <1>5, <2>1
  <2> QED BY <1>2, <1>3, <1>7, <2>1, <2>2 DEF MainLog!Next, MainLog!Refuse, M
<1>8. ASSUME NEW c \in Chars, PrintChar(c), ~ StoreChar("main")
      PROVE  MainLog!Next
  <2>1. M.pc = "idle" /\ M'.chr = c
    BY <1>4, <1>8, CallIs DEF Turn, LocIs, M, Sound, Shape, PrintChar, Marks
  <2>2. MainText' = MainText
    BY <1>2, <1>3, <1>8
  <2>3. MainLog!PrintChar(c)
    BY <1>5, <2>1, <2>2 DEF MainLog!PrintChar, M
  <2> QED BY <2>3 DEF MainLog!Next
<1>9. CASE ~ StoreChar("main") /\ ~ Refuse("main") /\ ~ (\E c \in Chars : PrintChar(c))
  <2>1. M'.chr = M.chr
    BY <1>9, Silent
  <2> QED BY <1>2, <1>3, <1>9, <2>1
<1> QED BY <1>6, <1>7, <1>8, <1>9

(* For the main line the log is a TextLog: what it prints appears in order,*)
(* each character once, and no race with keyboard_handler, in putchar or   *)
(* in add_entry, loses or changes one of its characters, as long as no     *)
(* kmalloc has run inside another.                                         *)
THEOREM NoTextLost == Spec => LogSpec
<1> DEFINE Ind == SoundAlone /\ (~ reentered => Logged)
<1>1. Init => Ind
  BY SoundInit, LoggedInit
<1>2. Ind /\ [Next]_vars => Ind'
  <2> SUFFICES ASSUME Ind, [Next]_vars, ~ reentered' PROVE Logged'
    BY SoundStep
  <2>1. ~ reentered /\ Alone
    BY SingleStep DEF SoundAlone
  <2> QED BY <2>1, LoggedStep DEF SoundAlone
<1>3. SoundAlone => (~ reentered => Read)
  BY ReadFollows DEF SoundAlone
<1>4. Init => MainLog!Init
  <2> SUFFICES ASSUME Init PROVE MainLog!Init
    OBVIOUS
  <2>1. Read
    BY <1>3, SoundInit DEF Init
  <2>2. MainText = <<>>
    <3>1. TextOf([e \in Nat |-> <<>>])
      BY EmptySeq DEF Init, TextOf, Tree, Ent, Idle, Null
    <3> QED BY <2>1, <3>1 DEF Read, Init, Null
  <2>3. loc["main"].chr = "zero"
    BY DEF Init, Idle, Line
  <2> QED BY <2>2, <2>3 DEF MainLog!Init
<1>5. Ind /\ (~ reentered => Read) /\ (~ reentered => Read)' /\ [Next]_vars
        => [MainLog!Next \/ reentered']_<<MainText, loc["main"].chr>>
  <2> SUFFICES ASSUME Ind, ~ reentered => Read, (~ reentered => Read)', [Next]_vars, ~ reentered'
               PROVE  [MainLog!Next]_<<MainText, loc["main"].chr>>
    OBVIOUS
  <2>1. ~ reentered /\ Alone
    BY SingleStep DEF SoundAlone
  <2> QED BY <2>1, LogStep DEF SoundAlone
<1> QED BY <1>1, <1>2, <1>3, <1>4, <1>5, PTL DEF Spec, LogSpec

=============================================================================
