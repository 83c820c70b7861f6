----------------------------- MODULE ConsoleLog -----------------------------
(***************************************************************************)
(* The console's log (console/console.c): a list of entries that hold the  *)
(* characters printed, grown by add_entry when the last entry is full.     *)
(* Nothing is locked.  The main line prints, and so does keyboard_handler  *)
(* (interrupts/idt.c), between any two accesses the main line makes: it    *)
(* runs to its end first, because interrupts are off in it.  kmalloc is    *)
(* not locked either: a call inside another may give the same memory twice.*)
(* What appears on the screen is in module Screen.                         *)
(***************************************************************************)
EXTENDS Integers, Sequences

CONSTANTS
  MIN_CAPACITY, \* characters of an entry
  MaxEntries,   \* entries the allocator has memory for
  Chars,        \* what the main line prints
  KeyLen,       \* characters keyboard_handler prints for a key
  MaxKeys       \* keys pressed, a bound

ASSUME ConsoleLogAssumption ==
  /\ MIN_CAPACITY \in Nat \ {0, 1} /\ MaxEntries \in Nat /\ KeyLen \in Nat /\ MaxKeys \in Nat
  /\ {"key", "zero"} \cap Chars = {}

VARIABLES
  entry,       \* the entries allocated: next, prev, charcount, data
  first, last, \* struct console; 0 is the null pointer
  loc,         \* the locals of putchar and add_entry, for each line of code
  keys, todo,  \* keys pressed so far; characters the handler has to print
  given,       \* entries the handler was given inside the main line's kmalloc
  reentered    \* the handler has called kmalloc inside the main line's

kmallocs == <<given, reentered>>
vars == <<entry, first, last, loc, keys, todo, kmallocs>>

Null == 0
Line == {"main", "isr"}
Idle == [pc |-> "idle", chr |-> "zero", tail |-> Null, new |-> Null, index |-> 0]
Zeroed == [next |-> Null, prev |-> Null, charcount |-> 0, data |-> [i \in 0..(MIN_CAPACITY - 1) |-> "zero"]]

Init ==
  /\ entry = <<>> /\ first = Null /\ last = Null
  /\ loc = [t \in Line |-> Idle] /\ keys = 0 /\ todo = 0 /\ given = {} /\ reentered = FALSE

(* The handler runs until it has printed all, the main line waits.         *)
At(t, pc) ==
  /\ loc[t].pc = pc
  /\ t = "main" => todo = 0 /\ loc["isr"].pc = "idle"
Goto(t, pc) == loc' = [loc EXCEPT ![t].pc = pc]
Return(t) == loc' = [loc EXCEPT ![t] = Idle]
console == <<first, last>>

-----------------------------------------------------------------------------
(* putchar.                                                                *)
Call(t, c) ==
  /\ At(t, "idle") /\ loc' = [loc EXCEPT ![t].pc = "tail", ![t].chr = c]
  /\ UNCHANGED <<entry, console, keys>>

PrintChar(c) == Call("main", c) /\ UNCHANGED todo
PrintKey == todo > 0 /\ Call("isr", "key") /\ todo' = todo - 1

KeyPress ==
  /\ todo = 0 /\ loc["isr"].pc = "idle" /\ last # Null /\ keys < MaxKeys
  /\ keys' = keys + 1 /\ todo' = KeyLen /\ UNCHANGED <<entry, console, loc>>

ReadTail(t) ==
  /\ At(t, "tail")
  /\ loc' = [loc EXCEPT ![t].tail = last, ![t].pc = IF last = Null THEN "alloc" ELSE "test"]
  /\ UNCHANGED <<entry, console, keys, todo>>

EntryFullAtEnd(charcount) == charcount >= MIN_CAPACITY

(* One byte of an entry is never used by a line that is not interrupted.   *)
EntryFull(charcount) == charcount >= MIN_CAPACITY - 1

TestCapacity(t) ==
  /\ At(t, "test")
  /\ Goto(t, IF EntryFull(entry[loc[t].tail].charcount) THEN "alloc" ELSE "fetch")
  /\ UNCHANGED <<entry, console, keys, todo>>

(* tail->data[tail->charcount++] = chr is three accesses.                  *)
FetchCount(t) ==
  /\ At(t, "fetch")
  /\ loc' = [loc EXCEPT ![t].pc = "count", ![t].index = entry[loc[t].tail].charcount]
  /\ UNCHANGED <<entry, console, keys, todo>>

StoreCount(t) ==
  /\ At(t, "count") /\ Goto(t, "store")
  /\ entry' = [entry EXCEPT ![loc[t].tail].charcount = loc[t].index + 1]
  /\ UNCHANGED <<console, keys, todo>>

StoreChar(t) ==
  /\ At(t, "store") /\ Return(t)
  /\ entry' = [entry EXCEPT ![loc[t].tail].data[loc[t].index] = loc[t].chr]
  /\ UNCHANGED <<console, keys, todo>>

-----------------------------------------------------------------------------
(* add_entry.  A line about to call kmalloc or inside it is at "alloc".    *)
(* The handler that comes then calls kmalloc before the main line's call,  *)
(* or inside it.                                                           *)
Kmalloc(t, entries) ==
  \/ t = "main" /\ given' = {} /\ UNCHANGED reentered
  \/ t = "isr" /\ UNCHANGED kmallocs
  \/ t = "isr" /\ loc["main"].pc = "alloc" /\ given' = given \cup entries /\ reentered' = TRUE

(* kmalloc returns zeroed memory, or 0: putchar then returns.              *)
Allocate(t) ==
  /\ At(t, "alloc") /\ Len(entry) < MaxEntries /\ entry' = Append(entry, Zeroed)
  /\ loc' = [loc EXCEPT ![t].pc = "link", ![t].new = Len(entry) + 1]
  /\ Kmalloc(t, {Len(entry) + 1}) /\ UNCHANGED <<console, keys, todo>>

Refuse(t) ==
  /\ At(t, "alloc") /\ Len(entry) = MaxEntries /\ Return(t)
  /\ Kmalloc(t, {}) /\ UNCHANGED <<entry, console, keys, todo>>

(* The main line had found its block when the handler took the same one:   *)
(* it marks and zeroes it once more, and the entry has two owners.         *)
AllocateTwice ==
  /\ At("main", "alloc") /\ Kmalloc("main", {}) /\ UNCHANGED <<console, keys, todo>>
  /\ \E e \in given : /\ entry' = [entry EXCEPT ![e] = Zeroed]
                     /\ loc' = [loc EXCEPT !["main"].pc = "link", !["main"].new = e]

BeforeNewest(new) == IF last = Null THEN Null ELSE new

BeforeSkipping(new) == IF last = Null THEN Null ELSE entry[last].prev

(* entry->prev = console->last.                                            *)
Before(new) == last

LinkBack(t) ==
  /\ At(t, "link") /\ Goto(t, IF last = Null THEN "last" ELSE "next")
  /\ entry' = [entry EXCEPT ![loc[t].new].prev = Before(loc[t].new)]
  /\ first' = IF last = Null THEN loc[t].new ELSE first
  /\ UNCHANGED <<last, keys, todo>>

(* console->last is read again, and may be another entry by now.           *)
LinkNext(t) ==
  /\ At(t, "next") /\ Goto(t, "last")
  /\ entry' = [entry EXCEPT ![last].next = loc[t].new]
  /\ UNCHANGED <<console, keys, todo>>

SetLast(t) ==
  /\ At(t, "last") /\ Goto(t, "reset") /\ last' = loc[t].new
  /\ UNCHANGED <<entry, first, keys, todo>>

ResetCount(t) ==
  /\ At(t, "reset") /\ Goto(t, "clear")
  /\ entry' = [entry EXCEPT ![loc[t].new].charcount = 0, ![loc[t].new].next = Null]
  /\ UNCHANGED <<console, keys, todo>>

(* The memset.  putchar then stores into the new entry; if it is the first *)
(* of the console, the test of the capacity is still to come.              *)
ClearData(t) ==
  /\ At(t, "clear")
  /\ loc' = [loc EXCEPT ![t].pc = IF loc[t].tail = Null THEN "test" ELSE "fetch",
                        ![t].tail = loc[t].new]
  /\ entry' = [entry EXCEPT ![loc[t].new].data = Zeroed.data]
  /\ UNCHANGED <<console, keys, todo>>

-----------------------------------------------------------------------------
Putchar(t) ==
  \/ ReadTail(t) \/ TestCapacity(t) \/ FetchCount(t) \/ StoreCount(t) \/ StoreChar(t)
  \/ LinkBack(t) \/ LinkNext(t) \/ SetLast(t) \/ ResetCount(t) \/ ClearData(t)
Next ==
  \/ /\ (\E c \in Chars : PrintChar(c)) \/ KeyPress \/ PrintKey \/ \E t \in Line : Putchar(t)
     /\ UNCHANGED kmallocs
  \/ (\E t \in Line : Allocate(t) \/ Refuse(t)) \/ AllocateTwice
Spec == Init /\ [][Next]_vars

-----------------------------------------------------------------------------
(* Every store of a character hits its entry, although the test of the     *)
(* capacity may be out of date by then: the handler can fill the entry in  *)
(* between, and the byte kept spare takes the one character that is late.  *)
(* It is so in an entry with two owners too.                               *)
StoreInBounds == \A t \in Line : loc[t].pc = "store" => loc[t].index < MIN_CAPACITY

(* The n-th entry back from the last one: redraw's walk.                   *)
Walk[n \in Nat] ==
  IF n = 0 THEN last ELSE IF Walk[n - 1] = Null THEN Null ELSE entry[Walk[n - 1]].prev

(* redraw's walk from the last entry ends at the first one, whatever the   *)
(* handler linked in the middle of the main line's add_entry, as long as   *)
(* no kmalloc ran inside another: an entry given twice is before itself.   *)
WalkEnds == last # Null /\ ~reentered =>
  /\ \E n \in 0..(MaxEntries - 1) : Walk[n] = first
  /\ entry[first].prev = Null
  /\ \A i \in 1..Len(entry) : entry[i].charcount <= MIN_CAPACITY

(* What the main line printed: of the first n characters of an entry, and  *)
(* of the last n entries, in the order they are on the screen.             *)
Kept(data) ==
  LET kept[n \in Nat] == IF n = 0 THEN <<>>
                         ELSE IF data[n - 1] \in Chars THEN Append(kept[n - 1], data[n - 1])
                         ELSE kept[n - 1]
  IN kept
EntryText(e) == Kept(entry[e].data)[entry[e].charcount]
Text[n \in Nat] ==
  IF n = 0 THEN <<>>
  ELSE IF Walk[n - 1] = Null THEN Text[n - 1] ELSE EntryText(Walk[n - 1]) \o Text[n - 1]
MainText == Text[MaxEntries]

(* For the main line the log is a TextLog whatever the handler does, but   *)
(* for a kmalloc inside another: the races of putchar and add_entry lose   *)
(* text of the handler only.                                               *)
MainLog == INSTANCE TextLog WITH
  Char <- Chars, None <- "zero", log <- MainText, out <- loc["main"].chr
LogSpec == MainLog!Init /\ [][MainLog!Next \/ reentered']_<<MainText, loc["main"].chr>>

=============================================================================
