------------------------------ MODULE Library -------------------------------
(***************************************************************************)
(* memset, memcpy and memmove with and without SSE (util/strings.c), and   *)
(* the division and the digits of the number printer (util/earlyutil.c,    *)
(* console/console.c).  A copy goes byte by byte to a boundary of Block    *)
(* (16), then by blocks through the register xmm0, then byte by byte.  The *)
(* interrupt stubs do not save xmm0: a handler that copies in between      *)
(* leaves its own bytes in it.  At the start each byte of the memory holds *)
(* its own address.                                                        *)
(***************************************************************************)
EXTENDS Integers, Sequences

CONSTANTS
  Block,     \* bytes of xmm0: 16
  Top,       \* the last address
  Longest,   \* bytes of a call, a bound
  Bits,      \* of a uint64_t: 64
  Bases      \* the bases numbers are printed in

(* 1 << k.                                                                 *)
Pow[k \in 0..Bits] == IF k = 0 THEN 1 ELSE 2 * Pow[k - 1]

ASSUME LibraryAssumption ==
  /\ Block \in Nat \ {0} /\ {Top, Longest} \subseteq Nat /\ Longest <= Top
  /\ Bits \in Nat \ {0} /\ Bases \subseteq 2..Pow[Bits - 1]

VARIABLES
  call,        \* the function and its arguments
  mem, d, s,   \* the memory, the two pointers
  left, chunks,
  phase,
  xmm,         \* what xmm0 holds
  clobbered,   \* a handler changed it between its load and its use (history)
  rest, owed,  \* print_uint: the innermost val, the digits the calls around it have yet to print
  quot, rem, bit,  \* udivmod64: q, r and the bits still to go
  digits       \* what a number printer printed

division == <<quot, rem, bit>>
printer == <<rest, owed, division, digits>>
library == <<call, mem, d, s, left, chunks, phase, xmm, clobbered, printer>>

Addresses == 0..Top
Fill == 200
Noise == 201
Lanes == 0..Block - 1
Copies == [fn : {"memset", "memcpy", "memmove"}, sse : BOOLEAN, dst : Addresses, src : Addresses, n : 0..Longest]
Prints ==
  [fn : {"print_uint32", "print_uint64"}, val : 0..Pow[Bits] - 1, base : Bases]
    \cup [fn : {"print_signed32", "print_signed64"}, val : -Pow[Bits - 1]..Pow[Bits - 1] - 1, base : Bases \cap {10}]

NoCall == [fn |-> "none"]
LibraryInit ==
  /\ call = NoCall /\ mem = [a \in Addresses |-> a] /\ d = 0 /\ s = 0 /\ left = 0 /\ chunks = 0
  /\ phase = "idle" /\ xmm = [i \in Lanes |-> Noise] /\ clobbered = FALSE
  /\ rest = 0 /\ owed = <<>> /\ quot = 0 /\ rem = 0 /\ bit = 0 /\ digits = <<>>

Backward == call.fn = "memmove" /\ call.dst > call.src
Aligned == d % Block = 0

-----------------------------------------------------------------------------
(* The call.  memmove goes backward from the ends if dst is above src;     *)
(* without SSE it starts there one byte too far.                           *)
Copy(c) ==
  /\ phase = "idle" /\ c.dst + c.n <= Top /\ c.src + c.n <= Top /\ (c.fn = "memset" => c.src = 0)
  /\ call' = c /\ left' = c.n
  /\ LET back == IF c.fn = "memmove" /\ c.dst > c.src THEN c.n ELSE 0 IN d' = c.dst + back /\ s' = c.src + back
  /\ phase' = CASE c.fn = "memmove" /\ c.dst = c.src -> "done"
                [] c.sse /\ (c.fn # "memmove" \/ c.dst # c.src) -> "align"
                [] OTHER -> "rep"
  /\ UNCHANGED <<mem, chunks, xmm, clobbered, printer>>

(* One byte, and both pointers one on.  The source of a memset is Fill.    *)
Byte(a, b) == mem' = [mem EXCEPT ![a] = IF call.fn = "memset" THEN Fill ELSE mem[b]]
Step ==
  /\ left' = left - 1
  /\ IF Backward THEN Byte(d - 1, s - 1) /\ d' = d - 1 /\ s' = s - 1
                 ELSE Byte(d, s) /\ d' = d + 1 /\ s' = s + 1

Align ==
  /\ phase = "align" /\ ~Aligned /\ left > 0 /\ Step /\ UNCHANGED <<call, chunks, phase, xmm, clobbered, printer>>

(* dec and jnz at the end of the block loop: a count of 0 does not stop it *)
(* for 2^32 blocks.  memset's loop tests its count first.                  *)
ToBlocks ==
  /\ phase = "align" /\ (Aligned \/ left = 0)
  /\ chunks' = left \div Block /\ left' = left % Block
  /\ phase' = IF chunks' = 0 THEN (IF call.fn = "memset" THEN "tail" ELSE "runaway")
              ELSE IF call.fn = "memset" THEN "broadcast" ELSE "load"
  /\ UNCHANGED <<call, mem, d, s, xmm, clobbered, printer>>

Broadcast ==
  /\ phase = "broadcast" /\ phase' = "store" /\ xmm' = [i \in Lanes |-> Fill]
  /\ UNCHANGED <<call, mem, d, s, left, chunks, clobbered, printer>>

Load ==
  /\ phase = "load" /\ phase' = "store"
  /\ LET from == IF Backward THEN s - Block ELSE s IN xmm' = [i \in Lanes |-> mem[from + i]] /\ s' = IF Backward THEN from ELSE s + Block
  /\ UNCHANGED <<call, mem, d, left, chunks, clobbered, printer>>

StopsOneEarly(k) == k <= 2

StopsAt(k) == k = 1

Store ==
  /\ phase = "store"
  /\ LET to == IF Backward THEN d - Block ELSE d IN
     /\ mem' = [a \in Addresses |-> IF a \in to..to + Block - 1 THEN xmm[a - to] ELSE mem[a]]
     /\ d' = IF Backward THEN to ELSE d + Block
  /\ chunks' = chunks - 1
  /\ phase' = IF StopsAt(chunks) THEN "tail" ELSE IF call.fn = "memset" THEN "store" ELSE "load"
  /\ UNCHANGED <<call, s, left, xmm, clobbered, printer>>

(* A handler that scrolls the screen, between two instructions.            *)
Interrupt ==
  /\ phase = "store" /\ ~clobbered /\ xmm' = [i \in Lanes |-> Noise] /\ clobbered' = TRUE
  /\ UNCHANGED <<call, mem, d, s, left, chunks, phase, printer>>

Rest ==
  /\ phase = "tail"
  /\ IF left > 0 THEN Step /\ UNCHANGED phase ELSE phase' = "done" /\ UNCHANGED <<mem, d, s, left>>
  /\ UNCHANGED <<call, chunks, xmm, clobbered, printer>>

(* rep stosb, rep movsb: the pointers move after the byte is copied, down  *)
(* when the direction flag is set.                                         *)
Rep ==
  /\ phase = "rep"
  /\ IF left = 0 THEN phase' = "done" /\ UNCHANGED <<mem, d, s, left>>
     ELSE /\ Byte(d, s) /\ left' = left - 1 /\ UNCHANGED phase
          /\ IF Backward THEN d' = d - 1 /\ s' = s - 1 ELSE d' = d + 1 /\ s' = s + 1
  /\ UNCHANGED <<call, chunks, xmm, clobbered, printer>>

-----------------------------------------------------------------------------
(* The signed printers print the absolute value: of the lowest number the  *)
(* first takes the wrapped negation, the second steps round it.            *)
Minus == -1
Negated32(v) == (-v) % Pow[Bits]
Negated64(v) == -(v + 1) + 1
Magnitude(p) ==
  IF p.val >= 0 THEN p.val ELSE IF p.fn = "print_signed32" THEN Negated32(p.val) ELSE Negated64(p.val)

copier == <<mem, d, s, left, chunks, xmm, clobbered>>

PrintNumber(p) ==
  /\ phase = "idle" /\ phase' = "number" /\ call' = p
  /\ rest' = Magnitude(p) /\ owed' = <<>> /\ digits' = IF p.val < 0 THEN <<Minus>> ELSE <<>>
  /\ UNCHANGED <<copier, division>>

(* print_uint32 and print_uint64: the leading digits first, by a call for  *)
(* the quotient; the second divides with udivmod64.                        *)
PrintTooFar(v, base) == v > base

PrintsMore(v, base) == v >= base
Wide == call.fn \in {"print_uint64", "print_signed64"}
Call32 ==
  /\ phase = "number" /\ PrintsMore(rest, call.base) /\ ~Wide
  /\ owed' = <<rest % call.base>> \o owed /\ rest' = rest \div call.base
  /\ UNCHANGED <<call, phase, copier, division, digits>>

Divide ==
  /\ phase = "number" /\ PrintsMore(rest, call.base) /\ Wide
  /\ phase' = "divide" /\ quot' = 0 /\ rem' = 0 /\ bit' = IF call.base = 0 THEN 0 ELSE Bits
  /\ UNCHANGED <<call, copier, rest, owed, digits>>

(* udivmod64: long division from the top bit, in words of Bits bits.       *)
Bit(v, i) == (v \div Pow[i]) % 2
udivmod64 ==
  /\ phase = "divide" /\ bit > 0 /\ bit' = bit - 1
  /\ LET r == ((2 * rem) % Pow[Bits]) + Bit(rest, bit - 1) IN
     IF r >= call.base THEN rem' = r - call.base /\ quot' = quot + Pow[bit - 1]
                       ELSE rem' = r /\ UNCHANGED quot
  /\ UNCHANGED <<call, phase, copier, rest, owed, digits>>

Call64 ==
  /\ phase = "divide" /\ bit = 0 /\ phase' = "number"
  /\ owed' = <<rem>> \o owed /\ rest' = quot
  /\ UNCHANGED <<call, copier, division, digits>>

(* The innermost call prints, and then the others on return.               *)
Putchars ==
  /\ phase = "number" /\ ~PrintsMore(rest, call.base) /\ phase' = "printed"
  /\ digits' = digits \o <<rest % call.base>> \o owed
  /\ UNCHANGED <<call, copier, rest, owed, division>>

PrintsOn == Call32 \/ Divide \/ udivmod64 \/ Call64 \/ Putchars

LibraryNext ==
  \/ (\E c \in Copies : Copy(c)) \/ (\E p \in Prints : PrintNumber(p))
  \/ Align \/ ToBlocks \/ Broadcast \/ Load \/ Store \/ Interrupt \/ Rest \/ Rep \/ PrintsOn

-----------------------------------------------------------------------------
(* The calls these functions are written for: memcpy's blocks do not       *)
(* overlap unless they move down, a copy by blocks has a whole block left  *)
(* after the boundary, and memmove without SSE moves down.  All of the     *)
(* kernel's calls are of this kind; memset takes any.                      *)
Whole(c) ==
  LET end == c.dst + c.n
      lead == IF c.fn = "memmove" /\ c.dst > c.src THEN end % Block ELSE (Block - (c.dst % Block)) % Block
  IN  c.n >= lead + Block
Supported(c) ==
  \/ c.fn = "memset"
  \/ c.fn = "memcpy" /\ (c.dst <= c.src \/ c.src + c.n <= c.dst) /\ (c.sse => Whole(c))
  \/ c.fn = "memmove" /\ (c.sse => Whole(c)) /\ (~c.sse => c.dst <= c.src)

(* Such a call writes exactly the bytes asked for, whatever the alignment  *)
(* of the ends, the length and the overlap, and never runs away; but not   *)
(* if a handler used xmm0 in the middle of it.                             *)
CopyExact ==
  call \in Copies /\ Supported(call) =>
    /\ phase # "runaway"
    /\ phase = "done" /\ ~clobbered =>
         mem = [a \in Addresses |->
                  IF a \notin call.dst..call.dst + call.n - 1 THEN a
                  ELSE IF call.fn = "memset" THEN Fill ELSE a - call.dst + call.src]

(* What digits stand for behind the number v.                              *)
Horner(v, shown, base) ==
  LET f[k \in 0..Len(shown)] == IF k = 0 THEN v ELSE f[k - 1] * base + shown[k] IN f

(* What is printed is the number: its sign, then digits of the base, no    *)
(* leading zero, also of the lowest number there is, and the same through  *)
(* the 64-bit division.                                                    *)
NumbersExact ==
  phase = "printed" =>
    LET shown == IF call.val < 0 THEN Tail(digits) ELSE digits
        value == Horner(0, shown, call.base)[Len(shown)]
    IN  /\ \A i \in DOMAIN shown : shown[i] \in 0..call.base - 1
        /\ shown[1] = 0 => Len(shown) = 1
        /\ call.val = IF call.val < 0 /\ digits[1] = Minus THEN -value ELSE value

=============================================================================
