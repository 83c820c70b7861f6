----------------------------- MODULE ElfLoader ------------------------------
(***************************************************************************)
(* The ELF loader (progman/elf.c): load_driver_bin checks an image,        *)
(* places and copies it, relocates the copy and makes its passport;        *)
(* get_elf_symbol looks a name up in a loaded image.  Of an image the      *)
(* model keeps                                                             *)
(*   elf      the header is one the loader accepts                         *)
(*   parts    which of the three sections it needs the image has           *)
(*   rels     the relocations: type, name, and whether the image itself    *)
(*            defines the name (st_shndx # 0)                              *)
(*   exports  the names it defines for the kernel to find                  *)
(* and of the copy what each relocated word holds.  There is no paging: a  *)
(* null pointer reads and writes the words at address 0, where the BIOS    *)
(* left its interrupt vectors.                                             *)
(***************************************************************************)
EXTENDS Integers, Sequences

CONSTANTS
  KernelNames,   \* the names resolve_symbol knows
  MaxFailures    \* allocations that fail, a bound

VARIABLES
  at,        \* where the boot's driver code is
  image,     \* the image being loaded
  loaded,    \* what the relocated words of its copy hold
  rel,       \* the relocation process_relocations has reached
  low,       \* the first words of memory: the BIOS's, or a passport's
  failures   \* allocations that failed so far (a bound's counter)

loading == <<at, image, loaded, rel, low, failures>>

Null == <<>>
Parts == {".rel.dyn", ".dynsym", ".dynstr"}
R_386_RELATIVE == "RELATIVE"
Kinds == {"GLOB_DAT", "JMP_SLOT", R_386_RELATIVE}

(* An allocation returned 0.                                               *)
OutOfMemory == failures < MaxFailures /\ failures' = failures + 1

resolve_symbol(n) == IF n \in KernelNames THEN <<"kernel", n>> ELSE Null

(* dynsym also lists the names the image imports, with value 0: asked for  *)
(* one of these, get_elf_symbol returns the image's first byte.            *)
Imports(i) == {i.rels[k].name : k \in {j \in DOMAIN i.rels : ~i.rels[j].own /\ i.rels[j].type # R_386_RELATIVE}}
get_elf_symbol(i, n) ==
  IF n \in i.exports THEN <<"image", n>> ELSE IF n \in Imports(i) THEN <<"image", "first byte">> ELSE Null

-----------------------------------------------------------------------------
LoadInit ==
  /\ at = "check" /\ loaded = <<>> /\ rel = 1 /\ low = "bios" /\ failures = 0

(* load_driver_bin returns 0; what it had placed stays allocated.          *)
FailLoad == at' = "refused" /\ loaded' = <<>> /\ rel' = 1 /\ UNCHANGED image

CheckHeader == at = "check" /\ ~image.elf /\ FailLoad /\ UNCHANGED <<low, failures>>
NoPlace == at = "check" /\ image.elf /\ OutOfMemory /\ FailLoad /\ UNCHANGED low

(* The copy is cleared, then filled with what the linker left in the file. *)
(* A missing section leaves a null pointer, and process_relocations takes  *)
(* what lies at address 0 for a section header.                            *)
Place ==
  /\ at = "check" /\ image.elf
  /\ loaded' = [k \in DOMAIN image.rels |-> <<"file", image.rels[k].name>>] /\ rel' = 1
  /\ at' = IF image.parts = Parts THEN "relocate" ELSE "astray"
  /\ UNCHANGED <<image, low, failures>>

(* One entry of .rel.dyn: the address, null if nobody knows the name.      *)
Address(r) == IF r.own THEN <<"image", r.name>> ELSE resolve_symbol(r.name)

UnresolvedNever(r) == r.type \notin Kinds

Unresolved(r) == (Address(r) = Null /\ r.type # R_386_RELATIVE) \/ r.type \notin Kinds

(* RELATIVE adds the image's place to what the word holds.                 *)
Word(r, old) == IF r.type = R_386_RELATIVE THEN <<"image", old[2]>> ELSE Address(r)

process_relocations ==
  /\ at = "relocate" /\ rel \in DOMAIN image.rels
  /\ LET r == image.rels[rel] IN
     \/ Unresolved(r) /\ FailLoad
     \/ /\ ~Unresolved(r) /\ loaded' = [loaded EXCEPT ![rel] = Word(r, @)] /\ rel' = rel + 1
        /\ UNCHANGED <<at, image>>
  /\ UNCHANGED <<low, failures>>

RelocatedEarly == rel >= Len(image.rels)

Relocated == rel \notin DOMAIN image.rels

(* The passport.  Without memory for it its four words go to address 0,    *)
(* and the null passport means failure.                                    *)
Passport ==
  /\ at = "relocate" /\ Relocated /\ at' = "register" /\ UNCHANGED <<image, loaded, rel, low, failures>>
NullPassport ==
  /\ at = "relocate" /\ Relocated /\ OutOfMemory /\ low' = "passport" /\ FailLoad

load_driver_bin == CheckHeader \/ NoPlace \/ Place \/ process_relocations \/ Passport \/ NullPassport

(* What a dynamic linker owes a relocation, and null where it owes refusal *)
Owed(r) ==
  CASE r.type = R_386_RELATIVE -> <<"image", r.name>>
    [] r.type \in {"GLOB_DAT", "JMP_SLOT"} /\ r.own -> <<"image", r.name>>
    [] r.type \in {"GLOB_DAT", "JMP_SLOT"} /\ ~r.own /\ r.name \in KernelNames -> <<"kernel", r.name>>
    [] OTHER -> Null

=============================================================================
