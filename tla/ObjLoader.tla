----------------------------- MODULE ObjLoader -----------------------------
(***************************************************************************)
(* 2021-03-obj-file: five loaders that map the sections of obj.o, resolve  *)
(* its relocations, set the page protections and call its functions.       *)
(*   1      .text only            2, 3     x86-64, 3 with a jump table     *)
(*   4_2, 4_3  the same as 2 and 3 for AArch64                             *)
(* A section is its size, a symbol a section and an offset, a relocation   *)
(* the place it patches and what it refers to.  An instruction is reduced  *)
(* to the fields that a relocation changes.                                *)
(***************************************************************************)
EXTENDS Integers, Sequences, FiniteSets

CONSTANTS
    Loaders,      \* some of "1", "2", "3", "4_2", "4_3"
    Objects,      \* object files, each with its arch
    page_size,
    TextBase,     \* where mmap puts the copies
    MyPuts,       \* address of my_puts
    W16, W32      \* numbers a movk immediate and a uint32_t can take

ASSUME ObjAssumption ==
    /\ page_size \in Nat \ {0} /\ W16 \in Nat \ {0} /\ W32 \in Nat \ {0}
    /\ TextBase \in Nat /\ TextBase % page_size = 0 /\ MyPuts \in Nat

VARIABLES
    loader, obj,
    pc,               \* "load", "parse", "reloc", "protect", "run", "done", "exit", "fault"
    text_runtime_base, data_runtime_base, rodata_runtime_base,
    num_ext_symbols, jumptable, curr_jmp_idx,
    jumps,            \* contents of the jump table
    i,                \* relocation, then function, at hand
    patched,          \* the fields the relocations wrote
    prot              \* protection of the pages mapped: "rw", "rx", "r"

baseVars == <<text_runtime_base, data_runtime_base, rodata_runtime_base, num_ext_symbols, jumptable>>
vars == <<loader, obj, pc, baseVars, curr_jmp_idx, jumps, i, patched, prot>>

Init ==
    /\ loader \in Loaders /\ obj \in Objects
    /\ obj.arch = IF loader \in {"4_2", "4_3"} THEN "arm" ELSE "x86"
    /\ loader = "1" => obj.relocs = <<>>    \* its obj.c needs none
    /\ pc = "load"
    /\ text_runtime_base = 0 /\ data_runtime_base = 0 /\ rodata_runtime_base = 0
    /\ num_ext_symbols = 0 /\ jumptable = 0
    /\ curr_jmp_idx = 0 /\ jumps = <<>> /\ i = 1 /\ patched = <<>> /\ prot = <<>>

External(k) == obj.relocs[k].sec = "UNDEF"

\* (n + (page_size - 1)) & ~(page_size - 1)
page_align(n) == ((n + page_size - 1) \div page_size) * page_size

\* A section of size 0 is not found.
lookup_section(name) == obj.size[name] > 0

Exit(why) ==
    /\ pc' = why
    /\ UNCHANGED <<loader, obj, baseVars, curr_jmp_idx, jumps, i, patched, prot>>

\* open, fstat and mmap of obj.o.
load_obj ==
    /\ pc = "load"
    /\ \/ Exit("exit")
       \/ Exit("parse")

-----------------------------------------------------------------------------
(* parse_obj: sections, layout, copies *)

sizeof_ext_jump == 16

\* One per relocation against a symbol without a section.
count_external_symbols == Cardinality({k \in DOMAIN obj.relocs : External(k)})

\* Pages of length bytes mapped at address, all readable and writable.
Mapped(address, length) ==
    [p \in address \div page_size .. (address + page_align(length)) \div page_size - 1 |-> "rw"]

\* Broken variant: the page behind the region is protected too.
ProtectedBeyond(pages, address, length, how) ==
    [p \in DOMAIN pages |->
       IF p * page_size \in address .. address + page_align(length) THEN how ELSE pages[p]]

\* mprotect
Protected(pages, address, length, how) ==
    [p \in DOMAIN pages |->
       IF p * page_size \in address .. address + page_align(length) - 1 THEN how ELSE pages[p]]

\* Loader 1 copies .text and makes it executable at once.
parse_obj_1 ==
    /\ pc = "parse" /\ loader = "1"
    /\ \/ Exit("exit")
       \/ /\ \A s \in {".symtab", ".strtab", ".text"} : lookup_section(s)
          /\ text_runtime_base' = TextBase
          /\ prot' = Protected(Mapped(TextBase, obj.size[".text"]), TextBase, obj.size[".text"], "rx")
          /\ pc' = "run"
          /\ UNCHANGED <<loader, obj, data_runtime_base, rodata_runtime_base, num_ext_symbols,
                         jumptable, curr_jmp_idx, jumps, i, patched>>

\* The copies follow each other, each on pages of its own.
Layout(ext) ==
    LET data   == TextBase + page_align(obj.size[".text"])
        rodata == data + page_align(obj.size[".data"])
        table  == rodata + page_align(obj.size[".rodata"])
    IN  /\ text_runtime_base' = TextBase /\ data_runtime_base' = data
        /\ rodata_runtime_base' = rodata
        /\ num_ext_symbols' = ext /\ jumptable' = table
        /\ prot' = Mapped(TextBase, table + page_align(sizeof_ext_jump * ext) - TextBase)

\* Loaders 2 and 4_2: .text, .data and .rodata.
parse_obj_2 ==
    /\ pc = "parse" /\ loader \in {"2", "4_2"}
    /\ \/ Exit("exit")
       \/ /\ \A s \in {".symtab", ".strtab", ".text", ".data", ".rodata"} : lookup_section(s)
          /\ Layout(0)
          /\ pc' = "reloc"
          /\ UNCHANGED <<loader, obj, curr_jmp_idx, jumps, i, patched>>

\* Loaders 3 and 4_3: the jump table comes last.
parse_obj_3 ==
    /\ pc = "parse" /\ loader \in {"3", "4_3"}
    /\ \/ Exit("exit")
       \/ /\ \A s \in {".symtab", ".strtab", ".text", ".data", ".rodata", ".rela.text"} : lookup_section(s)
          /\ Layout(count_external_symbols)
          /\ pc' = "reloc"
          /\ UNCHANGED <<loader, obj, curr_jmp_idx, jumps, i, patched>>

-----------------------------------------------------------------------------
(* do_text_relocations, one relocation a step *)

section_runtime_base(sec) ==
    CASE sec = ".text" -> text_runtime_base
      [] sec = ".data" -> data_runtime_base
      [] sec = ".rodata" -> rodata_runtime_base

patch_offset(k) == text_runtime_base + obj.relocs[k].off
Known(k) == obj.relocs[k].sec \in {".text", ".data", ".rodata"}
Local(k) == section_runtime_base(obj.relocs[k].sec) + obj.relocs[k].val

PageOf(a) == a \div page_size
MappedAt(a) == PageOf(a) \in DOMAIN prot

\* The types the switches list; "32" and "LDST32_ABS_LO12_NC" are two that a
\* compiler also emits for such an obj.c.
Listed(k) ==
    obj.relocs[k].type \in {"PC32", "PLT32", "CALL26", "ADD_ABS_LO12_NC", "ADR_PREL_PG_HI21"}

\* The instruction as the assembler left it, its field empty.
Assembled(k) ==
    [op |-> CASE obj.relocs[k].type \in {"PC32", "PLT32"} -> "rel32"
              [] obj.relocs[k].type = "32" -> "abs32"
              [] obj.relocs[k].type = "CALL26" -> "bl"
              [] obj.relocs[k].type = "ADR_PREL_PG_HI21" -> "adrp"
              [] obj.relocs[k].type = "ADD_ABS_LO12_NC" -> "add"
              [] obj.relocs[k].type = "LDST32_ABS_LO12_NC" -> "ldr",
     imm |-> 0]

\* Broken variant: S + A, as for an absolute relocation.
PatchAbsolute(k, symbol_address) ==
    [op |-> "rel32", imm |-> (symbol_address + obj.relocs[k].add) % W32]

\* R_X86_64_PC32 and R_X86_64_PLT32: S + A - P into a uint32_t.
PatchX86(k, symbol_address) ==
    [op |-> "rel32", imm |-> (symbol_address + obj.relocs[k].add - patch_offset(k)) % W32]

\* R_AARCH64_ADR_PREL_PG_HI21: pages between S + A and P.  immlo takes the two
\* low bits; immhi is shifted by 22 and ends up in the opcode (of 64 pages and
\* more in bits the opcode has set, but never in the field).
AdrPages(k, symbol_address) == (PageOf(symbol_address + obj.relocs[k].add) - PageOf(patch_offset(k))) % W32

PatchAdr(k, symbol_address) ==
    LET val == AdrPages(k, symbol_address)
    IN  IF val < 4 THEN [op |-> "adrp", imm |-> val] ELSE [op |-> "other", imm |-> 0]

\* R_AARCH64_ADD_ABS_LO12_NC: the byte at S + A, too short to reach bits 10 to
\* 21, so the immediate is 0; and without a break the bits of the pages go
\* into the opcode.
PatchAdd(k, symbol_address) ==
    LET val == AdrPages(k, symbol_address)
    IN  [op |-> IF val >= 4 THEN "other" ELSE <<"add", "adds", "sub", "subs">>[val + 1], imm |-> 0]

PatchArm(k, symbol_address) ==
    CASE obj.relocs[k].type = "CALL26" ->
            [op |-> "bl", imm |-> ((symbol_address + obj.relocs[k].add - patch_offset(k)) \div 4) % W32]
      [] obj.relocs[k].type = "ADD_ABS_LO12_NC" -> PatchAdd(k, symbol_address)
      [] obj.relocs[k].type = "ADR_PREL_PG_HI21" -> PatchAdr(k, symbol_address)

\* A type that the switch does not list is passed over without an error.
Patch(k, symbol_address) ==
    patched' = Append(patched, IF ~Listed(k) THEN Assembled(k)
                               ELSE IF obj.arch = "arm" THEN PatchArm(k, symbol_address)
                               ELSE PatchX86(k, symbol_address))

\* A symbol in a section of the object; every other one ends the program.
RelocateLocal ==
    /\ Known(i)
    /\ Patch(i, Local(i))
    /\ i' = i + 1
    /\ UNCHANGED <<loader, obj, pc, baseVars, curr_jmp_idx, jumps, prot>>

\* Loaders 2 and 4_2 have no .rela.text to work on or know every symbol.
do_text_relocations_2 ==
    /\ pc = "reloc" /\ loader \in {"2", "4_2"}
    /\ \/ ~lookup_section(".rela.text") /\ Exit("exit")
       \/ i <= Len(obj.relocs) /\ ~Known(i) /\ Exit("exit")
       \/ i <= Len(obj.relocs) /\ RelocateLocal
       \/ lookup_section(".rela.text") /\ i > Len(obj.relocs) /\ Exit("protect")

\* The entry of the jump table: an address and a JMP through it on x86-64,
\* three moves of 16 bits and a BR on AArch64.
EntryAddress(n) == jumptable + n * sizeof_ext_jump
InstrOffset == IF obj.arch = "arm" THEN 0 ELSE 8
Entry == IF obj.arch = "arm"
         THEN (MyPuts % W16) + W16 * ((MyPuts \div W16) % W16) + W16 * W16 * ((MyPuts \div (W16 * W16)) % W16)
         ELSE MyPuts

\* An external symbol gets the next entry, if lookup_ext_function knows it.
RelocateExternal ==
    /\ External(i)
    /\ IF obj.relocs[i].name # "puts" THEN Exit("exit")
       ELSE IF ~MappedAt(EntryAddress(curr_jmp_idx)) THEN Exit("fault")
       ELSE /\ jumps' = Append(jumps, Entry)
            /\ Patch(i, EntryAddress(curr_jmp_idx) + InstrOffset)
            /\ curr_jmp_idx' = curr_jmp_idx + 1 /\ i' = i + 1
            /\ UNCHANGED <<loader, obj, pc, baseVars, prot>>

do_text_relocations_3 ==
    /\ pc = "reloc" /\ loader \in {"3", "4_3"}
    /\ \/ i <= Len(obj.relocs) /\ RelocateExternal
       \/ i <= Len(obj.relocs) /\ ~External(i) /\ ~Known(i) /\ Exit("exit")
       \/ i <= Len(obj.relocs) /\ RelocateLocal
       \/ i > Len(obj.relocs) /\ Exit("protect")

\* The mprotect calls that end parse_obj; the first that fails ends the program.
Protect ==
    /\ pc = "protect"
    /\ \/ Exit("exit")
       \/ /\ prot' = LET a == Protected(prot, text_runtime_base, obj.size[".text"], "rx")
                         b == Protected(a, rodata_runtime_base, obj.size[".rodata"], "r")
                     IN  Protected(b, jumptable, sizeof_ext_jump * num_ext_symbols, "rx")
          /\ pc' = "run" /\ i' = 1
          /\ UNCHANGED <<loader, obj, baseVars, curr_jmp_idx, jumps, patched>>

-----------------------------------------------------------------------------
(* execute_funcs *)

Funcs_1 == <<"add5", "add10">>
Funcs_2 == Funcs_1 \o <<"get_hello", "get_var", "set_var", "get_var">>
Funcs_3 == Funcs_2 \o <<"say_hello">>
Funcs == CASE loader = "1" -> Funcs_1 [] loader \in {"2", "4_2"} -> Funcs_2 [] loader \in {"3", "4_3"} -> Funcs_3

Signed(n, w) == IF n < w \div 2 THEN n ELSE n - w

\* Where the processor ends up with what relocation k left behind: a jump or
\* load relative to the next instruction, or an absolute one, on x86-64; on
\* AArch64 a branch, or the address an ADRP and the ADD or the load behind it
\* compute.  -1 is nowhere.
Target(k) ==
    LET p == patch_offset(k)
    IN  CASE patched[k].op = "rel32" -> p + 4 + Signed(patched[k].imm, W32)
          [] patched[k].op = "abs32" -> Signed(patched[k].imm, W32)
          [] patched[k].op = "bl" -> p + 4 * Signed(patched[k].imm, W32)
          [] patched[k].op = "adrp" /\ patched[k + 1].op # "other" ->
                (PageOf(p) + patched[k].imm) * page_size
                + (IF patched[k + 1].op \in {"sub", "subs"} THEN -patched[k + 1].imm ELSE patched[k + 1].imm)
          [] OTHER -> -1

\* An ADRP is completed by the instruction behind it.
Completes(k) == obj.relocs[k].type \in {"ADD_ABS_LO12_NC", "LDST32_ABS_LO12_NC"}

Refs(f) == {k \in DOMAIN obj.relocs : obj.relocs[k].fn = f /\ ~Completes(k)}

\* The pages a reference touches allow what it does there.
Allowed(k) ==
    MappedAt(Target(k)) /\ prot[PageOf(Target(k))] \in (CASE obj.relocs[k].use = "call" -> {"rx"}
                                                       [] obj.relocs[k].use = "load" -> {"rw", "r", "rx"}
                                                       [] obj.relocs[k].use = "store" -> {"rw"})

\* Where the function symbol of this name lies in the copy of .text.
lookup_function(name) == text_runtime_base + obj.funcs[name]

\* The functions are looked up and called one after the other; the first that
\* is not found ends the program.
execute_funcs ==
    /\ pc = "run"
    /\ IF i > Len(Funcs) THEN Exit("done")
       ELSE IF Funcs[i] \notin DOMAIN obj.funcs THEN Exit("exit")
       ELSE IF /\ prot[PageOf(lookup_function(Funcs[i]))] = "rx"
               /\ \A k \in Refs(Funcs[i]) : Allowed(k)
            THEN i' = i + 1 /\ UNCHANGED <<loader, obj, pc, baseVars, curr_jmp_idx, jumps, patched, prot>>
            ELSE Exit("fault")

Terminated == pc \in {"done", "exit", "fault"} /\ UNCHANGED vars

Next ==
    \/ load_obj \/ parse_obj_1 \/ parse_obj_2 \/ parse_obj_3
    \/ do_text_relocations_2 \/ do_text_relocations_3 \/ Protect
    \/ execute_funcs \/ Terminated

Spec == Init /\ [][Next]_vars

-----------------------------------------------------------------------------
TypeOK ==
    /\ pc \in {"load", "parse", "reloc", "protect", "run", "done", "exit", "fault"}
    /\ text_runtime_base \in {0, TextBase} /\ {data_runtime_base, rodata_runtime_base, jumptable} \subseteq Nat
    /\ curr_jmp_idx \in 0 .. num_ext_symbols /\ Len(jumps) = curr_jmp_idx
    /\ i \in 1 .. Len(obj.relocs) + Len(Funcs_3) + 1 /\ Len(patched) <= Len(obj.relocs)
    /\ \A p \in DOMAIN prot : prot[p] \in {"rw", "rx", "r"}

\* What the object means by reference k: S + A, which on x86-64 counts from
\* the end of the field.
Meant(k) ==
    LET past == IF obj.arch = "x86" THEN 4 ELSE 0
        nth  == Cardinality({n \in 1 .. k - 1 : External(n)})
    IN  IF External(k) THEN EntryAddress(nth) + InstrOffset + obj.relocs[k].add + past
                       ELSE Local(k) + obj.relocs[k].add + past

\* Every instruction with a relocation that the switch lists leads to the
\* symbol it names, wherever the sections and the jump table came to lie, and
\* an external one through an entry that leads to my_puts.  On AArch64
\* (comment at 4/2/loader.c:198, "S + A", and 4/2/loader.c:205,
\* "Page(S+A)-Page(P)") this includes the ADD that completes an ADRP.
ReferencesResolve ==
    /\ pc \in {"protect", "run", "done"} /\ loader # "1" =>
          \A k \in DOMAIN obj.relocs :
              Listed(k) /\ ~Completes(k) => Target(k) = Meant(k)
    /\ \A n \in DOMAIN jumps : jumps[n] = MyPuts

\* No write, load, store or call of the loader or of the functions it calls
\* meets a page that is not mapped or does not allow it: the copies and the
\* jump table have room and pages of their own, and .data stays writable.  A
\* relocation that the switch passes over may lead a function anywhere.
NoFault == TypeOK /\ (pc = "fault" => \E k \in DOMAIN obj.relocs : ~Listed(k))
=============================================================================
