---------------------------- MODULE MCObjLoader ----------------------------
(***************************************************************************)
(* Object files as a compiler makes them from obj.c: sections of zero, one *)
(* or more 32-byte pages, calls within .text, references to .rodata and    *)
(* .data, up to two uses of an external function, and relocations of       *)
(* types that the loaders do not list.                                     *)
(***************************************************************************)
EXTENDS ObjLoader, TLC

\* One reference is one relocation on x86-64; an address is two on AArch64.
Relocs(arch, r, off) ==
    LET Make(t, o, a) == [fn |-> r.fn, use |-> r.use, type |-> t, off |-> o, sec |-> r.sec,
                          val |-> r.val, name |-> r.name, add |-> a]
    IN  IF arch = "x86" THEN <<Make(IF r.use = "call" THEN "PLT32" ELSE "PC32", off, -4)>>
        ELSE IF r.use = "call" THEN <<Make("CALL26", off, 0)>>
        ELSE <<Make("ADR_PREL_PG_HI21", off, 0), Make("ADD_ABS_LO12_NC", off + 4, 0)>>

Sequence(arch, refs) ==
    LET all[n \in 0 .. Len(refs)] == IF n = 0 THEN <<>> ELSE all[n - 1] \o Relocs(arch, refs[n], 4 * Len(all[n - 1]) + 4)
    IN  all[Len(refs)]

Ref(fn, use, sec, val, name) == [fn |-> fn, use |-> use, sec |-> sec, val |-> val, name |-> name]

\* obj.c with its variable and string at offset o, and calls of other
\* functions from say_hello.
References(o, ext) ==
    <<Ref("add10", "call", ".text", 0, ""), Ref("get_hello", "load", ".rodata", o, ""),
      Ref("get_var", "load", ".data", o, ""), Ref("set_var", "store", ".data", o, "")>>
    \o [n \in 1 .. Len(ext) |-> Ref("say_hello", "call", "UNDEF", 0, ext[n])]

AllFuncs == [f \in {"add5", "add10", "get_hello", "get_var", "set_var", "say_hello"} |->
               IF f = "add5" THEN 0 ELSE 4]

ObjectOf(arch, text, data, rodata, o, ext, none) ==
    LET relocs == IF none THEN <<>> ELSE Sequence(arch, References(o, ext))
    IN  [arch |-> arch, funcs |-> AllFuncs, relocs |-> relocs,
         size |-> (".symtab" :> 1 @@ ".strtab" :> 1 @@ ".text" :> text @@ ".data" :> data
                   @@ ".rodata" :> rodata @@ ".rela.text" :> Len(relocs))]

\* On AArch64 the example's own object: sections within four pages and its
\* symbols at their start.
Shapes ==
    [arch : {"x86"}, o : {0, 4}, text : {48, 64, 68}, data : {0, 8, 32, 36}, rodata : {0, 8, 32}]
    \cup [arch : {"arm"}, o : {0}, text : {48, 64}, data : {0, 8, 32}, rodata : {0, 8, 32}]

\* A compiler that does not make position independent code moves the address
\* of the string (R_X86_64_32); one that optimizes loads through an ADRP.
Otherwise(object) ==
    [object EXCEPT !.relocs =
       [k \in DOMAIN @ |->
          IF @[k].fn = "get_hello" /\ @[k].type = "PC32" THEN [@[k] EXCEPT !.type = "32", !.add = 0]
          ELSE IF @[k].fn = "get_var" /\ @[k].type = "ADD_ABS_LO12_NC"
               THEN [@[k] EXCEPT !.type = "LDST32_ABS_LO12_NC"]
          ELSE @[k]]]

MCObjects ==
    {ObjectOf(s.arch, s.text, s.data, s.rodata, s.o, ext, none) :
        s \in Shapes, ext \in {<<>>, <<"puts">>, <<"puts", "puts">>, <<"printf">>}, none \in BOOLEAN}
    \cup {[ObjectOf(s.arch, s.text, s.data, s.rodata, s.o, <<"puts">>, FALSE)
             EXCEPT !.funcs = [f \in {"add5"} |-> 0]] : s \in Shapes}
    \cup {Otherwise(ObjectOf(s.arch, s.text, s.data, s.rodata, s.o, <<"puts">>, FALSE)) : s \in Shapes}

\* The same with the variable and the string behind another one.
MCFarObjects == {ObjectOf("arm", 48, 8, 8, 4, <<"puts">>, FALSE)}
=============================================================================
