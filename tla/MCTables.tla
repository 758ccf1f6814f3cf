------------------------------- MODULE MCTables -------------------------------
(***************************************************************************)
(* A user works on a symbol table and what refers to it, or on a section   *)
(* of another kind.                                                        *)
(***************************************************************************)
EXTENDS ElfSymbols, ElfEntries

MCNames == {"f", "g", "h"}
MCHash == [n \in MCNames |-> CASE n = "f" -> 2 [] n = "g" -> 4 [] OTHER -> 5]

MCFields == {<<"a">>, <<"b">>}
MCValues == {<<"v">>, <<"v", EQUALS, "w">>, <<>>}
MCNoteNames == {<<7>>, <<7, 8>>}
MCDescs == {<<>>, <<9>>, <<9, 9>>}
MCStrings == {[NewSection(0) EXCEPT !.type = "STRTAB"], add_string([NewSection(0) EXCEPT !.type = "STRTAB"], "libc").sec}
MCExisting ==
  [symbols |-> {<<>>},
   dynamic |-> {<<>>, <<[d_tag |-> 1, d_val |-> 1]>>, <<[d_tag |-> 9, d_val |-> 0]>>,
                <<[d_tag |-> 64, d_val |-> 64], [d_tag |-> 0, d_val |-> 0]>>},
   array |-> {<<>>, <<0, 1>>}, versym |-> {<<>>, <<1>>},
   note |-> {<<>>, <<2, 0, 1, 0, 3, 0, 7, 0, 9, 0>>, <<8, 0, 4, 0, 12, 0, 7, 0, 9, 0>>},
   modinfo |-> {<<>>, <<<<>>, <<"a", EQUALS, "z">>, <<>>>>, <<<<"b">>>>}]

TablesInit ==
  /\ SymbolsInit /\ EntriesInit
  /\ kind # "symbols" => rel_type = "REL"
  /\ kind = "symbols" => elf_class = 64 /\ ~need_conversion
  /\ kind # "dynamic" => strtab.size = 0

\* The hash section and the addends of the relocations do not meet: one of
\* the two at a time.
HashOrAddends == hash = NoHash \/ rel_type = "REL"

TablesNext ==
  \/ kind = "symbols" /\ SymbolsNext /\ HashOrAddends' /\ UNCHANGED entryVars
  \/ kind # "symbols" /\ EntriesNext /\ UNCHANGED symbolVars

TablesSpec == TablesInit /\ [][TablesNext]_<<symbolVars, entryVars>> /\ SymbolsFairness
=============================================================================
