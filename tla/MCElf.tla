-------------------------------- MODULE MCElf --------------------------------
(***************************************************************************)
(* Objects of three sections of a user and two segments: sections with and *)
(* without an address, without bits and out of memory; a segment with two  *)
(* sections, segments inside it, one for the zero-initialised data and one *)
(* for the table of segments.                                              *)
(***************************************************************************)
EXTENDS ElfFile

Kind(name, type, alloc, align, address, data) ==
  [name |-> name, type |-> type, alloc |-> alloc, tls |-> FALSE, align |-> align,
   address |-> address, data |-> data]

MCSectionKinds ==
  {Kind(".text", "PROGBITS", TRUE, 4, NoAddress, <<"t">>),
   Kind(".data", "PROGBITS", TRUE, 4, 72, <<"d", "d", "d">>),
   Kind(".bss", "NOBITS", TRUE, 8, NoAddress, <<0, 0>>),
   Kind(".note", "PROGBITS", FALSE, 1, NoAddress, <<"n", "n">>)}

\* Two bytes below a segment at 64.
MCLowKinds == {Kind(".text", "PROGBITS", TRUE, 1, 62, <<"t">>)}

Seg(type, vaddr, align, secs) == [type |-> type, vaddr |-> vaddr, align |-> align, secs |-> secs]
MCSegmentKinds ==
  {Seg("LOAD", 64, 8, <<2, 3>>), Seg("LOAD", 64, 1, <<2>>), Seg("LOAD", 72, 1, <<3>>), Seg("TLS", 64, 4, <<3>>),
   Seg("PHDR", 48, 4, <<>>)}

\* A file whose first segment holds the headers too.
MCLinkedObjects ==
  {[Created EXCEPT
      !.sec = <<@[1], [@[2] EXCEPT !.name_offset = 1, !.offset = 17, !.data = <<"", ".shstrtab", ".text">>, !.size = 3],
                [NewSection(2) EXCEPT !.name = ".text", !.name_offset = 2, !.type = "PROGBITS", !.alloc = TRUE,
                   !.addr_align = 4, !.address = 64, !.offset = 16, !.size = 1, !.data = <<"t">>]>>,
      !.seg = <<[NewSegment("LOAD", 48, 4) EXCEPT !.filesz = 17, !.memsz = 17, !.secs = <<2>>]>>,
      !.phoff = EHSIZE, !.shoff = 20]}

MCAdditions == {<<"x">>}
=============================================================================
