----------------------------- MODULE ElfSection -----------------------------
(***************************************************************************)
(* A section of an ELF object (ELFIO, elfio_section.hpp): its header and   *)
(* the buffer of its contents, which grows by doubling; and the strings of *)
(* a string table (elfio_strings.hpp).                                     *)
(*                                                                         *)
(* A cell of the buffer stands for a unit of contents: a byte, a string    *)
(* with its end, a symbol, a relocation.  Sizes and offsets count cells.   *)
(* A section whose buffer is shorter than its size has none (nullptr).     *)
(***************************************************************************)
EXTENDS Integers, Sequences, SequencesExt

CONSTANT Unwritten   \* a cell of a new buffer that nothing has written

HeaderFields == {"name_offset", "type", "alloc", "tls", "address", "offset",
                 "size", "link", "info", "addr_align", "entry_size"}

NewSection(i) ==
  [index |-> i, name |-> "", address_set |-> FALSE, data |-> <<>>, stream_size |-> 0,
   name_offset |-> 0, type |-> "NULL", alloc |-> FALSE, tls |-> FALSE, address |-> 0,
   offset |-> 0, size |-> 0, link |-> 0, info |-> 0, addr_align |-> 0, entry_size |-> 0]

set_address(s, a) == [s EXCEPT !.address = a, !.address_set = TRUE]

has_data(s) == Len(s.data) >= s.size
Contents(s) == SubSeq(s.data, 1, s.size)

\* A section without bits keeps no data, and loses its size.
set_data(s, cells) ==
  LET data == IF s.type = "NOBITS" THEN s.data ELSE cells
  IN  [s EXCEPT !.data = data, !.size = Len(data), !.stream_size = Len(data)]

\* In place while there is room; otherwise in a buffer twice the old one
\* and the addition together.
append_data(s, cells) ==
  LET n == Len(cells)
      buffer == IF s.size + n < Len(s.data) THEN s.data
                ELSE Contents(s) \o [k \in 1..(2 * (Len(s.data) + n) - s.size) |-> Unwritten]
  IN  IF s.type = "NOBITS" THEN s
      ELSE [s EXCEPT !.data = [k \in DOMAIN buffer |->
                                 IF k - s.size \in 1..n THEN cells[k - s.size] ELSE buffer[k]],
                     !.size = @ + n, !.stream_size = @ + n]

NoString == "no string"
get_string(s, k) == IF k < s.size /\ has_data(s) THEN s.data[k + 1] ELSE NoString

\* Mutant: the empty string put first is not counted.
add_string_Uncounted(s, str) ==
  LET t == IF s.size = 0 THEN append_data(s, <<"">>) ELSE s
  IN  [at |-> s.size, sec |-> append_data(t, <<str>>)]

\* The first string of a table is empty; a new one goes at the end.
add_string(s, str) ==
  LET t == IF s.size = 0 THEN append_data(s, <<"">>) ELSE s
  IN  [at |-> t.size, sec |-> append_data(t, <<str>>)]
=============================================================================
