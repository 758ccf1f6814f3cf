------------------------------ MODULE ElfObject ------------------------------
(***************************************************************************)
(* An ELF object in memory and its file (ELFIO, elfio.hpp, elfio_header.hpp,*)
(* elfio_section.hpp, elfio_segment.hpp): sections and segments, the layout *)
(* computed when the object is saved, and the object a file is loaded into. *)
(*                                                                          *)
(* A file is the sequence of the writes that made it; what is read at a     *)
(* place is what was last written there, if it is still whole.  The host,   *)
(* the file and its reader agree on the encoding; no address translation    *)
(* is set.  Sizes and addresses stay below the width of a header field.     *)
(***************************************************************************)
EXTENDS ElfSection, FiniteSets, TLC

CONSTANTS EHSIZE, PHENTSIZE, SHENTSIZE   \* sizes of the header and of a table entry

ASSUME SizesAssumption == {EHSIZE, PHENTSIZE, SHENTSIZE} \subseteq Nat \ {0}

Indices(o) == DOMAIN o.sec
Segments(o) == DOMAIN o.seg

(***************************************************************************)
(* An object is its sections, by index, its segments in order, and the     *)
(* place of the two tables.  NoObject has no header: it is what a failed   *)
(* load leaves.                                                            *)
(***************************************************************************)
NoObject == [sec |-> <<>>, seg |-> <<>>, phoff |-> 0, shoff |-> 0, shstrndx |-> 0]
Section(o, i) == o.sec[i + 1]
NullSection == [NewSection(0) EXCEPT !.name = ""]

\* A new section, named in the table of section names, which may be itself.
AddSection(o, name) ==
  LET i     == Len(o.sec)
      grown == Append(o.sec, [NewSection(i) EXCEPT !.name = name])
      added == add_string(grown[o.shstrndx + 1], name)
      named == [grown EXCEPT ![o.shstrndx + 1] = added.sec]
  IN  [o EXCEPT !.sec = [named EXCEPT ![i + 1].name_offset = added.at]]

Created ==
  LET o == AddSection([NoObject EXCEPT !.sec = <<NullSection>>, !.shstrndx = 1], ".shstrtab")
  IN  [o EXCEPT !.sec[2].type = "STRTAB", !.sec[2].addr_align = 1]

NewSegment(type, vaddr, align) ==
  [type |-> type, vaddr |-> vaddr, align |-> align, filesz |-> 0, memsz |-> 0,
   offset |-> 0, offset_set |-> FALSE, secs |-> <<>>]

(***************************************************************************)
(* What an object is made of, whatever was done to it: a first section     *)
(* that is none, sections that hold their contents and are named in the    *)
(* table of section names, and segments of such sections.                  *)
(***************************************************************************)
Occupies(s) == s.type \notin {"NOBITS", "NULL"}

IsList(q) == Len(q) \in Nat /\ q = [k \in 1..Len(q) |-> q[k]]

IsSection(s, i) ==
  /\ DOMAIN s = DOMAIN NullSection /\ s.index = i
  /\ s.size \in Nat /\ s.offset \in Nat /\ s.addr_align \in Nat /\ s.name_offset \in Nat
  /\ s.address \in Int /\ s.address_set \in BOOLEAN
  /\ IsList(s.data) /\ (Occupies(s) => has_data(s))

IsSegment(seg, n) ==
  /\ DOMAIN seg = DOMAIN NewSegment("NULL", 0, 0)
  /\ seg.vaddr \in Nat /\ seg.align \in Nat /\ seg.offset \in Nat
  /\ seg.filesz \in Int /\ seg.memsz \in Int
  /\ IsList(seg.secs) /\ \A j \in DOMAIN seg.secs : seg.secs[j] \in 0..n - 1

IsNamed(s, table) == s.name # NoString /\ get_string(table, s.name_offset) = s.name

IsObject(o) ==
  /\ DOMAIN o = DOMAIN NoObject /\ o.phoff \in Nat /\ o.shoff \in Nat
  /\ IsList(o.sec) /\ \A i \in Indices(o) : IsSection(o.sec[i], i - 1)
  /\ IsList(o.seg) /\ \A k \in Segments(o) : IsSegment(o.seg[k], Len(o.sec))
  /\ o.shstrndx \in 1..Len(o.sec) - 1
  /\ o.sec[1].type = "NULL" /\ Section(o, o.shstrndx).type = "STRTAB"
  /\ \A i \in Indices(o) : IsNamed(o.sec[i], Section(o, o.shstrndx))

Larger(a, b) == IF a > b THEN a ELSE b

\* A segment is at least as aligned as each of its sections.
AlignedTo(o, align, secs) == Max({align} \union {Section(o, secs[j]).addr_align : j \in DOMAIN secs})

add_section_index(o, seg, secs) == [seg EXCEPT !.secs = @ \o secs, !.align = AlignedTo(o, @, secs)]

(***************************************************************************)
(* Order of the segments.  One whose sections are all in a longer one is   *)
(* laid out behind it; std::includes is the merge of two lists that are    *)
(* taken to be sorted.                                                     *)
(***************************************************************************)
Includes(a, b) ==
  LET from[i \in 1..Len(a) + 1, j \in 1..Len(b) + 1] ==
        \/ j > Len(b)
        \/ i <= Len(a) /\ b[j] >= a[i] /\ from[i + 1, IF a[i] = b[j] THEN j + 1 ELSE j]
  IN  from[1, 1]

is_subsequence_of(s1, s2) == Len(s1.secs) < Len(s2.secs) /\ Includes(s2.secs, s1.secs)

\* Loaded segments that start at offset zero move to the front.
AtZero(seg) == seg.offset_set /\ seg.offset = 0

FrontStep(segs, w, i) ==
  LET slot == w.next + IF segs[w.q[w.next]].offset = 0 THEN 1 ELSE 0
  IN  IF i = w.next \/ ~AtZero(segs[w.q[i]]) THEN w
      ELSE [q |-> [w.q EXCEPT ![i] = w.q[slot], ![slot] = w.q[i]], next |-> slot + 1]

Fronted(segs) ==
  LET w[i \in 0..Len(segs)] ==
        IF i = 0 THEN [q |-> [k \in DOMAIN segs |-> k], next |-> 1] ELSE FrontStep(segs, w[i - 1], i)
  IN  w[Len(segs)].q

\* Those inside another go to the end of the worklist, until one is not.
IsInside(segs, q, d) == \E k \in DOMAIN q : is_subsequence_of(segs[q[d]], segs[q[k]])
Outermost(segs, q) == CHOOSE d \in DOMAIN q : ~IsInside(segs, q, d) /\ \A e \in 1..d - 1 : IsInside(segs, q, e)

Rest(segs, q) == LET d == Outermost(segs, q) IN SubSeq(q, d + 1, Len(q)) \o SubSeq(q, 1, d - 1)

\* Mutant: a segment inside another is laid out in the order of the list.
get_ordered_segments_AsAdded(segs) == Fronted(segs)

get_ordered_segments(segs) ==
  LET worklist[n \in 0..Len(segs)] == IF n = 0 THEN Fronted(segs) ELSE Rest(segs, worklist[n - 1])
  IN  [n \in 1..Len(segs) |-> LET q == worklist[n - 1] IN q[Outermost(segs, q)]]

(***************************************************************************)
(* Layout.  The state of the layout: the object so far, whether it is      *)
(* still good, the position in the file, the sections already placed, and  *)
(* the file and memory size of the segment under way.                      *)
(***************************************************************************)
Padding(pos, align) == IF align = 0 THEN 0 ELSE (-pos) % align

SectionAlign(l, seg, start, s) ==
  IF s.index \in l.placed THEN s.offset - start - l.filesz
  ELSE IF ~s.address_set THEN Padding(l.pos, s.addr_align)
  ELSE IF Occupies(s) /\ s.size # 0 THEN (s.address - seg.vaddr) - (l.pos - start)
  ELSE 0

\* Mutant: no address is too low.
Passed_Never(l, seg, start, s) == FALSE

\* The addresses of the sections decide their places: one the position has
\* already passed ends the layout.
Passed(l, seg, start, s) ==
  /\ s.index \notin l.placed /\ s.address_set /\ Occupies(s) /\ s.size # 0
  /\ s.address >= seg.vaddr
  /\ SectionAlign(l, seg, start, s) < 0

InMemory(seg, s) == s.alloc /\ ~(s.tls /\ seg.type # "TLS" /\ s.type = "NOBITS")

PlaceSection(seg, start, l, i) ==
  LET s      == Section(l.o, i)
      align  == SectionAlign(l, seg, start, s)
      at     == l.pos + align
      memsz  == l.memsz + IF InMemory(seg, s) THEN s.size + align ELSE 0
      bits   == IF s.type = "NOBITS" THEN 0 ELSE s.size
      filesz == l.filesz + IF s.type = "NOBITS" THEN 0 ELSE s.size + align
      moved  == IF s.address_set THEN s ELSE set_address(s, seg.vaddr + at - start)
  IN  IF ~l.good THEN l
      ELSE IF s.type = "NULL" THEN [l EXCEPT !.placed = @ \union {i}]
      ELSE IF Passed(l, seg, start, s) THEN [l EXCEPT !.good = FALSE]
      ELSE IF i \in l.placed THEN [l EXCEPT !.memsz = memsz, !.filesz = filesz]
      ELSE [l EXCEPT !.memsz = memsz, !.filesz = filesz, !.pos = at + bits,
                     !.placed = @ \union {i}, !.o.sec[i + 1] = [moved EXCEPT !.offset = at]]

\* Where a segment starts, how far this moves the position, and the sizes
\* it starts with: the table of segments, the first page of a file, a
\* segment of its own, or one inside another.
SegmentStart(l, seg) ==
  LET here  == [start |-> l.pos, pos |-> l.pos, size |-> 0]
      fresh == l.pos + Padding(l.pos - seg.vaddr, seg.align)
  IN  IF seg.type = "PHDR" /\ seg.secs = <<>>
        THEN [here EXCEPT !.start = l.o.phoff, !.size = PHENTSIZE * Len(l.o.seg)]
      ELSE IF AtZero(seg)
        THEN [here EXCEPT !.start = 0, !.size = IF seg.secs = <<>> THEN 0 ELSE l.pos]
      ELSE IF seg.secs = <<>> THEN here
      ELSE IF seg.secs[1] \notin l.placed THEN [start |-> fresh, pos |-> fresh, size |-> 0]
      ELSE [here EXCEPT !.start = Section(l.o, seg.secs[1]).offset]

PlaceSections(seg, start, l) ==
  LET placing[j \in 0..Len(seg.secs)] ==
        IF j = 0 THEN l ELSE PlaceSection(seg, start, placing[j - 1], seg.secs[j])
  IN  placing[Len(seg.secs)]

LayoutSegment(l, k) ==
  LET seg == l.o.seg[k]
      b   == SegmentStart(l, seg)
      e   == PlaceSections(seg, b.start, [l EXCEPT !.pos = b.pos, !.filesz = b.size, !.memsz = b.size])
  IN  IF ~l.good THEN l
      ELSE IF ~e.good THEN e
      ELSE [e EXCEPT !.o.seg[k] = [seg EXCEPT !.filesz = e.filesz, !.memsz = Larger(@, e.memsz),
                                              !.offset = b.start, !.offset_set = TRUE]]

LayoutSegments(l, order) ==
  LET placing[n \in 0..Len(order)] == IF n = 0 THEN l ELSE LayoutSegment(placing[n - 1], order[n])
  IN  placing[Len(order)]

calc_segment_alignment(o) ==
  [o EXCEPT !.seg = [k \in Segments(o) |-> [o.seg[k] EXCEPT !.align = AlignedTo(o, @, o.seg[k].secs)]]]

is_section_without_segment(o, i) == \A k \in Segments(o) : i \notin ToSet(o.seg[k].secs)

LayoutLoose(l, i) ==
  LET s  == Section(l.o, i)
      at == l.pos + Padding(l.pos, s.addr_align)
  IN  IF ~is_section_without_segment(l.o, i) THEN l
      ELSE [l EXCEPT !.pos = at + IF Occupies(s) THEN s.size ELSE 0,
                     !.o.sec[i + 1].offset = IF i = 0 THEN @ ELSE at]

LayoutAllLoose(l) ==
  LET placing[n \in 0..Len(l.o.sec)] == IF n = 0 THEN l ELSE LayoutLoose(placing[n - 1], n - 1)
  IN  placing[Len(l.o.sec)]

Layout(o) ==
  LET n     == Len(o.seg)
      first == [o |-> calc_segment_alignment([o EXCEPT !.shoff = 0, !.phoff = IF n > 0 THEN EHSIZE ELSE 0]),
                good |-> TRUE, pos |-> EHSIZE + PHENTSIZE * n, placed |-> {}, filesz |-> 0, memsz |-> 0]
      segs  == LayoutSegments(first, get_ordered_segments(o.seg))
      loose == LayoutAllLoose(segs)
      table == loose.pos + Padding(loose.pos, 4)
  IN  IF segs.good THEN [loose EXCEPT !.o.shoff = table] ELSE segs

(***************************************************************************)
(* The file: the header, then each section header and its contents, then   *)
(* the segment headers.                                                    *)
(***************************************************************************)
Write(at, len, what) == <<[at |-> at, len |-> len, what |-> what]>>
Header(s) == [f \in HeaderFields |-> s[f]]

elf_header(o) ==
  [phnum |-> Len(o.seg), phoff |-> o.phoff, shnum |-> Len(o.sec), shoff |-> o.shoff, shstrndx |-> o.shstrndx]

section_save(o, s) ==
  Write(o.shoff + SHENTSIZE * s.index, SHENTSIZE, Header(s))
    \o IF Occupies(s) /\ s.size # 0 THEN Write(s.offset, s.size, Contents(s)) ELSE <<>>

\* The sections of a segment are not written.
segment_save(o, k) ==
  Write(o.phoff + PHENTSIZE * (k - 1), PHENTSIZE, [o.seg[k] EXCEPT !.secs = <<>>, !.offset_set = FALSE])

FileOf(o) ==
  Write(0, EHSIZE, elf_header(o))
    \o FlattenSeq([i \in Indices(o) |-> section_save(o, o.sec[i])])
    \o FlattenSeq([k \in Segments(o) |-> segment_save(o, k)])

Overlap(w, v) == w.at < v.at + v.len /\ v.at < w.at + w.len

Disjoint(file) == \A j, k \in DOMAIN file : j < k => ~Overlap(file[j], file[k])

Torn == <<Unwritten>>
Read(file, at, len) ==
  LET Whole(k) == /\ file[k].at = at /\ file[k].len = len
                  /\ \A j \in k + 1..Len(file) : ~Overlap(file[j], file[k])
  IN  IF \E k \in DOMAIN file : Whole(k) THEN file[CHOOSE k \in DOMAIN file : Whole(k)].what ELSE Torn
=============================================================================
