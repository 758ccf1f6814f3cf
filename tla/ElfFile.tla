------------------------------- MODULE ElfFile -------------------------------
(***************************************************************************)
(* A user of ELFIO builds an object, saves it, loads a file, goes on with  *)
(* the object, and saves again.  A save that fails has already emptied the *)
(* file it was to replace.                                                 *)
(***************************************************************************)
EXTENDS ElfObject

CONSTANTS SectionKinds,  \* the sections a user adds: fields, contents, address or none
          SegmentKinds,  \* the segments: type, address, alignment, section indices
          Additions,     \* what is appended to a section
          LinkedObjects,    \* objects another tool wrote a file of
          BELOW_SEGMENTS,   \* whether a segment is given a section at a lower address
          MAX_SECTIONS, MAX_SEGMENTS, MAX_SIZE

ASSUME ObjectBounds == {MAX_SECTIONS, MAX_SEGMENTS, MAX_SIZE} \subseteq Nat /\ BELOW_SEGMENTS \in BOOLEAN

NoAddress == -1

ASSUME KindsAssumption ==
  /\ \A d \in SectionKinds :
       d.name # NoString /\ d.align \in Nat /\ d.address \in Nat \union {NoAddress} /\ IsList(d.data)
  /\ \A d \in SegmentKinds : d.vaddr \in Nat /\ d.align \in Nat /\ IsList(d.secs) /\ ToSet(d.secs) \subseteq Nat
  /\ \A cells \in Additions : IsList(cells)

\* A file of another tool names its sections, and no part of it is in another.
ASSUME LinkedAssumption == \A o \in LinkedObjects : IsObject(o) /\ Disjoint(FileOf(o))

(***************************************************************************)
(* Loading.  Every address read is kept from then on; the contents of a    *)
(* section are read when the file can hold them; a segment has the         *)
(* sections inside its addresses, or inside its part of the file when they *)
(* are not in memory.                                                      *)
(***************************************************************************)
FileLength(file) == Max({0} \union {file[k].at + file[k].len : k \in DOMAIN file})

section_load(file, h, i) ==
  LET readable == Occupies(h) /\ h.size < FileLength(file)
  IN  [index |-> i, name |-> "", address_set |-> TRUE, stream_size |-> FileLength(file),
       data |-> IF readable /\ h.size # 0 THEN Read(file, h.offset, h.size) ELSE <<>>,
       name_offset |-> h.name_offset, type |-> h.type, alloc |-> h.alloc, tls |-> h.tls,
       address |-> h.address, offset |-> h.offset, size |-> h.size, link |-> h.link,
       info |-> h.info, addr_align |-> h.addr_align, entry_size |-> h.entry_size]

section_header(file, elf, i) == Read(file, elf.shoff + SHENTSIZE * i, SHENTSIZE)

\* Mutant: the address read is not kept.
LoadSection_AddressUnset(file, elf, i) ==
  [section_load(file, section_header(file, elf, i), i) EXCEPT !.address_set = FALSE]

LoadSection(file, elf, i) == section_load(file, section_header(file, elf, i), i)

\* Mutant: the names of the sections are not looked up.
Named_Never(secs, shstrndx) == secs

Named(secs, shstrndx) ==
  IF shstrndx = 0 THEN secs
  ELSE [k \in DOMAIN secs |->
          LET name == get_string(secs[shstrndx + 1], secs[k].name_offset)
          IN  IF name = NoString THEN secs[k] ELSE [secs[k] EXCEPT !.name = name]]

\* Mutant: a section that ends where its segment ends is not in it.
is_sect_in_seg_Short(begin, size, seg_begin, seg_end) == seg_begin <= begin /\ begin + size < seg_end

\* Mutant: a section below a segment is in it.
is_sect_in_seg_Below(begin, size, seg_begin, seg_end) == begin + size <= seg_end /\ begin < seg_end

is_sect_in_seg(begin, size, seg_begin, seg_end) ==
  /\ seg_begin <= begin /\ begin + size <= seg_end
  /\ begin < seg_end

InSegment(s, seg) ==
  IF s.alloc THEN is_sect_in_seg(s.address, s.size, seg.vaddr, seg.vaddr + seg.memsz)
  ELSE is_sect_in_seg(s.offset, s.size, seg.offset, seg.offset + seg.filesz)

\* The offset read is kept, until the layout computes it again.
segment_load(file, elf, k) == [Read(file, elf.phoff + PHENTSIZE * (k - 1), PHENTSIZE) EXCEPT !.offset_set = TRUE]

SectionsOf(secs, h) ==
  LET found[i \in 0..Len(secs)] ==
        IF i = 0 THEN <<>> ELSE IF InSegment(secs[i], h) THEN Append(found[i - 1], i - 1) ELSE found[i - 1]
  IN  found[Len(secs)]

LoadSegment(file, elf, secs, k) ==
  LET h == segment_load(file, elf, k) IN [h EXCEPT !.secs = SectionsOf(secs, h)]

header_load(file) == Read(file, 0, EHSIZE)

LoadedFrom(file) ==
  LET elf  == header_load(file)
      secs == Named([i \in 1..elf.shnum |-> LoadSection(file, elf, i - 1)], elf.shstrndx)
  IN  [sec |-> secs, seg |-> [k \in 1..elf.phnum |-> LoadSegment(file, elf, secs, k)],
       phoff |-> elf.phoff, shoff |-> elf.shoff, shstrndx |-> elf.shstrndx]

(***************************************************************************)
(* validate(): the sections that overlap in the file, and the segments     *)
(* whose address is not that of the section at their offset.  The first    *)
(* test leaves out every type whose number has the bit of NOBITS.          *)
(***************************************************************************)
BitOfNobits == {"NOBITS", "REL", "DYNSYM", "INIT_ARRAY", "FINI_ARRAY"}

is_offset_in_section(at, s) == s.offset <= at /\ at < s.offset + s.size

Overlapping(o) ==
  {pair \in Indices(o) \X Indices(o) :
     LET a == o.sec[pair[1]]  b == o.sec[pair[2]]
     IN  /\ pair[1] < pair[2]
         /\ {a.type, b.type} \intersect BitOfNobits = {}
         /\ a.size > 0 /\ b.size > 0 /\ a.offset > 0 /\ b.offset > 0
         /\ \/ is_offset_in_section(a.offset, b) \/ is_offset_in_section(a.offset + a.size - 1, b)
            \/ is_offset_in_section(b.offset, a) \/ is_offset_in_section(b.offset + b.size - 1, a)}

find_prog_section_for_offset(o, at) ==
  SelectSeq(o.sec, LAMBDA s : s.type = "PROGBITS" /\ is_offset_in_section(at, s))

Conflicting(o) ==
  {k \in Segments(o) :
     LET seg == o.seg[k]
         found == find_prog_section_for_offset(o, seg.offset)
     IN  /\ seg.type = "LOAD" /\ seg.filesz > 0 /\ found # <<>>
         /\ found[1].address + seg.offset - found[1].offset # seg.vaddr}

IsValid(o) == Overlapping(o) = {} /\ Conflicting(o) = {}

-----------------------------------------------------------------------------
VARIABLES obj,     \* the object of the user
          disk,    \* the file: <<>> before the first save and after a save that failed
          good,    \* what the last save or load returned
          saved    \* the object as it was when the file was written

elfVars == <<obj, disk, good, saved>>

ElfInit ==
  /\ obj = Created /\ good = TRUE
  /\ saved \in {NoObject} \union LinkedObjects
  /\ disk = IF saved = NoObject THEN <<>> ELSE FileOf(saved)

create == obj = NoObject /\ obj' = Created /\ UNCHANGED <<disk, good, saved>>

Filled(o, i, d) ==
  LET s == [Section(o, i) EXCEPT !.type = d.type, !.alloc = d.alloc, !.tls = d.tls, !.addr_align = d.align]
      t == IF d.type = "NOBITS" THEN [s EXCEPT !.size = Len(d.data)] ELSE set_data(s, d.data)
  IN  [o EXCEPT !.sec[i + 1] = IF d.address = NoAddress THEN t ELSE set_address(t, d.address)]

sections_add ==
  /\ obj # NoObject /\ Len(obj.sec) < MAX_SECTIONS
  /\ \E d \in SectionKinds : obj' = Filled(AddSection(obj, d.name), Len(obj.sec), d)
  /\ UNCHANGED <<disk, good, saved>>

segments_add ==
  /\ obj # NoObject /\ Len(obj.seg) < MAX_SEGMENTS
  /\ \E d \in SegmentKinds :
       /\ \A k \in DOMAIN d.secs :
            /\ d.secs[k] < Len(obj.sec)
            /\ LET s == Section(obj, d.secs[k])
               IN  s.address_set /\ s.address < d.vaddr => BELOW_SEGMENTS
       /\ obj' = [obj EXCEPT !.seg = Append(@, add_section_index(obj, NewSegment(d.type, d.vaddr, d.align), d.secs))]
  /\ UNCHANGED <<disk, good, saved>>

append_to_section ==
  \E i \in Indices(obj), cells \in Additions :
    /\ obj.sec[i].type = "PROGBITS" /\ obj.sec[i].size + Len(cells) <= MAX_SIZE
    /\ obj' = [obj EXCEPT !.sec[i] = append_data(@, cells)]
    /\ UNCHANGED <<disk, good, saved>>

save ==
  /\ obj # NoObject
  /\ LET l == Layout(obj)
     IN  /\ obj' = l.o /\ good' = l.good
         /\ disk' = IF l.good THEN FileOf(l.o) ELSE <<>>
         /\ saved' = IF l.good THEN l.o ELSE NoObject

load ==
  /\ obj' = IF disk = <<>> THEN NoObject ELSE LoadedFrom(disk)
  /\ good' = (disk # <<>>)
  /\ UNCHANGED <<disk, saved>>

ElfNext == create \/ sections_add \/ segments_add \/ append_to_section \/ save \/ load
ElfSpec == ElfInit /\ [][ElfNext]_elfVars

-----------------------------------------------------------------------------
\* Whatever was done to it, an object holds its contents, finds the name of
\* every section in its table, and has segments of sections that exist.
ElfTypeOK == obj = NoObject \/ IsObject(obj)

\* Of the sections with an address, contents, and a place in a segment that is
\* not laid out before, none lies below that segment.
LaysUpwards(o) ==
  LET order == get_ordered_segments(o.seg) IN
    \A n \in DOMAIN order : LET seg == o.seg[order[n]] IN
      \A i \in ToSet(seg.secs) : LET s == Section(o, i) IN
        /\ s.address_set /\ Occupies(s) /\ s.size # 0
        /\ \A m \in 1..n - 1 : i \notin ToSet(o.seg[order[m]].secs)
        => s.address >= seg.vaddr

\* What the user saves never asks for a place before the start of a segment.
SavesUpwards == [][save => LaysUpwards(obj)]_elfVars

\* The tables, the contents of the sections and the headers written to a
\* file never overlap: no write of a save seeks back over another.
FileIsDisjoint == Disjoint(disk)

LoadSegments(o) ==
  {k \in Segments(o) : o.seg[k].type = "LOAD" /\ \A i \in ToSet(o.seg[k].secs) : Section(o, i).alloc}
Mapped(o, k) == {i \in ToSet(o.seg[k].secs) : Occupies(Section(o, i)) /\ Section(o, i).size # 0}

\* Where a loader maps a segment of an object that validate() accepts, each
\* section of the segment that is in memory is found at its own address,
\* whatever segments share it and in whatever order they were added.
SegmentsMapSections ==
  disk # <<>> /\ IsValid(saved) =>
    \A k \in LoadSegments(saved) : LET seg == saved.seg[k] IN
        \A i \in Mapped(saved, k) : LET s == Section(saved, i) IN
          /\ s.address - seg.vaddr = s.offset - seg.offset
          /\ s.offset >= seg.offset /\ s.offset + s.size <= seg.offset + seg.filesz

Keeps(o, p) ==
  /\ Len(o.sec) = Len(p.sec)
  /\ \A i \in Indices(o) :
       LET s == o.sec[i]  t == p.sec[i]
       IN  /\ t.name = s.name /\ t.type = s.type /\ t.address = s.address /\ t.size = s.size
           /\ Occupies(s) => Contents(t) = Contents(s)
  /\ Len(o.seg) = Len(p.seg)

\* Loading a file gives back the sections that were saved, with their names
\* and contents through every growth of the buffers, ...
LoadRestores == [][load /\ disk # <<>> => Keeps(saved, obj')]_elfVars

\* ... and finds again the sections of a segment, which the file does not list.
LoadFindsSections ==
  [][load /\ disk # <<>> /\ IsValid(saved) =>
       \A k \in LoadSegments(saved) : Mapped(saved, k) \subseteq ToSet(obj'.seg[k].secs)]_elfVars

SameSegments(o, p) == \A k \in Segments(o) : o.seg[k].secs = p.seg[k].secs

\* What was loaded can be saved again, and every section keeps its contents
\* and its address, although all the offsets are computed anew.
\* (The two objects are bound for TLC, which computes what is bound once.)
SaveAgainKeeps ==
  disk # <<>> /\ IsValid(saved) =>
    \A o \in {LoadedFrom(disk)} :
      \A l \in {Layout(o)} : SameSegments(o, saved) => l.good /\ Keeps(o, l.o) /\ Disjoint(FileOf(l.o))

\* elfio.hpp, where the layout meets an address the position has passed:
\* "abort! section_align would turn out negative, seeking backwards and
\* overwriting previous data".  So whatever addresses a user gives, the
\* writes of a save that succeeds, none of them at a position that wrapped,
\* overwrite nothing.
BackwardsIsAborted == (\A k \in DOMAIN disk : disk[k].at >= 0) => Disjoint(disk)
=============================================================================
