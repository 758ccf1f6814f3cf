------------------------------ MODULE ElfEntries ------------------------------
(***************************************************************************)
(* The accessors of the other tables (ELFIO): dynamic entries, arrays of   *)
(* addresses, symbol versions, notes and module attributes.  An accessor   *)
(* is opened on a section; it adds entries to the section, reads them, and *)
(* may remember something of what it has seen: view.                       *)
(*                                                                         *)
(* A number in the file has the digits of its width, in one order or the   *)
(* other.  A cell is an entry; of a note section it is a byte; of a module *)
(* section it is a string with its end.                                    *)
(***************************************************************************)
EXTENDS ElfSection

CONSTANTS BASE,             \* of a digit
          ALIGN,            \* bytes in a word of a note
          Numbers,          \* addresses, values and versions a user adds
          Fields, Values,   \* of module attributes, as lists of characters
          NoteNames, Descs, \* of notes, as lists of bytes
          Existing,         \* kind -> the sections an accessor may be opened on
          Strings,          \* the string sections of a dynamic section
          FOREIGN_DYNAMIC,  \* whether dynamic entries of 32 bits are added in the other byte order
          MAX_ENTRIES

VARIABLES kind,             \* of the section
          elf_class,        \* of the file: 32 or 64
          need_conversion,  \* whether the host has the other byte order
          data,             \* the cells of the section
          strtab,           \* the strings of a dynamic section
          view,             \* what the open accessor remembers
          added             \* history: the entries the section should have

entryVars == <<kind, elf_class, need_conversion, data, strtab, view, added>>

(***************************************************************************)
(* Numbers: a half has one digit, a word two, an xword four.               *)
(***************************************************************************)
HALF == 1
WORD == 2
XWORD == 4
WIDTH == IF elf_class = 32 THEN WORD ELSE XWORD
Limit(n) == CASE n = HALF -> BASE [] n = WORD -> BASE * BASE [] OTHER -> (BASE * BASE) * (BASE * BASE)

Truncated(x, n) == x % Limit(n)

\* The halves of a number below limit * limit, in the other order.
Exchanged(x, limit) == limit * (x % limit) + ((x \div limit) % limit)

\* The digits of a word or of an xword, in the other order.
Reversed(x, n) ==
  LET low == x % Limit(WORD)  high == (x \div Limit(WORD)) % Limit(WORD)
  IN  IF n = WORD THEN Exchanged(x, BASE) ELSE Exchanged(low, BASE) * Limit(WORD) + Exchanged(high, BASE)

convertor(x, n) == IF need_conversion THEN Reversed(x, n) ELSE x

(***************************************************************************)
(* What users add, and the sections there are: of the fields of module     *)
(* attributes none has an equals sign, as their format asks.               *)
(***************************************************************************)
EQUALS == "="
Cell == [d_tag : Nat, d_val : Nat]

ASSUME EntriesAssumption ==
  /\ BASE \in Nat /\ BASE > 2 /\ ALIGN \in Nat \ {0} /\ MAX_ENTRIES \in Nat
  /\ Numbers \subseteq 0..Limit(XWORD) - 1
  /\ FOREIGN_DYNAMIC \in BOOLEAN
  /\ NoteNames \subseteq Seq(Nat) /\ \A name \in NoteNames : Len(name) + 1 < Limit(WORD)
  /\ Descs \subseteq Seq(Nat) /\ \A desc \in Descs : Len(desc) < Limit(WORD)
  /\ Values \subseteq Seq(STRING)
  /\ Fields \subseteq Seq(STRING) /\ \A field \in Fields : \A k \in DOMAIN field : field[k] # EQUALS
  /\ \A k \in DOMAIN Existing :
       Existing[k] \subseteq CASE k = "dynamic" -> Seq(Cell)
                               [] k = "modinfo" -> Seq(Seq(STRING))
                               [] OTHER         -> Seq(Nat)
  /\ \A s \in Strings : /\ DOMAIN s = DOMAIN NewSection(0) /\ s.type = "STRTAB" /\ s.size \in Nat
                        /\ s.data \in Seq(STRING \union {Unwritten}) /\ has_data(s)

(***************************************************************************)
(* Dynamic entries: converted as an xword, then cut to the class.  Some    *)
(* tags have no value, some have a string.  The accessor counts them once, *)
(* up to the first null entry.                                             *)
(***************************************************************************)
DT_NULL == 0
DT_NEEDED == 1
DT_SYMBOLIC == 2
Tags == {DT_NULL, DT_NEEDED, DT_SYMBOLIC, 3}

\* A tag of 32 bits is signed, and extended when it is read.
SignExtended(tag, n) ==
  IF n = WORD /\ tag >= Limit(WORD) \div 2 THEN tag + (Limit(XWORD) - Limit(WORD)) ELSE tag

DynamicValue(tag, value) == IF tag \in {DT_NULL, DT_SYMBOLIC} THEN 0 ELSE value

DynamicCell(tag, value) ==
  [d_tag |-> Truncated(convertor(tag, XWORD), WIDTH),
   d_val |-> Truncated(convertor(DynamicValue(tag, value), XWORD), WIDTH)]

DynamicEntry(cell) ==
  LET tag   == SignExtended(convertor(cell.d_tag, WIDTH), WIDTH)
      value == DynamicValue(tag, convertor(cell.d_val, WIDTH))
  IN  [tag |-> tag, value |-> value,
       str |-> IF tag = DT_NEEDED THEN get_string(strtab, value) ELSE ""]

dynamic_entries_num ==
  LET nulls == {k \in DOMAIN data : DynamicEntry(data[k]).tag = DT_NULL}
  IN  Min(nulls \union {Len(data)})

(***************************************************************************)
(* Notes: three words, the name and the description, each padded.          *)
(***************************************************************************)
Padded(bytes) == bytes \o [k \in 1..((-Len(bytes)) % ALIGN) |-> 0]
Up(n) == n + ((-n) % ALIGN)
WordBytes(x) == <<convertor(x, WORD)>> \o [k \in 1..ALIGN - 1 |-> 0]
WordAt(at) == convertor(data[at + 1], WORD)

\* Mutant: the description is not padded.
NoteBytes_Unpadded(type, name, desc) ==
  WordBytes(Len(name) + 1) \o WordBytes(Len(desc)) \o WordBytes(type) \o Padded(name \o <<0>>) \o desc

NoteBytes(type, name, desc) ==
  WordBytes(Len(name) + 1) \o WordBytes(Len(desc)) \o WordBytes(type)
    \o Padded(name \o <<0>>) \o Padded(desc)

NoteEnd(at) == at + 3 * ALIGN + Up(WordAt(at)) + Up(WordAt(at + ALIGN))

note_start_positions ==
  LET from[at \in 0..Len(data)] ==
        IF at + 3 * ALIGN > Len(data) THEN <<>>
        ELSE <<at>> \o IF NoteEnd(at) > Len(data) THEN <<>> ELSE from[NoteEnd(at)]
  IN  from[0]

\* The places where the notes of a section start and end, when all are whole.
NoteBounds(bounds) ==
  /\ {0, Len(data)} \subseteq bounds
  /\ \A at \in bounds \ {Len(data)} : at + 3 * ALIGN <= Len(data) /\ NoteEnd(at) \in bounds
WholeNotes == \E bounds \in SUBSET (0..Len(data)) : NoteBounds(bounds)

get_note(at) ==
  LET namesz == WordAt(at)
      descsz == WordAt(at + ALIGN)
      room   == Len(data) - at
      names  == at + 3 * ALIGN
  IN  IF namesz < 1 \/ namesz > room \/ namesz + descsz > room THEN [refused |-> at]
      ELSE [type |-> WordAt(at + 2 * ALIGN), name |-> SubSeq(data, names + 1, names + namesz - 1),
            desc |-> SubSeq(data, names + Up(namesz) + 1, names + Up(namesz) + descsz)]

(***************************************************************************)
(* Module attributes: "field=value", cut at the first equals sign; empty   *)
(* strings are skipped.                                                    *)
(***************************************************************************)
Attribute(string) ==
  LET signs == {k \in DOMAIN string : string[k] = EQUALS}
  IN  IF signs = {} THEN [field |-> string, value |-> string]
      ELSE [field |-> SubSeq(string, 1, Min(signs) - 1), value |-> SubSeq(string, Min(signs) + 1, Len(string))]

Attributes ==
  LET from[k \in 1..Len(data) + 1] ==
        IF k > Len(data) THEN <<>>
        ELSE (IF data[k] = <<>> THEN <<>> ELSE <<Attribute(data[k])>>) \o from[k + 1]
  IN  from[1]

(***************************************************************************)
(* What an accessor remembers when it is opened, and the entries it reads. *)
(***************************************************************************)
Opened ==
  CASE kind = "versym"  -> Len(data)
    [] kind = "note"    -> note_start_positions
    [] kind = "modinfo" -> Attributes
    [] OTHER            -> 0

dynamic_entries(v) ==
  [k \in 1..(IF v = 0 THEN dynamic_entries_num ELSE v) |-> DynamicEntry(data[k])]
array_entries == [k \in DOMAIN data |-> convertor(data[k], WIDTH)]
versym_entries(v) == SubSeq(data, 1, v)
notes(v) == [k \in DOMAIN v |-> get_note(v[k])]

Entries(v) ==
  CASE kind = "dynamic" -> dynamic_entries(v)
    [] kind = "array"   -> array_entries
    [] kind = "versym"  -> versym_entries(v)
    [] kind = "note"    -> notes(v)
    [] kind = "modinfo" -> v
    [] OTHER            -> <<>>

-----------------------------------------------------------------------------
EntriesInit ==
  /\ kind \in DOMAIN Existing /\ elf_class \in {32, 64} /\ need_conversion \in BOOLEAN
  /\ (kind = "dynamic" /\ elf_class = 32 /\ need_conversion) => FOREIGN_DYNAMIC
  /\ strtab \in Strings
  /\ data \in Existing[kind]
  /\ kind = "dynamic" => \A k \in DOMAIN data : data[k].d_tag < Limit(WIDTH) /\ data[k].d_val < Limit(WIDTH)
  /\ view = Opened
  /\ added = Entries(view)
  /\ kind = "dynamic" => \A k \in DOMAIN added : added[k].tag = DT_NEEDED => added[k].value < strtab.size
  /\ kind = "note" => WholeNotes

Add(cells, entry) ==
  /\ Len(added) < MAX_ENTRIES
  /\ data' = data \o cells /\ added' = Append(added, entry)
  /\ UNCHANGED <<kind, elf_class, need_conversion>>

\* Nothing follows a null entry.
dynamic_open_end == \A k \in DOMAIN added : added[k].tag # DT_NULL

dynamic_add_entry(tag, value) ==
  /\ kind = "dynamic" /\ dynamic_open_end
  /\ Add(<<DynamicCell(tag, value)>>, [tag |-> tag, value |-> Truncated(DynamicValue(tag, value), WIDTH), str |-> ""])
  /\ UNCHANGED <<strtab, view>>

dynamic_add_string(str) ==
  /\ kind = "dynamic" /\ dynamic_open_end
  /\ LET new == add_string(strtab, str)
     IN  /\ new.at < Limit(WIDTH)
         /\ Add(<<DynamicCell(DT_NEEDED, new.at)>>, [tag |-> DT_NEEDED, value |-> new.at, str |-> str])
         /\ strtab' = new.sec
  /\ UNCHANGED view

get_entries_num ==
  /\ kind = "dynamic" /\ view = 0
  /\ view' = dynamic_entries_num
  /\ UNCHANGED <<kind, elf_class, need_conversion, data, strtab, added>>

array_add_entry(address) ==
  /\ kind = "array"
  /\ Add(<<convertor(Truncated(address, WIDTH), WIDTH)>>, Truncated(address, WIDTH))
  /\ UNCHANGED <<strtab, view>>

\* Mutant: the count of the accessor is not kept.
versym_view_nxt_Stale(v) == v
versym_view_nxt(v) == v + 1

versym_add_entry(value) ==
  /\ kind = "versym"
  /\ Add(<<Truncated(value, HALF)>>, Truncated(value, HALF))
  /\ view' = versym_view_nxt(view)
  /\ UNCHANGED strtab

modify_entry(no, value) ==
  /\ kind = "versym" /\ no < view
  /\ data' = [data EXCEPT ![no + 1] = Truncated(value, HALF)]
  /\ added' = [added EXCEPT ![no + 1] = Truncated(value, HALF)]
  /\ UNCHANGED <<kind, elf_class, need_conversion, strtab, view>>

add_note(type, name, desc) ==
  /\ kind = "note"
  /\ Add(NoteBytes(Truncated(type, WORD), name, desc), [type |-> Truncated(type, WORD), name |-> name, desc |-> desc])
  /\ view' = Append(view, Len(data))
  /\ UNCHANGED strtab

add_attribute(field, value) ==
  /\ kind = "modinfo"
  /\ Add(<<field \o <<EQUALS>> \o value>>, [field |-> field, value |-> value])
  /\ view' = Append(view, [field |-> field, value |-> value])
  /\ UNCHANGED strtab

\* Another accessor is opened on the section.
reopen ==
  /\ view' = Opened
  /\ UNCHANGED <<kind, elf_class, need_conversion, data, strtab, added>>

EntriesNext ==
  \/ \E tag \in Tags \ {DT_NEEDED}, value \in Numbers : dynamic_add_entry(tag, value)
  \/ \E str \in {"libc", "libm"} : dynamic_add_string(str)
  \/ get_entries_num
  \/ \E value \in Numbers : array_add_entry(value) \/ versym_add_entry(value)
  \/ \E no \in 0..MAX_ENTRIES - 1, value \in Numbers : kind = "versym" /\ modify_entry(no, value)
  \/ \E type \in Numbers, name \in NoteNames, desc \in Descs : add_note(type, name, desc)
  \/ \E field \in Fields, value \in Values : add_attribute(field, value)
  \/ reopen

EntriesSpec == EntriesInit /\ [][EntriesNext]_entryVars

-----------------------------------------------------------------------------
\* Whatever is added through an accessor, in either class and byte order, an
\* accessor opened afterwards reads it back: the entries of before and those that
\* were added, in order.  Without FOREIGN_DYNAMIC this leaves out the dynamic
\* entries added to a 32-bit file of the other byte order, which are cut to the
\* wrong half of the converted number.
ReadsBack == Entries(Opened) = added

\* The accessor that added them reads the same, although it never looks at
\* the section again; of a dynamic section it may miss those added after
\* it has counted.
ViewIsCurrent ==
  LET mine == Entries(view)
  IN  IF kind = "dynamic" THEN IsPrefix(mine, added) ELSE mine = added
=============================================================================
