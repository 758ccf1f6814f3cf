--------------------------- MODULE ElfSymbolsProofs ---------------------------
(***************************************************************************)
(* The arrangement of a symbol table, for every number of symbols and of   *)
(* relocations: its loop invariant, that the local symbols come out first, *)
(* and that every relocation keeps its symbol and its value.               *)
(*                                                                         *)
(* The lookups: whatever was added or arranged since a hash section was    *)
(* written, a name is found when it is in the table, and what is found has *)
(* that name.  The chains of a hash section are followed by recursive      *)
(* functions.  That these exist, and what they end with, follows from the  *)
(* least of a set of numbers: no counterexample is the least one.          *)
(***************************************************************************)
EXTENDS ElfSymbols, ElfSectionProofs
(***************************************************************************)
(* Strings, symbols and relocations.                                       *)
(***************************************************************************)
StringsOK(s) == "size" \in DOMAIN s /\ s.size \in Nat

\* An addition leaves a section with a size.
LEMMA AppendSize ==
  ASSUME NEW s, StringsOK(s), NEW str
  PROVE  StringsOK(append_data(s, <<str>>))
BY DEF StringsOK, append_data

\* A string that is added has an index in the table.
LEMMA AddString ==
  ASSUME NEW s, StringsOK(s), NEW str
  PROVE  add_string(s, str).at \in Nat /\ StringsOK(add_string(s, str).sec)
BY AppendSize DEF add_string, StringsOK

\* The scans of an arrangement start at index 1, so the symbol at 0 must be
\* local: it is the null symbol, which nothing moves.
NullFirst == syms # <<>> => syms[1] = NullSymbol

\* The null symbol is a symbol.
LEMMA NullSymbolType == NullSymbol \in Symbol
BY DEF NullSymbol, Symbol, Binds

\* A table that gets a symbol keeps those it had, and ends with the new one.
LEMMA AddedTable ==
  ASSUME syms \in Seq(Symbol), NullFirst, NEW at \in Nat, NEW value \in Nat, NEW bind \in Binds
  PROVE  LET table == Added(at, value, bind)
         IN  /\ table \in Seq(Symbol)
             /\ Len(table) \in Nat /\ Len(table) > Len(syms)
             /\ \A k \in 1..Len(syms) : table[k] = syms[k]
             /\ table[1] = NullSymbol
<1> DEFINE new == [name |-> at, value |-> value, bind |-> bind]
<1>1. new \in Symbol
  BY DEF Symbol
<1> QED
  BY <1>1, NullSymbolType DEF Added, NullFirst

\* A type that was cut to a byte is cut no further.
LEMMA ModTwice ==
  ASSUME NEW t \in Nat, NEW b \in Nat \ {0}
  PROVE  t % b \in Nat /\ (t % b) % b = t % b
<1>1. t % b \in 0 .. b - 1
  OBVIOUS
<1>2. \A r \in 0 .. b - 1 : r % b = r
  OBVIOUS
<1> QED
  BY <1>1, <1>2

Reloc == [section : {"REL", "RELA"}, offset : Nat, sym : Nat, type : Nat, addend : Int]

\* A relocation is read with a type of a byte, and with its addend if its
\* section has addends.
LEMMA EntryRead ==
  ASSUME NEW r \in Reloc
  PROVE  /\ get_entry(r) \in Reloc
         /\ get_entry(r).section = r.section
         /\ get_entry(r).offset = r.offset
         /\ get_entry(r).sym = r.sym
         /\ get_entry(r).type = r.type % BYTE
         /\ get_entry(r).addend = IF r.section = "REL" THEN 0 ELSE r.addend
<1>1. r.type % BYTE \in Nat
  BY ModTwice, SymbolsAssumption DEF Reloc
<1>2. /\ generic_get_entry_rela(r) \in Reloc
      /\ generic_get_entry_rela(r) = [r EXCEPT !.type = r.type % BYTE]
  BY <1>1 DEF generic_get_entry_rela, Reloc
<1>3. CASE r.section = "REL"
  <2>1. get_entry(r) = [generic_get_entry_rela(r) EXCEPT !.addend = 0]
    BY <1>3 DEF get_entry, generic_get_entry_rel
  <2>2. get_entry(r) \in Reloc
    <3>1. generic_get_entry_rela(r) \in Reloc
      BY <1>2
    <3>2. \A q \in Reloc : [q EXCEPT !.addend = 0] \in Reloc
      BY DEF Reloc
    <3> QED
      BY <2>1, <3>1, <3>2
  <2>3. /\ get_entry(r).section = r.section
        /\ get_entry(r).offset = r.offset
        /\ get_entry(r).sym = r.sym
    BY <1>1, <1>2, <2>1 DEF Reloc
  <2>4. get_entry(r).type = r.type % BYTE
    <3>1. get_entry(r).type = generic_get_entry_rela(r).type
      BY <1>2, <2>1 DEF Reloc
    <3> QED
      BY <1>2, <3>1 DEF Reloc
  <2>5. get_entry(r).addend = 0
    BY <1>2, <2>1 DEF Reloc
  <2> QED
    BY <1>3, <2>2, <2>3, <2>4, <2>5
<1>4. CASE r.section # "REL"
  BY <1>1, <1>2, <1>4 DEF get_entry, Reloc
<1> QED
  BY <1>3, <1>4

\* What is written in a relocation is what it was given, but for the addend
\* its section has no place for.
LEMMA EntryWritten ==
  ASSUME NEW r \in Reloc, NEW e \in Reloc
  PROVE  /\ set_entry(r, e) \in Reloc
         /\ set_entry(r, e).section = r.section
         /\ set_entry(r, e).offset = e.offset
         /\ set_entry(r, e).sym = e.sym
         /\ set_entry(r, e).type = e.type
         /\ set_entry(r, e).addend = IF r.section = "REL" THEN r.addend ELSE e.addend
BY DEF set_entry, generic_set_entry_rel, generic_set_entry_rela, Reloc

\* What a relocation computes is a number.
LEMMA CalcType ==
  ASSUME NEW r \in Reloc, NEW S \in Nat
  PROVE  calcValue(r, S) \in Int
<1>1. get_entry(r) \in Reloc
  BY EntryRead
<1> QED
  BY <1>1 DEF calcValue, Reloc

\* A swap writes the entry it read, with another symbol or the same.
LEMMA SwappedEntry ==
  ASSUME NEW r \in Reloc, NEW i \in Nat, NEW j \in Nat
  PROVE  /\ Swapped(r, i, j) \in Reloc
         /\ Swapped(r, i, j).sym = IF r.sym = i THEN j ELSE IF r.sym = j THEN i ELSE r.sym
         /\ \/ Swapped(r, i, j) = r
            \/ \E e \in Reloc : /\ e = [get_entry(r) EXCEPT !.sym = e.sym]
                                /\ Swapped(r, i, j) = set_entry(r, e)
<1>1. CASE r.sym \notin {i, j}
  BY <1>1 DEF Swapped
<1>2. CASE r.sym \in {i, j}
  <2> DEFINE e == [get_entry(r) EXCEPT !.sym = IF @ = i THEN j ELSE i]
  <2>1. get_entry(r) \in Reloc /\ get_entry(r).sym = r.sym
    BY EntryRead
  <2>2. e \in Reloc /\ e.sym = IF r.sym = i THEN j ELSE i
    BY <2>1 DEF Reloc
  <2>3. Swapped(r, i, j) = set_entry(r, e)
    BY <1>2 DEF Swapped
  <2>4. set_entry(r, e) \in Reloc /\ set_entry(r, e).sym = e.sym
    BY <2>2, EntryWritten
  <2>5. e = [get_entry(r) EXCEPT !.sym = e.sym]
    BY <2>1, <2>2 DEF Reloc
  <2> QED
    BY <1>2, <2>2, <2>3, <2>4, <2>5
<1> QED
  BY <1>1, <1>2

\* What a swap writes in an entry leaves alone what it computes.
LEMMA SwappedKeepsMeaning ==
  ASSUME NEW r \in Reloc, NEW i \in Nat, NEW j \in Nat, NEW s \in Symbol
  PROVE  Meaning(Swapped(r, i, j), s) = Meaning(r, s)
<1>1. CASE Swapped(r, i, j) = r
  BY <1>1
<1>2. ASSUME NEW e \in Reloc, e = [get_entry(r) EXCEPT !.sym = e.sym], Swapped(r, i, j) = set_entry(r, e)
      PROVE  Meaning(Swapped(r, i, j), s) = Meaning(r, s)
  <2> DEFINE w == set_entry(r, e)
  <2>1. r.type % BYTE \in Nat /\ (r.type % BYTE) % BYTE = r.type % BYTE
    BY ModTwice, SymbolsAssumption DEF Reloc
  <2>2. e.offset = get_entry(r).offset /\ e.type = get_entry(r).type /\ e.addend = get_entry(r).addend
    BY <1>2, EntryRead DEF Reloc
  <2>3. w \in Reloc /\ w.section = r.section
    BY EntryWritten
  <2>4. get_entry(w).offset = get_entry(r).offset
    BY <2>2, <2>3, EntryRead, EntryWritten
  <2>5. get_entry(w).type = get_entry(r).type
    <3>1. w.type = r.type % BYTE
      BY <2>2, EntryRead, EntryWritten
    <3> QED
      BY <2>1, <2>3, <3>1, EntryRead
  <2>6. get_entry(w).addend = get_entry(r).addend
    BY <2>2, <2>3, EntryRead, EntryWritten
  <2> HIDE DEF w
  <2>7. calcValue(w, s.value) = calcValue(r, s.value)
    BY <2>4, <2>5, <2>6 DEF calcValue
  <2> QED
    BY <1>2, <2>7 DEF Meaning, w
<1> QED
  BY <1>1, <1>2, SwappedEntry

(***************************************************************************)
(* The loop of the arrangement.                                            *)
(***************************************************************************)
IInv == ArrangementInv /\ NullFirst /\ StringsOK(strs)

\* The invariant holds at first.
LEMMA SymbolsInitInv == SymbolsInit => IInv
<1> SUFFICES ASSUME SymbolsInit PROVE IInv
  OBVIOUS
<1>1. StringsOK(strs)
  BY DEF SymbolsInit, NewSection, StringsOK
<1>2. SymbolsTypeOK
  BY DEF SymbolsInit, SymbolsTypeOK, Step
<1>3. ArrangementInv
  BY <1>2 DEF ArrangementInv, SymbolsInit, idle
<1>4. NullFirst
  BY DEF SymbolsInit, NullFirst
<1> QED
  BY <1>1, <1>3, <1>4 DEF IInv

\* Outside an arrangement the invariant asks for types only.
LEMMA IdleInv ==
  ASSUME SymbolsTypeOK, idle
  PROVE  ArrangementInv
BY DEF ArrangementInv, idle

\* The entry written for a relocation of a symbol, and what it means.
LEMMA NewEntry ==
  ASSUME SymbolsTypeOK, NEW i \in Nat, NEW type \in Types, NEW addend \in Addends \cup {0}, NEW s \in Symbol
  PROVE  /\ Relocation(i, type, addend) \in Reloc
         /\ Meaning(Relocation(i, type, addend), s) \in [symbol : Symbol, calc : Int]
<1>1. Relocation(i, type, addend) \in Reloc
  BY SymbolsAssumption DEF SymbolsTypeOK, Relocation, Reloc
<1>2. calcValue(Relocation(i, type, addend), s.value) \in Int
  BY <1>1, CalcType DEF Symbol
<1> QED
  BY <1>1, <1>2 DEF Meaning

Arrangement == [step : Step, first_not_local : Nat, current : Nat]

\* A step of an arrangement that moves its indices only keeps the types.
LEMMA TablesUnchanged ==
  ASSUME SymbolsTypeOK, arr' \in Arrangement, info' \in Nat, UNCHANGED <<rel_type, syms, rels, meant>>
  PROVE  SymbolsTypeOK'
BY DEF SymbolsTypeOK, Arrangement

\* Types of the indices and of the entries.
LEMMA IndexType ==
  ASSUME SymbolsTypeOK
  PROVE  /\ arr.first_not_local \in Nat /\ arr.current \in Nat
         /\ info \in Nat
         /\ \A k \in DOMAIN rels : rels[k] \in Reloc
<1>1. info \in Nat /\ arr.first_not_local \in Nat /\ arr.current \in Nat
  BY DEF SymbolsTypeOK
<1>2. rels \in Seq(Reloc)
  BY DEF SymbolsTypeOK, Reloc
<1>3. \A k \in DOMAIN rels : rels[k] \in Reloc
  BY <1>2
<1> QED
  BY <1>1, <1>3

\* An index of the table and the symbol at it.
LEMMA SymAt ==
  ASSUME SymbolsTypeOK, NEW i \in SymbolIndices
  PROVE  /\ i \in Nat /\ Len(syms) \in Nat /\ i < Len(syms) /\ i + 1 \in DOMAIN syms
         /\ Sym(i) = syms[i + 1] /\ Sym(i) \in Symbol
<1>1. syms \in Seq(Symbol) /\ Len(syms) \in Nat
  BY DEF SymbolsTypeOK
<1>2. i \in Nat /\ i < Len(syms)
  BY <1>1 DEF SymbolIndices, get_symbols_num
<1> QED
  BY <1>1, <1>2 DEF Sym

\* Type of the table.
LEMMA TableType ==
  ASSUME SymbolsTypeOK
  PROVE  /\ syms \in Seq(Symbol)
         /\ get_symbols_num \in Nat /\ get_symbols_num = Len(syms)
BY DEF SymbolsTypeOK, get_symbols_num

\* Every step keeps the invariant.
LEMMA SymbolsNextInv == IInv /\ [SymbolsNext]_symbolVars => IInv'
<1> SUFFICES ASSUME IInv, [SymbolsNext]_symbolVars PROVE IInv'
  OBVIOUS
<1> USE DEF IInv
<1>0. SymbolsTypeOK
  BY DEF ArrangementInv
<1>1. ASSUME NEW name \in Names, NEW bind \in Binds, add_symbol(name, bind) PROVE IInv'
  <2>1. add_string(strs, name).at \in Nat /\ StringsOK(strs')
    BY <1>1, AddString DEF add_symbol
  <2> DEFINE table == Added(add_string(strs, name).at, get_symbols_num, bind)
  <2>2. table \in Seq(Symbol) /\ table[1] = NullSymbol
    BY <1>0, <2>1, TableType, AddedTable
  <2>3. syms' \in Seq(Symbol) /\ NullFirst'
    BY <1>1, <2>2 DEF add_symbol, NullFirst
  <2>4. SymbolsTypeOK' /\ idle'
    BY <1>0, <1>1, <2>3 DEF add_symbol, SymbolsTypeOK, idle
  <2> QED
    BY <2>1, <2>3, <2>4 DEF ArrangementInv, idle
<1>2. ASSUME NEW i \in SymbolIndices, NEW type \in Types, NEW addend \in Addends, add_entry(i, type, addend)
      PROVE  IInv'
  <2>1. i \in Nat /\ Sym(i) \in Symbol
    BY <1>0 DEF SymbolsTypeOK, SymbolIndices, Sym, get_symbols_num
  <2>2. rels' \in Seq(Reloc) /\ meant' \in Seq([symbol : Symbol, calc : Int])
    BY <1>0, <1>2, <2>1, NewEntry DEF add_entry, SymbolsTypeOK, Reloc
  <2>3. SymbolsTypeOK' /\ idle' /\ StringsOK(strs)' /\ NullFirst'
    BY <1>0, <1>2, <2>2 DEF add_entry, SymbolsTypeOK, idle, Reloc, NullFirst
  <2> QED
    BY <2>3 DEF ArrangementInv, idle
<1>3. ASSUME NEW name \in Names, NEW bind \in Binds, NEW type \in Types, add_entry_symbol(name, bind, type)
      PROVE  IInv'
  <2> DEFINE at == add_string(strs, name).at
             table == Added(at, get_symbols_num, bind)
             entry == Relocation(Len(table) - 1, type, 0)
  <2>1. at \in Nat /\ StringsOK(strs')
    BY <1>3, AddString DEF add_entry_symbol
  <2>2. /\ table \in Seq(Symbol) /\ Len(table) \in Nat /\ Len(table) > 0
        /\ table[1] = NullSymbol
    <3>1. /\ table \in Seq(Symbol) /\ Len(table) \in Nat /\ Len(table) > Len(syms)
          /\ table[1] = NullSymbol
      BY <1>0, <2>1, TableType, AddedTable
    <3> QED
      BY <1>0, <3>1, TableType
  <2>3. syms' = table /\ rels' = Append(rels, entry) /\ meant' = Append(meant, Meaning(entry, table[Len(table)]))
    BY <1>3 DEF add_entry_symbol
  <2>4. Len(table) - 1 \in Nat /\ table[Len(table)] \in Symbol
    BY <2>2
  <2> HIDE DEF table
  <2>5. entry \in Reloc /\ Meaning(entry, table[Len(table)]) \in [symbol : Symbol, calc : Int]
    BY <1>0, <2>4, NewEntry
  <2>6. SymbolsTypeOK' /\ idle' /\ NullFirst'
    BY <1>0, <1>3, <2>2, <2>3, <2>5 DEF add_entry_symbol, SymbolsTypeOK, idle, Reloc, NullFirst
  <2> QED
    BY <2>1, <2>6 DEF ArrangementInv, idle
<1>4. CASE link_hash
  BY <1>4, <1>0 DEF link_hash, NullFirst, SymbolsTypeOK, ArrangementInv, idle, StringsOK
<1>5. CASE arrange_local_symbols
  <2>1. SymbolsTypeOK'
    BY <1>5, <1>0 DEF arrange_local_symbols, SymbolsTypeOK, Step
  <2>2. \A k \in SymbolIndices : k < 1 => k \in Local
    BY <1>0 DEF NullFirst, NullSymbol, SymbolsTypeOK, SymbolIndices, Local, get_symbols_num, Sym
  <2> QED
    BY <1>5, <2>1, <2>2
    DEF arrange_local_symbols, NullFirst, ArrangementInv, idle, StringsOK, SymbolIndices, Local, get_symbols_num, Sym
<1>6. CASE SkipLocals
  <2> DEFINE i == arr.first_not_local
             j == arr.current
  <2>1. i \in Nat /\ j \in Nat /\ i > 0 /\ arr.step = "first" /\ i = arr.first_not_local
    BY <1>0, <1>6, IndexType DEF SkipLocals, ArrangementInv, idle
  <2>2. /\ \A k \in SymbolIndices : k < i => k \in Local
        /\ SymbolIndices' = SymbolIndices /\ Local' = Local
        /\ StringsOK(strs)' /\ NullFirst'
    BY <1>6, <2>1
    DEF SkipLocals, ArrangementInv, idle, SymbolIndices, Local, get_symbols_num, Sym, NullFirst, StringsOK
  <2>3. CASE i \in Local
    <3>1. arr' = [step |-> "first", first_not_local |-> i + 1, current |-> j]
      BY <1>0, <1>6, <2>1, <2>3 DEF SkipLocals, SymbolsTypeOK
    <3>2. SymbolsTypeOK'
      BY <1>0, <1>6, <2>1, <3>1, IndexType, TablesUnchanged DEF SkipLocals, Arrangement, Step
    <3>3. \A k \in SymbolIndices : k < i + 1 => k \in Local
      BY <2>1, <2>2, <2>3 DEF SymbolIndices
    <3> QED
      BY <2>1, <2>2, <3>1, <3>2, <3>3 DEF ArrangementInv, idle
  <2>4. CASE i \notin Local
    <3>1. arr' = [step |-> "second", first_not_local |-> i, current |-> i + 1]
      BY <1>6, <2>4 DEF SkipLocals, second_scan
    <3>2. SymbolsTypeOK'
      BY <1>0, <1>6, <2>1, <3>1, IndexType, TablesUnchanged DEF SkipLocals, Arrangement, Step
    <3>3. \A k \in SymbolIndices : i <= k /\ k < i + 1 => k \notin Local
      BY <2>1, <2>4 DEF SymbolIndices
    <3> QED
      BY <2>1, <2>2, <2>4, <3>1, <3>2, <3>3 DEF ArrangementInv, idle
  <2> QED
    BY <2>3, <2>4
<1>7. CASE SkipOthers
  <2> DEFINE i == arr.first_not_local
             j == arr.current
  <2>1. i \in Nat /\ j \in Nat /\ i > 0 /\ i < j /\ i \notin Local
    BY <1>0, <1>7, IndexType DEF SkipOthers, ArrangementInv, idle
  <2>2. /\ \A k \in SymbolIndices : k < i => k \in Local
        /\ \A k \in SymbolIndices : i <= k /\ k < j => k \notin Local
        /\ SymbolIndices' = SymbolIndices /\ Local' = Local
        /\ StringsOK(strs)' /\ NullFirst'
    BY <1>7, <2>1
    DEF SkipOthers, ArrangementInv, idle, SymbolIndices, Local, get_symbols_num, Sym, NullFirst, StringsOK
  <2>3. arr' = [step |-> "second", first_not_local |-> i, current |-> j + 1]
    BY <1>0, <1>7 DEF SkipOthers, SymbolsTypeOK
  <2>4. SymbolsTypeOK'
    <3>1. arr' \in Arrangement
      BY <2>1, <2>3 DEF Arrangement, Step
    <3>2. info' \in Nat
      BY <1>0, <1>7, IndexType DEF SkipOthers
    <3> QED
      BY <1>0, <1>7, <3>1, <3>2, TablesUnchanged DEF SkipOthers
  <2>5. \A k \in SymbolIndices : i <= k /\ k < j + 1 => k \notin Local
    BY <1>7, <2>1, <2>2 DEF SkipOthers, SymbolIndices
  <2> QED
    BY <2>1, <2>2, <2>3, <2>4, <2>5 DEF ArrangementInv, idle
<1>8. CASE Scanned
  <2>1. SymbolsTypeOK'
    <3>1. arr' \in Arrangement
      BY <1>0, <1>8 DEF Scanned, SymbolsTypeOK, Arrangement, Step
    <3>2. info' \in Nat
      BY <1>0, <1>8, IndexType DEF Scanned
    <3> QED
      BY <1>0, <1>8, <3>1, <3>2, TablesUnchanged DEF Scanned
  <2> QED
    BY <1>8, <2>1, <1>0
   
    DEF Scanned, BothFound, NullFirst, StringsOK, ArrangementInv, SymbolsTypeOK, idle, SymbolIndices, Local, get_symbols_num, Sym
<1>9. CASE swap_symbols
  <2>1. rels' \in Seq(Reloc)
    <3>1. \A k \in DOMAIN rels : Swapped(rels[k], arr.first_not_local, arr.current) \in Reloc
      BY <1>0, IndexType, SwappedEntry
    <3>2. \E n \in Nat : DOMAIN rels = 1..n
      BY <1>0 DEF SymbolsTypeOK
    <3> QED
      BY <1>9, <3>1, <3>2 DEF swap_symbols
  <2>2. SymbolsTypeOK'
    BY <1>9, <1>0, <2>1 DEF swap_symbols, SymbolsTypeOK, Step, Reloc
  <2> QED
    BY <1>9, <2>2
    DEF swap_symbols, NullFirst, StringsOK, ArrangementInv, idle, SymbolIndices, Local, get_symbols_num, Sym
<1>10. CASE Swap
  <2> DEFINE i == arr.first_not_local
             j == arr.current
  <2>1. i \in SymbolIndices /\ j \in SymbolIndices /\ i < j
    BY <1>10 DEF Swap, ArrangementInv, Local
  <2>2. syms' \in Seq(Symbol) /\ Len(syms') = Len(syms)
    BY <1>10, <1>0, <2>1 DEF Swap, SwappedSymbols, SymbolsTypeOK, SymbolIndices, get_symbols_num, Sym
  <2>3. SymbolsTypeOK'
    BY <1>10, <1>0, <2>2 DEF Swap, SymbolsTypeOK, Step
  <2>4. ASSUME NEW k \in SymbolIndices, k < i PROVE Sym(k)' = Sym(k)
    BY <1>10, <1>0, <2>1, <2>4 DEF Swap, SwappedSymbols, SymbolsTypeOK, SymbolIndices, get_symbols_num, Sym
  <2>5. NullFirst'
    <3>1. i > 0 /\ 0 \in SymbolIndices /\ syms # <<>>
      BY <1>10, <1>0, <2>1 DEF Swap, ArrangementInv, idle, SymbolsTypeOK, SymbolIndices, get_symbols_num
    <3>2. Sym(0)' = NullSymbol
      BY <2>4, <3>1 DEF NullFirst, Sym
    <3> QED
      BY <3>2 DEF NullFirst, Sym
  <2> QED
    BY <1>10, <2>2, <2>3, <2>4, <2>5
    DEF Swap, StringsOK, ArrangementInv, idle, SymbolIndices, Local, get_symbols_num
<1>11. CASE UNCHANGED symbolVars
  BY <1>11, <1>0
  DEF symbolVars, NullFirst, ArrangementInv, SymbolsTypeOK, idle, SymbolIndices, Local, get_symbols_num, Sym, StringsOK
<1> QED
  BY <1>1, <1>2, <1>3, <1>4, <1>5, <1>6, <1>7, <1>8, <1>9, <1>10, <1>11 DEF SymbolsNext

\* The loop invariant of arrange_local_symbols holds for every table.
THEOREM SymbolsArranged == SymbolsSpec => []ArrangementInv
<1>1. IInv => ArrangementInv
  BY DEF IInv
<1> QED
  BY <1>1, SymbolsInitInv, SymbolsNextInv, PTL DEF SymbolsSpec

\* The index that an arrangement leaves in the header splits the table.
LEMMA ScannedSplits ==
  ASSUME IInv, [SymbolsNext]_symbolVars, arr.step = "second", arr'.step = "idle"
  PROVE  \A i \in SymbolIndices : (i < info') <=> i \in Local
<1>0. SymbolsTypeOK
  BY DEF IInv, ArrangementInv
<1>1. Scanned
  <2>1. ~idle /\ arr.step # arr'.step
    BY DEF idle
  <2>2. arr # arr' /\ ~UNCHANGED symbolVars
    BY <2>1 DEF symbolVars
  <2>3. ASSUME NEW name \in Names, NEW bind \in Binds PROVE ~add_symbol(name, bind)
    BY <2>1 DEF add_symbol
  <2>4. ASSUME NEW i \in SymbolIndices, NEW type \in Types, NEW addend \in Addends PROVE ~add_entry(i, type, addend)
    BY <2>1 DEF add_entry
  <2>5. ASSUME NEW name \in Names, NEW bind \in Binds, NEW type \in Types PROVE ~add_entry_symbol(name, bind, type)
    BY <2>1 DEF add_entry_symbol
  <2>6. ~link_hash /\ ~arrange_local_symbols
    BY <2>1 DEF link_hash, arrange_local_symbols
  <2>7. ~SkipLocals /\ ~swap_symbols /\ ~Swap
    BY DEF SkipLocals, swap_symbols, Swap
  <2>8. ~SkipOthers
    BY <1>0 DEF SkipOthers, SymbolsTypeOK
  <2> QED
    BY <2>2, <2>3, <2>4, <2>5, <2>6, <2>7, <2>8 DEF SymbolsNext
<1>2. ~BothFound /\ info' = arr.first_not_local
  BY <1>1, <1>0 DEF Scanned, SymbolsTypeOK
<1>3. arr.first_not_local \in Nat /\ arr.current \in Nat /\ get_symbols_num \in Nat
  BY <1>0, IndexType, TableType
<1> QED
  BY <1>1, <1>2, <1>3 DEF IInv, ArrangementInv, idle, BothFound, SymbolIndices

\* When arrange_local_symbols returns, the index it leaves in the header
\* parts the local symbols from the others.
THEOREM SymbolsSplit == SymbolsSpec => LocalsComeFirst
<1>1. IInv /\ [SymbolsNext]_symbolVars =>
        [arr.step = "second" /\ arr'.step = "idle" =>
           \A i \in SymbolIndices : (i < info') <=> i \in Local]_symbolVars
  BY ScannedSplits
<1> QED
  BY <1>1, SymbolsInitInv, SymbolsNextInv, PTL DEF SymbolsSpec, LocalsComeFirst

(***************************************************************************)
(* The relocations.                                                        *)
(***************************************************************************)
\* No relocation has lost its symbol at first.
LEMMA KeepsInit == SymbolsInit => RelocationsKeepSymbols
BY DEF SymbolsInit, RelocationsKeepSymbols

\* A relocation appended to the table means what it was added for, and the
\* others what they meant, when the table keeps the symbols it had.
LEMMA KeepsAppend ==
  ASSUME IInv, IInv', RelocationsKeepSymbols, idle, idle',
         Len(syms') >= Len(syms),
         \A k \in 1..Len(syms) : syms'[k] = syms[k],
         NEW r \in Reloc, r.sym < Len(syms'),
         rels' = Append(rels, r),
         meant' = Append(meant, Meaning(r, syms'[r.sym + 1]))
  PROVE  RelocationsKeepSymbols'
<1>1. rels \in Seq(Reloc) /\ Len(meant) = Len(rels) /\ meant \in Seq([symbol : Symbol, calc : Int])
  BY DEF IInv, ArrangementInv, SymbolsTypeOK, RelocationsKeepSymbols, Reloc
<1>2. Len(meant') = Len(rels') /\ DOMAIN rels' = 1..Len(rels) + 1
  BY <1>1
<1>3. \A k \in DOMAIN rels' : Target(k)' = rels'[k].sym
  BY DEF Target, idle
<1>4. ASSUME NEW k \in 1..Len(rels)
      PROVE  /\ rels'[k].sym \in SymbolIndices'
             /\ Meaning(rels[k], Sym(rels[k].sym)') = meant'[k] /\ rels'[k] = rels[k]
  <2>1. rels'[k] = rels[k] /\ meant'[k] = meant[k] /\ k \in DOMAIN rels
    BY <1>1
  <2>2. rels[k].sym \in SymbolIndices /\ Meaning(rels[k], Sym(rels[k].sym)) = meant[k]
    BY <2>1 DEF RelocationsKeepSymbols, Target, idle
  <2>3. Sym(rels[k].sym)' = Sym(rels[k].sym) /\ rels[k].sym \in SymbolIndices'
    <3>1. rels[k].sym \in Nat /\ rels[k].sym + 1 \in 1..Len(syms)
      BY <2>2, TableType DEF SymbolIndices, get_symbols_num, IInv, ArrangementInv
    <3>2. Len(syms') \in Nat
      BY DEF IInv, ArrangementInv, SymbolsTypeOK
    <3> QED
      BY <3>1, <3>2 DEF Sym, SymbolIndices, get_symbols_num
  <2> QED
    BY <2>1, <2>2, <2>3
<1>5. /\ r.sym \in SymbolIndices'
      /\ rels'[Len(rels) + 1] = r /\ meant'[Len(rels) + 1] = Meaning(r, Sym(r.sym)')
  <2>1. r.sym \in Nat /\ Len(syms') \in Nat /\ Len(rels) \in Nat
    BY <1>1 DEF Reloc, IInv, ArrangementInv, SymbolsTypeOK
  <2>2. r.sym \in SymbolIndices'
    BY <2>1 DEF SymbolIndices, get_symbols_num
  <2>3. rels'[Len(rels) + 1] = r
    BY <1>1
  <2>4. meant'[Len(rels) + 1] = Meaning(r, syms'[r.sym + 1])
    BY <1>1
  <2> QED
    BY <2>2, <2>3, <2>4 DEF Sym
<1>6. ASSUME NEW k \in DOMAIN rels'
      PROVE  /\ Target(k)' \in SymbolIndices'
             /\ Meaning(rels'[k], Sym(Target(k))') = meant'[k]
  <2>1. CASE k \in 1..Len(rels)
    BY <1>3, <1>4, <2>1
  <2>2. CASE k = Len(rels) + 1
    BY <1>1, <1>2, <1>3, <1>5, <2>2
  <2> QED
    BY <1>1, <1>2, <2>1, <2>2
<1> QED
  BY <1>2, <1>6 DEF RelocationsKeepSymbols, Meaning

\* A table that grows keeps the symbols of its relocations.
LEMMA KeepsTable ==
  ASSUME IInv, RelocationsKeepSymbols, idle, idle',
         Len(syms') \in Nat, Len(syms') >= Len(syms),
         \A k \in 1..Len(syms) : syms'[k] = syms[k],
         UNCHANGED <<rels, meant>>
  PROVE  RelocationsKeepSymbols'
<1>1. syms \in Seq(Symbol) /\ Len(syms) \in Nat
  BY DEF IInv, ArrangementInv, SymbolsTypeOK
<1>2. ASSUME NEW k \in DOMAIN rels
      PROVE  /\ Target(k)' \in SymbolIndices'
             /\ Meaning(rels[k], Sym(Target(k))') = meant[k]
  <2>1. Target(k)' = rels[k].sym /\ Target(k) = rels[k].sym
    BY DEF Target, idle
  <2>2. rels[k].sym \in SymbolIndices /\ Meaning(rels[k], Sym(rels[k].sym)) = meant[k]
    BY <2>1 DEF RelocationsKeepSymbols
  <2>3. Sym(rels[k].sym)' = Sym(rels[k].sym) /\ rels[k].sym \in SymbolIndices'
    BY <1>1, <2>2 DEF Sym, SymbolIndices, get_symbols_num
  <2> QED
    BY <2>1, <2>2, <2>3
<1> QED
  BY <1>2 DEF RelocationsKeepSymbols, Meaning

\* No step makes a relocation lose its symbol or its value.
LEMMA KeepsNext == IInv /\ IInv' /\ RelocationsKeepSymbols /\ [SymbolsNext]_symbolVars => RelocationsKeepSymbols'
<1> SUFFICES ASSUME IInv, IInv', RelocationsKeepSymbols, [SymbolsNext]_symbolVars
             PROVE  RelocationsKeepSymbols'
  OBVIOUS
<1>0. SymbolsTypeOK
  BY DEF IInv, ArrangementInv
<1>1. ASSUME NEW name \in Names, NEW bind \in Binds, add_symbol(name, bind) PROVE RelocationsKeepSymbols'
  <2> DEFINE table == Added(add_string(strs, name).at, get_symbols_num, bind)
  <2>1. add_string(strs, name).at \in Nat /\ syms' = table /\ idle /\ idle'
    BY <1>1, AddString DEF IInv, add_symbol, idle
  <2>2. /\ Len(table) \in Nat /\ Len(table) > Len(syms)
        /\ \A k \in 1..Len(syms) : table[k] = syms[k]
    BY <1>0, <2>1, TableType, AddedTable DEF IInv
  <2> HIDE DEF table
  <2> QED
    BY <1>1, <2>1, <2>2, KeepsTable DEF add_symbol
<1>2. ASSUME NEW i \in SymbolIndices, NEW type \in Types, NEW addend \in Addends, add_entry(i, type, addend)
      PROVE  RelocationsKeepSymbols'
  <2>1. i \in Nat /\ i < Len(syms) /\ Sym(i) \in Symbol /\ Len(syms) \in Nat
    BY <1>0, SymAt
  <2>2. Relocation(i, type, addend) \in Reloc /\ Relocation(i, type, addend).sym = i
    BY <1>0, <2>1, NewEntry DEF Relocation
  <2>3. /\ idle /\ idle' /\ syms' = syms
        /\ rels' = Append(rels, Relocation(i, type, addend))
        /\ meant' = Append(meant, Meaning(Relocation(i, type, addend), syms[i + 1]))
    BY <1>2 DEF add_entry, Sym, idle
  <2> QED
    BY <2>1, <2>2, <2>3, KeepsAppend
<1>3. ASSUME NEW name \in Names, NEW bind \in Binds, NEW type \in Types, add_entry_symbol(name, bind, type)
      PROVE  RelocationsKeepSymbols'
  <2> DEFINE at == add_string(strs, name).at
             table == Added(at, get_symbols_num, bind)
             entry == Relocation(Len(table) - 1, type, 0)
  <2>1. at \in Nat /\ idle /\ idle'
    BY <1>3, AddString DEF IInv, add_entry_symbol, idle
  <2>2. /\ table \in Seq(Symbol) /\ Len(table) \in Nat /\ Len(table) > Len(syms)
        /\ \A k \in 1..Len(syms) : table[k] = syms[k]
    BY <1>0, <2>1, TableType, AddedTable DEF IInv
  <2>3. syms' = table /\ rels' = Append(rels, entry) /\ meant' = Append(meant, Meaning(entry, table[Len(table)]))
    BY <1>3 DEF add_entry_symbol
  <2>4. Len(syms) \in Nat /\ Len(table) - 1 \in Nat /\ (Len(table) - 1) + 1 = Len(table)
        /\ table[Len(table)] \in Symbol
    BY <1>0, <2>2, TableType
  <2> HIDE DEF table
  <2>5. entry \in Reloc /\ entry.sym = Len(table) - 1
    BY <1>0, <2>4, NewEntry DEF Relocation
  <2> HIDE DEF entry
  <2> QED
    BY <2>1, <2>2, <2>3, <2>4, <2>5, KeepsAppend
<1>4. CASE /\ UNCHANGED <<syms, rels, meant>>
           /\ arr.step # "swap" /\ arr'.step # "swap"
  BY <1>4 DEF RelocationsKeepSymbols, Target, Sym, SymbolIndices, get_symbols_num, Meaning
<1>5. CASE link_hash \/ arrange_local_symbols \/ SkipLocals \/ SkipOthers \/ Scanned
  <2>1. UNCHANGED <<syms, rels, meant>> /\ arr.step # "swap"
    BY <1>5 DEF link_hash, arrange_local_symbols, SkipLocals, SkipOthers, Scanned, idle
  <2>2. arr'.step # "swap"
    BY <1>5, <1>0
    DEF link_hash, arrange_local_symbols, SkipLocals, SkipOthers, Scanned, idle, second_scan, SymbolsTypeOK
  <2> QED
    BY <1>4, <2>1, <2>2
<1>6. CASE swap_symbols
  <2> DEFINE i == arr.first_not_local
             j == arr.current
  <2>1. /\ i \in Nat /\ j \in Nat /\ i < j /\ i \in SymbolIndices /\ j \in SymbolIndices
        /\ arr.step = "callback"
    BY <1>0, <1>6, IndexType DEF swap_symbols, IInv, ArrangementInv, Local
  <2>2. arr'.step = "swap" /\ arr'.first_not_local = i /\ arr'.current = j
    BY <1>0, <1>6 DEF swap_symbols, SymbolsTypeOK
  <2>3. syms' = syms /\ meant' = meant /\ rels' = [k \in DOMAIN rels |-> Swapped(rels[k], i, j)]
    BY <1>6 DEF swap_symbols
  <2>4. DOMAIN rels' = DOMAIN rels /\ Len(rels') = Len(rels)
    BY <1>0, <2>3 DEF IInv, ArrangementInv, SymbolsTypeOK
  <2>5. ASSUME NEW k \in DOMAIN rels
        PROVE  /\ Target(k)' \in SymbolIndices'
               /\ Meaning(rels'[k], Sym(Target(k))') = meant'[k]
    <3>1. rels[k] \in Reloc /\ rels'[k] = Swapped(rels[k], i, j)
      BY <1>0, <2>3, IndexType
    <3>2. Target(k) = rels[k].sym
      BY <2>1 DEF Target
    <3>3. rels[k].sym \in SymbolIndices /\ Meaning(rels[k], Sym(rels[k].sym)) = meant[k]
      BY <3>2 DEF RelocationsKeepSymbols
    <3>4. Target(k)' = rels[k].sym
      BY <2>1, <2>2, <3>1, SwappedEntry DEF Target
    <3>5. Sym(Target(k))' = Sym(rels[k].sym) /\ SymbolIndices' = SymbolIndices
      BY <2>3, <3>4 DEF Sym, SymbolIndices, get_symbols_num
    <3>6. Sym(rels[k].sym) \in Symbol
      BY <1>0, <3>3, SymAt
    <3>7. Meaning(rels'[k], Sym(rels[k].sym)) = Meaning(rels[k], Sym(rels[k].sym))
      BY <2>1, <3>1, <3>6, SwappedKeepsMeaning
    <3> QED
      BY <2>3, <3>3, <3>4, <3>5, <3>7
  <2>6. Len(meant') = Len(rels')
    BY <2>3, <2>4 DEF RelocationsKeepSymbols
  <2> QED
    BY <2>4, <2>5, <2>6 DEF RelocationsKeepSymbols, Meaning
<1>7. CASE Swap
  <2> DEFINE i == arr.first_not_local
             j == arr.current
  <2>1. /\ i \in SymbolIndices /\ j \in SymbolIndices /\ i < j
        /\ arr.step = "swap" /\ arr'.step = "first"
    BY <1>0, <1>7 DEF Swap, IInv, ArrangementInv, Local, SymbolsTypeOK
  <2>2. syms' = [syms EXCEPT ![i + 1] = Sym(j), ![j + 1] = Sym(i)] /\ UNCHANGED <<rels, meant>>
    BY <1>7 DEF Swap, SwappedSymbols
  <2>3. SymbolIndices' = SymbolIndices
    BY <1>0, <2>1, <2>2 DEF SymbolsTypeOK, SymbolIndices, get_symbols_num
  <2>4. ASSUME NEW k \in DOMAIN rels
        PROVE  /\ Target(k)' \in SymbolIndices'
               /\ Sym(Target(k))' = Sym(Target(k))
    <3>1. Target(k)' = rels[k].sym
      BY <2>1, <2>2 DEF Target
    <3>2. /\ rels[k].sym = i => Target(k) = j
          /\ rels[k].sym = j => Target(k) = i
          /\ rels[k].sym \notin {i, j} => Target(k) = rels[k].sym
      BY <2>1 DEF Target
    <3>3. Target(k) \in SymbolIndices
      BY DEF RelocationsKeepSymbols
    <3>4. rels[k].sym \in SymbolIndices
      BY <2>1, <3>2, <3>3
    <3> QED
      <4>1. /\ i \in Nat /\ i + 1 \in DOMAIN syms /\ Sym(i) = syms[i + 1]
            /\ j \in Nat /\ j + 1 \in DOMAIN syms /\ Sym(j) = syms[j + 1]
        BY <1>0, <2>1, SymAt
      <4>2. Sym(Target(k))' = syms'[Target(k)' + 1]
        BY DEF Sym
      <4>3. Sym(Target(k))' = Sym(Target(k))
        <5> DEFINE t == rels[k].sym
        <5>1. t \in Nat /\ t + 1 \in DOMAIN syms /\ Sym(t) = syms[t + 1] /\ Sym(Target(k))' = syms'[t + 1]
          BY <1>0, <3>1, <3>4, <4>2, SymAt
        <5>2. CASE t = i
          BY <2>1, <2>2, <3>2, <4>1, <5>1, <5>2
        <5>3. CASE t = j
          BY <2>2, <3>2, <4>1, <5>1, <5>3
        <5>4. CASE t \notin {i, j}
          BY <2>2, <3>2, <4>1, <5>1, <5>4
        <5> QED
          BY <5>2, <5>3, <5>4
      <4> QED
        BY <2>3, <3>1, <3>4, <4>3
  <2> QED
    BY <2>2, <2>3, <2>4 DEF RelocationsKeepSymbols, Meaning
<1>8. CASE UNCHANGED symbolVars
  BY <1>8 DEF symbolVars, RelocationsKeepSymbols, Target, Sym, SymbolIndices, get_symbols_num, Meaning
<1> QED
  BY <1>1, <1>2, <1>3, <1>5, <1>6, <1>7, <1>8 DEF SymbolsNext

\* Through every sequence of additions and arrangements, the callback that
\* swaps the entries of the relocation section keeps each with its symbol.
THEOREM RelocationsKept == SymbolsSpec => []RelocationsKeepSymbols
BY SymbolsInitInv, SymbolsNextInv, KeepsInit, KeepsNext, PTL DEF SymbolsSpec

(***************************************************************************)
(* Chains, and the lookups.                                                *)
(***************************************************************************)
ChainWalk(f, n, done, chain) == [y \in 0..n |-> IF y \in done THEN y ELSE f[chain[y + 1]]]

\* A chain that goes down, to the place 0 or to one where the walk is done.
LEMMA Descent ==
  ASSUME NEW n \in Nat, n > 0, NEW chain \in [1..n -> 0..n - 1],
         \A y \in 1..n - 1 : chain[y + 1] < y,
         NEW done, 0 \in done, n \in done
  PROVE  /\ \E f : f = ChainWalk(f, n, done, chain)
         /\ \A f : f = ChainWalk(f, n, done, chain) => \A y \in 0..n - 1 : f[y] \in 0..n - 1
<1> DEFINE S == 0..n
           C == 0..n - 1
           next == [y \in S |-> IF y \in C THEN chain[y + 1] ELSE 0]
           id == [y \in S |-> y]
<1>1. next \in [S -> S] /\ id \in [S -> 0..n] /\ C \subseteq S
  OBVIOUS
<1>2. ASSUME NEW y \in S, y \notin done
      PROVE  y \in C /\ next[y] = chain[y + 1] /\ next[y] \in C /\ id[next[y]] < id[y]
  <2>1. y \in 1..n - 1
    BY <1>2
  <2> QED
    BY <2>1
<1>3. \A f : Walk(f, S, done, id, next) = ChainWalk(f, n, done, chain)
  BY <1>2 DEF Walk, ChainWalk
<1>4. Ranked(S, n, id, done, next)
  BY <1>1, <1>2 DEF Ranked
<1>5. Closed(C, S, done, next)
  BY <1>1, <1>2 DEF Closed
<1>6. \A y \in C : id[y] = y
  BY <1>1
<1> HIDE DEF S, C, next, id
<1>7. \E f : f = Walk(f, S, done, id, next)
  BY <1>4, WalkExists DEF HasWalk
<1>8. ASSUME NEW f, f = Walk(f, S, done, id, next), NEW y \in C
      PROVE  f[y] \in C
  <2>1. Stops(f, y, C, done, id)
    BY <1>4, <1>5, <1>8, WalkStops
  <2> QED
    BY <1>6, <2>1 DEF Stops
<1> QED
  BY <1>3, <1>7, <1>8 DEF S, C

RunWalk(f, n, done, val) == [k \in 0..n - 1 |-> IF k \in done THEN val[k] ELSE f[k + 1]]

\* A run that goes up, to its last place or to one where the walk is done.
LEMMA Ascent ==
  ASSUME NEW n \in Nat, n > 0, NEW done, n - 1 \in done, NEW val
  PROVE  /\ \E f : f = RunWalk(f, n, done, val)
         /\ \A f : f = RunWalk(f, n, done, val) => \A k \in 0..n - 1 : Stops(f, k, 0..n - 1, done, val)
<1> DEFINE S == 0..n - 1
           next == [k \in S |-> IF k + 1 < n THEN k + 1 ELSE k]
           rank == [k \in S |-> n - 1 - k]
<1>1. next \in [S -> S] /\ rank \in [S -> 0..n]
  OBVIOUS
<1>2. ASSUME NEW k \in S, k \notin done
      PROVE  next[k] = k + 1 /\ next[k] \in S /\ rank[next[k]] < rank[k]
  <2>1. k + 1 < n
    BY <1>2
  <2> QED
    BY <2>1
<1>3. \A f : Walk(f, S, done, val, next) = RunWalk(f, n, done, val)
  BY <1>2 DEF Walk, RunWalk
<1>4. Ranked(S, n, rank, done, next) /\ Closed(S, S, done, next)
  BY <1>1, <1>2 DEF Ranked, Closed
<1> HIDE DEF S, next, rank
<1>5. \E f : f = Walk(f, S, done, val, next)
  BY <1>4, WalkExists DEF HasWalk
<1>6. ASSUME NEW f, f = Walk(f, S, done, val, next)
      PROVE  \A k \in S : Stops(f, k, S, done, val)
  BY <1>4, <1>6, WalkStops
<1> QED
  BY <1>3, <1>5, <1>6 DEF S

(***************************************************************************)
(* What a hash section keeps of the table it was written for: its chains   *)
(* go down, its runs end, and neither leaves the table, which only grows.  *)
(***************************************************************************)
SysvOK(h, size) ==
  /\ h.nbucket \in Nat \ {0} /\ h.nchain \in Nat
  /\ 0 < h.nchain /\ h.nchain <= size
  /\ h.bucket \in [0..h.nbucket - 1 -> 0..h.nchain - 1]
  /\ h.chain \in [1..h.nchain -> 0..h.nchain - 1]
  /\ \A y \in 1..h.nchain - 1 : h.chain[y + 1] < y

GnuOK(h, size) ==
  /\ h.nbucket \in Nat \ {0} /\ h.symoffset \in Nat
  /\ Len(h.chain) \in Nat \ {0}
  /\ h.symoffset + Len(h.chain) <= size
  /\ h.chain[Len(h.chain)].last
  /\ h.bucket \in [0..h.nbucket - 1 -> 0..h.symoffset + Len(h.chain) - 1]

HashInv ==
  /\ hash.type = "HASH" => SysvOK(hash, get_symbols_num)
  /\ hash.type = "GNU_HASH" => GnuOK(hash, get_symbols_num)

\* The chain of the SysV section ends inside the table.
LEMMA ChainEnds ==
  ASSUME get_symbols_num \in Nat, SysvOK(hash, get_symbols_num), NEW name, NEW y \in 0..hash.nchain - 1
  PROVE  hash_chain(name)[y] \in SymbolIndices
<1> DEFINE n == hash.nchain
           chain == hash.chain
           done == {k \in 0..n : k = STN_UNDEF \/ k >= n \/ NameOf(k) = name}
           f == hash_chain(name)
<1>1. n \in Nat /\ 0 < n /\ n <= get_symbols_num /\ chain \in [1..n -> 0..n - 1]
      /\ \A k \in 1..n - 1 : chain[k + 1] < k
  BY DEF SysvOK
<1>2. 0 \in done /\ n \in done
  BY <1>1 DEF STN_UNDEF
<1>3. f = CHOOSE g : g = ChainWalk(g, n, done, chain)
  <2>1. \A g : ChainWalk(g, n, done, chain) = [k \in 0..n |-> IF k = STN_UNDEF \/ k >= n \/ NameOf(k) = name
                                        THEN k ELSE g[chain[k + 1]]]
    BY DEF ChainWalk
  <2> QED
    BY <2>1 DEF hash_chain
<1>4. y \in 0..n - 1
  OBVIOUS
<1> HIDE DEF n, chain, done, f
<1>5. f[y] \in 0..n - 1
  BY <1>1, <1>2, <1>3, <1>4, Descent
<1> QED
  BY <1>1, <1>5 DEF f, SymbolIndices

\* A run of the GNU section ends at a symbol of that name, inside the table, or
\* says that there is none.
LEMMA RunEnds ==
  ASSUME get_symbols_num \in Nat, GnuOK(hash, get_symbols_num), NEW name, NEW y \in 0..Len(hash.chain) - 1,
         gnu_hash_run(name)[y] # NotFound
  PROVE  /\ gnu_hash_run(name)[y] \in SymbolIndices
         /\ NameOf(gnu_hash_run(name)[y]) = name
<1> DEFINE n == Len(hash.chain)
           off == hash.symoffset
           Is(k) == hash.chain[k + 1].hash = elf_hash[name] \div 2 /\ NameOf(k + off) = name
           done == {k \in 0..n - 1 : Is(k) \/ hash.chain[k + 1].last}
           val == [k \in 0..n - 1 |-> IF Is(k) THEN k + off ELSE NotFound]
           f == gnu_hash_run(name)
<1>1. n \in Nat /\ n > 0 /\ off \in Nat /\ off + n <= get_symbols_num /\ hash.chain[n].last
  BY DEF GnuOK
<1>2. n - 1 \in done
  <2>1. n - 1 \in 0..n - 1 /\ (n - 1) + 1 = n
    BY <1>1
  <2> QED
    BY <1>1, <2>1
<1>3. f = CHOOSE g : g = RunWalk(g, n, done, val)
  <2>1. \A g : RunWalk(g, n, done, val) = [k \in 0..n - 1 |-> IF Is(k) THEN k + off
                                            ELSE IF hash.chain[k + 1].last THEN NotFound ELSE g[k + 1]]
    BY DEF RunWalk
  <2> QED
    BY <2>1 DEF gnu_hash_run
<1>4. y \in 0..n - 1 /\ f[y] # NotFound
  OBVIOUS
<1>5. \A j \in 0..n - 1 : val[j] # NotFound => val[j] = j + off /\ NameOf(j + off) = name
  OBVIOUS
<1> HIDE DEF n, off, done, val, f
<1>6. f = RunWalk(f, n, done, val)
  BY <1>1, <1>2, <1>3, Ascent
<1>7. Stops(f, y, 0..n - 1, done, val)
  BY <1>1, <1>2, <1>4, <1>6, Ascent
<1>8. PICK j \in 0..n - 1 : f[y] = val[j]
  BY <1>7 DEF Stops
<1>9. f[y] = j + off /\ NameOf(f[y]) = name
  BY <1>4, <1>5, <1>8
<1>10. j + off \in SymbolIndices
  BY <1>1 DEF SymbolIndices
<1> QED
  BY <1>9, <1>10 DEF f

\* Whichever the hash section, it may miss a name but gives no symbol of another.
LEMMA HashedHasName ==
  ASSUME get_symbols_num \in Nat, HashInv, NEW name \in Names
  PROVE  /\ hash.type = "HASH" /\ hash_lookup(name) # NotFound
              => hash_lookup(name) \in SymbolIndices /\ NameOf(hash_lookup(name)) = name
         /\ hash.type = "GNU_HASH" /\ gnu_hash_lookup(name) # NotFound
              => gnu_hash_lookup(name) \in SymbolIndices /\ NameOf(gnu_hash_lookup(name)) = name
<1>1. elf_hash[name] \in Nat
  BY SymbolsAssumption
<1>2. ASSUME hash.type = "HASH", hash_lookup(name) # NotFound
      PROVE  hash_lookup(name) \in SymbolIndices /\ NameOf(hash_lookup(name)) = name
  <2> DEFINE b == elf_hash[name] % hash.nbucket
             y == hash.bucket[b]
  <2>1. SysvOK(hash, get_symbols_num)
    BY <1>2 DEF HashInv
  <2>2. b \in 0..hash.nbucket - 1
    BY <1>1, <2>1 DEF SysvOK
  <2>3. y \in 0..hash.nchain - 1
    BY <2>1, <2>2 DEF SysvOK
  <2> HIDE DEF y
  <2>4. hash_chain(name)[y] \in SymbolIndices
    BY <2>1, <2>3, ChainEnds
  <2> QED
    BY <1>2, <2>4 DEF hash_lookup, y
<1>3. ASSUME hash.type = "GNU_HASH", gnu_hash_lookup(name) # NotFound
      PROVE  gnu_hash_lookup(name) \in SymbolIndices /\ NameOf(gnu_hash_lookup(name)) = name
  <2> DEFINE b == elf_hash[name] % hash.nbucket
             first == hash.bucket[b]
             y == first - hash.symoffset
  <2>1. GnuOK(hash, get_symbols_num)
    BY <1>3 DEF HashInv
  <2>2. b \in 0..hash.nbucket - 1
    BY <1>1, <2>1 DEF GnuOK
  <2>3. first \in 0..hash.symoffset + Len(hash.chain) - 1
    BY <2>1, <2>2 DEF GnuOK
  <2> HIDE DEF b
  <2>4. first >= hash.symoffset /\ gnu_hash_lookup(name) = gnu_hash_run(name)[y]
    BY <1>3 DEF gnu_hash_lookup, b
  <2> HIDE DEF first
  <2>5. y \in 0..Len(hash.chain) - 1
    BY <2>1, <2>3, <2>4 DEF GnuOK
  <2> HIDE DEF y
  <2> QED
    BY <1>3, <2>1, <2>4, <2>5, RunEnds
<1> QED
  BY <1>2, <1>3

\* Whatever the hash section misses is looked for one by one.
LEMMA NamesAreFound ==
  ASSUME get_symbols_num \in Nat, HashInv, NEW name \in Names
  PROVE  LET found == get_symbol_by_name(name)
         IN  IF \E i \in SymbolIndices : NameOf(i) = name
             THEN found \in SymbolIndices /\ NameOf(found) = name
             ELSE found = NotFound
<1> DEFINE all == {i \in SymbolIndices : NameOf(i) = name}
           hashed == CASE hash.type = "HASH"     -> hash_lookup(name)
                       [] hash.type = "GNU_HASH" -> gnu_hash_lookup(name)
                       [] OTHER                  -> NotFound
<1>1. hashed # NotFound => hashed \in all
  BY HashedHasName
<1>2. all # {} => Min(all) \in all
  BY MinIsIn DEF SymbolIndices
<1>3. get_symbol_by_name(name) = IF hashed # NotFound THEN hashed ELSE IF all = {} THEN NotFound ELSE Min(all)
  BY DEF get_symbol_by_name, FirstOf
<1> HIDE DEF hashed
<1> QED
  BY <1>1, <1>2, <1>3

(***************************************************************************)
(* What is linked is a hash section as above.                              *)
(***************************************************************************)
LEMMA SysvLinked ==
  ASSUME get_symbols_num \in Nat, get_symbols_num > 1, NEW n \in Nat \ {0}
  PROVE  SysvOK(SysvHash(n), get_symbols_num)
<1> DEFINE size == get_symbols_num
           Others == SymbolIndices \ {STN_UNDEF}
           InBucket(b) == OrUndef({i \in Others : Bucket(i, n) = b})
           Below(k) == OrUndef({i \in Others : i < k - 1 /\ Bucket(i, n) = Bucket(k - 1, n)})
           bucket == [b \in 0..n - 1 |-> Max(InBucket(b))]
           chain == [k \in 1..size |-> IF k = 1 THEN STN_UNDEF ELSE Max(Below(k))]
<1>1. size \in Nat /\ size > 1 /\ Others \subseteq 0..size - 1 /\ STN_UNDEF = 0
  BY DEF SymbolIndices, STN_UNDEF
<1>2. \A b \in 0..n - 1 : Max(InBucket(b)) \in 0..size - 1
  <2> SUFFICES ASSUME NEW b \in 0..n - 1 PROVE Max(InBucket(b)) \in 0..size - 1
    OBVIOUS
  <2>1. InBucket(b) \subseteq 0..size - 1 /\ InBucket(b) # {}
    BY <1>1 DEF OrUndef
  <2> HIDE DEF InBucket
  <2> QED
    BY <1>1, <2>1, MaxIsIn
<1>3. \A k \in 2..size : Max(Below(k)) \in 0..size - 1 /\ Max(Below(k)) < k - 1
  <2> SUFFICES ASSUME NEW k \in 2..size PROVE Max(Below(k)) \in 0..size - 1 /\ Max(Below(k)) < k - 1
    OBVIOUS
  <2>1. Below(k) \subseteq 0..k - 2 /\ Below(k) # {} /\ k - 2 \in Nat
    BY <1>1 DEF OrUndef
  <2> HIDE DEF Below
  <2>2. Max(Below(k)) \in 0..k - 2
    BY <2>1, MaxIsIn
  <2> QED
    BY <1>1, <2>2
<1>4. /\ SysvHash(n).nbucket = n /\ SysvHash(n).nchain = size
      /\ SysvHash(n).bucket = bucket /\ SysvHash(n).chain = chain
  BY DEF SysvHash
<1> HIDE DEF InBucket, Below
<1>5. bucket \in [0..n - 1 -> 0..size - 1]
  BY <1>2
<1>6. chain \in [1..size -> 0..size - 1] /\ \A y \in 1..size - 1 : chain[y + 1] < y
  BY <1>1, <1>3
<1> HIDE DEF bucket, chain, size
<1> QED
  BY <1>1, <1>4, <1>5, <1>6 DEF SysvOK, size

LEMMA GnuLinked ==
  ASSUME get_symbols_num \in Nat, NEW n \in Nat \ {0}, NEW from \in SymbolIndices, NEW others
  PROVE  GnuOK(GnuHash(n, from, others), get_symbols_num)
<1> DEFINE size == get_symbols_num
           len == size - from
           Hashed == from..size - 1
           InBucket(b) == OrUndef({i \in Hashed : Bucket(i, n) = b})
           bucket == [b \in 0..n - 1 |-> Min(InBucket(b))]
           chain == [k \in 1..len |->
                       LET i == from + k - 1
                       IN  [hash |-> elf_hash[NameOf(i)] \div 2,
                            last |-> i + 1 \notin Hashed \/ Bucket(i + 1, n) # Bucket(i, n)]]
<1>1. size \in Nat /\ from \in Nat /\ len \in Nat \ {0} /\ from + len = size
      /\ Hashed \subseteq 0..size - 1 /\ 0 \in 0..size - 1 /\ STN_UNDEF = 0
  BY DEF SymbolIndices, STN_UNDEF
<1>2. \A b \in 0..n - 1 : Min(InBucket(b)) \in 0..size - 1
  <2> SUFFICES ASSUME NEW b \in 0..n - 1 PROVE Min(InBucket(b)) \in 0..size - 1
    OBVIOUS
  <2>1. InBucket(b) \subseteq 0..size - 1 /\ InBucket(b) # {}
    BY <1>1 DEF OrUndef
  <2> HIDE DEF InBucket
  <2>2. InBucket(b) \subseteq Nat
    BY <1>1, <2>1
  <2> QED
    BY <2>1, <2>2, MinIsIn
<1>3. /\ GnuHash(n, from, others).nbucket = n /\ GnuHash(n, from, others).symoffset = from
      /\ GnuHash(n, from, others).bucket = bucket /\ GnuHash(n, from, others).chain = chain
  BY DEF GnuHash
<1>4. Len(chain) = len
  BY <1>1
<1>5. chain[len].last
  <2>1. len \in 1..len /\ from + len - 1 + 1 \notin Hashed
    BY <1>1
  <2> QED
    BY <2>1
<1> HIDE DEF InBucket, chain
<1>6. bucket \in [0..n - 1 -> 0..size - 1]
  BY <1>2
<1> HIDE DEF bucket, size, len
<1> QED
  BY <1>1, <1>3, <1>4, <1>5, <1>6 DEF GnuOK, size

\* A table that grows keeps what a hash section says of it.
LEMMA HashKept ==
  ASSUME get_symbols_num \in Nat, get_symbols_num' \in Nat, get_symbols_num <= get_symbols_num',
         HashInv, UNCHANGED hash
  PROVE  HashInv'
BY DEF HashInv, SysvOK, GnuOK

(***************************************************************************)
(* Values: each symbol has that of the length of the table it was added    *)
(* to, so no two have the same, but for the null symbol and the first one. *)
(***************************************************************************)
ValuesInv ==
  /\ \A k \in 1..Len(syms) : syms[k].value < Len(syms)
  /\ \A k, l \in 1..Len(syms) : syms[k].value = syms[l].value /\ syms[k].value # 0 => k = l

LEMMA ValuesAdded ==
  ASSUME SymbolsTypeOK, ValuesInv, NEW at \in Nat, NEW bind \in Binds,
         syms' = Added(at, get_symbols_num, bind)
  PROVE  ValuesInv'
<1> DEFINE new == [name |-> at, value |-> Len(syms), bind |-> bind]
<1>1. syms \in Seq(Symbol) /\ Len(syms) \in Nat
  BY TableType
<1>2. \A k \in 1..Len(syms) : syms[k].value \in Nat
  <2>1. \A k \in 1..Len(syms) : syms[k] \in Symbol
    BY <1>1
  <2> QED
    BY <2>1 DEF Symbol
<1>3. new.value = Len(syms)
  OBVIOUS
<1>4. syms' = (IF syms = <<>> THEN <<NullSymbol>> ELSE syms) \o <<new>>
  BY DEF Added, get_symbols_num
<1>5. new \in Symbol
  BY <1>1 DEF Symbol
<1> HIDE DEF new
<1>6. CASE syms = <<>>
  <2>1. Len(syms) = 0 /\ syms' = <<NullSymbol>> \o <<new>>
    BY <1>4, <1>6
  <2>2. Len(syms') = 2 /\ syms'[1] = NullSymbol /\ syms'[2] = new
    BY <1>5, <2>1, NullSymbolType
  <2>3. \A k \in 1..2 : syms'[k].value = 0
    BY <1>3, <2>1, <2>2 DEF NullSymbol
  <2> QED
    BY <2>2, <2>3 DEF ValuesInv
<1>7. CASE syms # <<>>
  <2>1. /\ Len(syms') = Len(syms) + 1
        /\ \A k \in 1..Len(syms) : syms'[k] = syms[k]
        /\ syms'[Len(syms) + 1] = new
    BY <1>1, <1>4, <1>5, <1>7
  <2>2. \A k \in 1..Len(syms') : k = Len(syms) + 1 \/ k \in 1..Len(syms)
    BY <1>1, <2>1
  <2>3. \A k \in 1..Len(syms) : syms'[k].value < Len(syms)
    BY <2>1 DEF ValuesInv
  <2>4. \A k \in 1..Len(syms') : syms'[k].value < Len(syms')
    BY <1>1, <1>2, <1>3, <2>1, <2>2, <2>3
  <2>5. ASSUME NEW k \in 1..Len(syms'), NEW l \in 1..Len(syms'),
               syms'[k].value = syms'[l].value, syms'[k].value # 0
        PROVE  k = l
    <3>1. CASE k \in 1..Len(syms) /\ l \in 1..Len(syms)
      BY <2>1, <2>5, <3>1 DEF ValuesInv
    <3>2. CASE k = Len(syms) + 1 \/ l = Len(syms) + 1
      BY <1>1, <1>2, <1>3, <2>1, <2>2, <2>3, <2>5, <3>2
    <3> QED
      BY <2>2, <3>1, <3>2
  <2> QED
    BY <2>4, <2>5 DEF ValuesInv
<1> QED
  BY <1>6, <1>7

LEMMA ValuesSwapped ==
  ASSUME SymbolsTypeOK, ValuesInv, NEW i \in SymbolIndices, NEW j \in SymbolIndices,
         syms' = SwappedSymbols(i, j)
  PROVE  ValuesInv'
<1>1. syms \in Seq(Symbol) /\ Len(syms) \in Nat /\ i + 1 \in 1..Len(syms) /\ j + 1 \in 1..Len(syms)
  BY TableType DEF SymbolIndices
<1>2. /\ Len(syms') = Len(syms)
      /\ \A k \in 1..Len(syms) : syms'[k] = IF k = j + 1 THEN syms[i + 1]
                                           ELSE IF k = i + 1 THEN syms[j + 1] ELSE syms[k]
  BY <1>1 DEF SwappedSymbols, Sym
<1> QED
  BY <1>1, <1>2 DEF ValuesInv

\* A symbol is found by its value.
LEMMA ValuesAreFound ==
  ASSUME SymbolsTypeOK, ValuesInv, NEW i \in SymbolIndices, Sym(i).value # 0
  PROVE  get_symbol_by_value(Sym(i).value) = i
<1> DEFINE same == {k \in SymbolIndices : Sym(k).value = Sym(i).value}
<1>1. same = {i}
  BY TableType DEF ValuesInv, SymbolIndices, Sym
<1>2. i \in Nat /\ same \subseteq Nat /\ same # {}
  BY <1>1, TableType DEF SymbolIndices
<1>3. get_symbol_by_value(Sym(i).value) = FirstOf(same)
  BY DEF get_symbol_by_value
<1> HIDE DEF same
<1>4. Min(same) \in same
  BY <1>2, MinIsIn
<1> QED
  BY <1>1, <1>2, <1>3, <1>4 DEF FirstOf

(***************************************************************************)
(* Every table.                                                            *)
(***************************************************************************)
LookupInv == HashInv /\ ValuesInv

LEMMA LookupInit == SymbolsInit => LookupInv
BY DEF SymbolsInit, LookupInv, HashInv, ValuesInv, NoHash

LEMMA LookupNext == IInv /\ IInv' /\ LookupInv /\ [SymbolsNext]_symbolVars => LookupInv'
<1> SUFFICES ASSUME IInv, IInv', LookupInv, [SymbolsNext]_symbolVars PROVE LookupInv'
  OBVIOUS
<1>1. SymbolsTypeOK /\ SymbolsTypeOK' /\ StringsOK(strs) /\ NullFirst
  BY DEF IInv, ArrangementInv
<1>2. get_symbols_num \in Nat /\ get_symbols_num = Len(syms) /\ get_symbols_num' \in Nat /\ get_symbols_num' = Len(syms')
  BY <1>1, TableType DEF SymbolsTypeOK, get_symbols_num
<1>3. ASSUME NEW name \in Names, NEW bind \in Binds, syms' = Added(add_string(strs, name).at, get_symbols_num, bind),
             UNCHANGED hash
      PROVE  LookupInv'
  <2>1. add_string(strs, name).at \in Nat
    BY <1>1, AddString
  <2>2. Len(syms') > Len(syms)
    BY <1>1, <1>2, <1>3, <2>1, AddedTable DEF SymbolsTypeOK
  <2>3. ValuesInv'
    BY <1>1, <1>3, <2>1, ValuesAdded DEF LookupInv
  <2> QED
    BY <1>2, <1>3, <2>2, <2>3, HashKept DEF LookupInv
<1>4. CASE \E name \in Names, bind \in Binds : add_symbol(name, bind)
  BY <1>3, <1>4 DEF add_symbol
<1>5. CASE \E name \in Names, bind \in Binds, type \in Types : add_entry_symbol(name, bind, type)
  BY <1>3, <1>5 DEF add_entry_symbol
<1>6. CASE link_hash
  <2>1. UNCHANGED syms /\ get_symbols_num > 1 /\ get_symbols_num' = get_symbols_num
    BY <1>6 DEF link_hash, get_symbols_num
  <2>2. PICK n \in 1..MAX_BUCKETS :
           hash' = SysvHash(n) \/ \E others : \E from \in SymbolIndices : hash' = GnuHash(n, from, others)
    BY <1>6 DEF link_hash
  <2>3. n \in Nat \ {0}
    BY SymbolsAssumption
  <2>4. CASE hash' = SysvHash(n)
    <3>1. hash'.type = "HASH"
      BY <2>4 DEF SysvHash
    <3>2. SysvOK(hash', get_symbols_num')
      BY <1>2, <2>1, <2>3, <2>4, SysvLinked
    <3> QED
      BY <2>1, <3>1, <3>2 DEF LookupInv, HashInv, ValuesInv
  <2>5. ASSUME NEW from \in SymbolIndices, NEW others, hash' = GnuHash(n, from, others) PROVE LookupInv'
    <3>1. hash'.type = "GNU_HASH"
      BY <2>5 DEF GnuHash
    <3>2. GnuOK(hash', get_symbols_num')
      BY <1>2, <2>1, <2>3, <2>5, GnuLinked
    <3> QED
      BY <2>1, <3>1, <3>2 DEF LookupInv, HashInv, ValuesInv
  <2> QED
    BY <2>2, <2>4, <2>5
<1>7. CASE Swap
  <2>1. arr.first_not_local \in SymbolIndices /\ arr.current \in SymbolIndices /\ UNCHANGED hash
        /\ syms' = SwappedSymbols(arr.first_not_local, arr.current)
    BY <1>7 DEF Swap, IInv, ArrangementInv, Local
  <2>2. ValuesInv'
    BY <1>1, <2>1, ValuesSwapped DEF LookupInv
  <2>3. get_symbols_num' = get_symbols_num
    BY <1>2, <2>1 DEF SwappedSymbols
  <2> QED
    BY <1>2, <2>1, <2>2, <2>3, HashKept DEF LookupInv
<1>8. CASE UNCHANGED <<syms, hash>>
  BY <1>8 DEF LookupInv, HashInv, ValuesInv, get_symbols_num, SysvOK, GnuOK
<1>9. ASSUME NEW i \in SymbolIndices, NEW type \in Types, NEW addend \in Addends, add_entry(i, type, addend)
      PROVE  UNCHANGED <<syms, hash>>
  BY <1>9 DEF add_entry
<1>10. arrange_local_symbols \/ SkipLocals \/ SkipOthers \/ Scanned \/ swap_symbols \/ UNCHANGED symbolVars
         => UNCHANGED <<syms, hash>>
  BY DEF arrange_local_symbols, SkipLocals, SkipOthers, Scanned, swap_symbols, symbolVars
<1> QED
  BY <1>4, <1>5, <1>6, <1>7, <1>8, <1>9, <1>10 DEF SymbolsNext

\* Through any number of additions and arrangements, and with any hash section,
\* up to date or not, get_symbol finds a name that is in the table, gives no
\* symbol of another name, and finds a symbol by its value.
THEOREM SymbolsFound == SymbolsSpec => []SymbolsAreFound
<1>1. IInv /\ LookupInv => SymbolsAreFound
  <2> SUFFICES ASSUME IInv, LookupInv PROVE SymbolsAreFound
    OBVIOUS
  <2>1. SymbolsTypeOK /\ HashInv /\ ValuesInv /\ get_symbols_num \in Nat
    BY TableType DEF IInv, ArrangementInv, LookupInv
  <2> QED
    BY <2>1, NamesAreFound, ValuesAreFound DEF SymbolsAreFound
<1> QED
  BY <1>1, SymbolsInitInv, SymbolsNextInv, LookupInit, LookupNext, PTL DEF SymbolsSpec
=============================================================================
