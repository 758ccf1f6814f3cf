------------------------------ MODULE ElfSymbols ------------------------------
(***************************************************************************)
(* A symbol table and what refers to it (ELFIO, elfio_symbols.hpp and      *)
(* elfio_relocation.hpp): its strings, a relocation section, and a hash    *)
(* section that a linker wrote for it.                                     *)
(*                                                                         *)
(* An entry of a table stands for the bytes that hold it; both sections    *)
(* have their entry size.  Indices count from 0, as in the file.  The      *)
(* arrangement of the local symbols runs step by step: two scans, the      *)
(* caller's function, which swaps the symbols in the relocations, and the  *)
(* swap of the two symbols.                                                *)
(***************************************************************************)
EXTENDS ElfSection

CONSTANTS Names,          \* names of symbols
          elf_hash,       \* their hash; the one of the SysV and the one of the GNU section
          Types, Addends, \* of relocations
          BYTE,           \* what an unsigned char can hold
          MAX_SYMBOLS, MAX_RELOCATIONS, MAX_BUCKETS

ASSUME SymbolsAssumption ==
  /\ elf_hash \in [Names -> Nat]
  /\ Types \subseteq Nat /\ Addends \subseteq Int
  /\ BYTE \in Nat \ {0}
  /\ {MAX_SYMBOLS, MAX_RELOCATIONS, MAX_BUCKETS} \subseteq Nat

VARIABLES rel_type, \* of the relocation section: with addends or without
          strs,    \* the string section
          syms,    \* the symbols
          rels,    \* the relocations
          meant,   \* history: the symbol each relocation was added for, and what it computed
          hash,    \* the hash section, or NoHash
          info,    \* of the symbol section: index of the first that is not local
          arr      \* the arrangement: its step and its two indices

symbolVars == <<rel_type, strs, syms, rels, meant, hash, info, arr>>

NoHash == [type |-> "none"]
Binds  == {"LOCAL", "GLOBAL"}
STN_UNDEF == 0

Symbol == [name : Nat, value : Nat, bind : Binds]
NullSymbol == [name |-> 0, value |-> 0, bind |-> "LOCAL"]

get_symbols_num == Len(syms)
Sym(i)    == syms[i + 1]
SymbolIndices == 0..get_symbols_num - 1
NameOf(i) == get_string(strs, Sym(i).name)

(***************************************************************************)
(* Lookup by name: in the hash section, then one by one.  The hash section *)
(* is the one of the table it was written for; symbols added or arranged   *)
(* since then are not in it.                                               *)
(***************************************************************************)
NotFound == -1

\* Where the chain of a symbol ends: at the symbol of that name, or nowhere.
hash_chain(name) ==
  LET walk[y \in 0..hash.nchain] ==
        IF y = STN_UNDEF \/ y >= hash.nchain \/ NameOf(y) = name THEN y ELSE walk[hash.chain[y + 1]]
  IN  walk

\* Mutant: the symbol the chain ends with is taken without its name.
hash_lookup_Unnamed(name) == hash_chain(name)[hash.bucket[elf_hash[name] % hash.nbucket]]

hash_lookup(name) ==
  LET found == hash_chain(name)[hash.bucket[elf_hash[name] % hash.nbucket]]
  IN  IF NameOf(found) = name THEN found ELSE NotFound

\* The symbol of that name in a run of hashes, from each place of it on.
gnu_hash_run(name) ==
  LET Is(k) == hash.chain[k + 1].hash = elf_hash[name] \div 2 /\ NameOf(k + hash.symoffset) = name
      walk[k \in 0..Len(hash.chain) - 1] ==
        IF Is(k) THEN k + hash.symoffset ELSE IF hash.chain[k + 1].last THEN NotFound ELSE walk[k + 1]
  IN  walk

gnu_hash_lookup(name) ==
  LET h     == elf_hash[name]
      first == hash.bucket[h % hash.nbucket]
  IN  IF h \in hash.bloom /\ first >= hash.symoffset THEN gnu_hash_run(name)[first - hash.symoffset] ELSE NotFound

FirstOf(S) == IF S = {} THEN NotFound ELSE Min(S)

get_symbol_by_name(name) ==
  LET hashed == CASE hash.type = "HASH"     -> hash_lookup(name)
                  [] hash.type = "GNU_HASH" -> gnu_hash_lookup(name)
                  [] OTHER                  -> NotFound
  IN  IF hashed # NotFound THEN hashed ELSE FirstOf({i \in SymbolIndices : NameOf(i) = name})

get_symbol_by_value(value) == FirstOf({i \in SymbolIndices : Sym(i).value = value})

(***************************************************************************)
(* A relocation as it is read, which loses of its type what an unsigned    *)
(* char cannot hold, and as it is written again: with its addend or        *)
(* without, as its section has it.  What it computes: the types of the 386 *)
(* that need no tables.                                                    *)
(***************************************************************************)
generic_get_entry_rela(r) == [r EXCEPT !.type = @ % BYTE]
generic_get_entry_rel(r) == [generic_get_entry_rela(r) EXCEPT !.addend = 0]
get_entry(r) == IF r.section = "REL" THEN generic_get_entry_rel(r) ELSE generic_get_entry_rela(r)

generic_set_entry_rel(r, e) == [r EXCEPT !.offset = e.offset, !.sym = e.sym, !.type = e.type]
generic_set_entry_rela(r, e) == [generic_set_entry_rel(r, e) EXCEPT !.addend = e.addend]
set_entry(r, e) == IF r.section = "REL" THEN generic_set_entry_rel(r, e) ELSE generic_set_entry_rela(r, e)

calcValue(r, S) ==
  LET e == get_entry(r)
  IN  CASE e.type = 1        -> S + e.addend
        [] e.type = 2        -> S + e.addend - e.offset
        [] e.type \in {6, 7} -> S
        [] e.type = 8        -> e.addend
        [] OTHER             -> 0

-----------------------------------------------------------------------------
idle == arr.step = "idle"

SymbolsInit ==
  /\ rel_type \in {"REL", "RELA"}
  /\ strs = [NewSection(0) EXCEPT !.type = "STRTAB"]
  /\ syms = <<>> /\ rels = <<>> /\ meant = <<>>
  /\ hash = NoHash /\ info = 0
  /\ arr = [step |-> "idle", first_not_local |-> 0, current |-> 0]

\* The first symbol of a table follows the null symbol.
Added(name_at, value, bind) ==
  (IF syms = <<>> THEN <<NullSymbol>> ELSE syms) \o <<[name |-> name_at, value |-> value, bind |-> bind]>>

Room == get_symbols_num < MAX_SYMBOLS

add_symbol(name, bind) ==
  /\ idle /\ Room
  /\ LET added == add_string(strs, name)
     IN  /\ strs' = added.sec
         /\ syms' = Added(added.at, get_symbols_num, bind)
  /\ UNCHANGED <<rel_type, rels, meant, hash, info, arr>>

Meaning(r, symbol) == [symbol |-> symbol, calc |-> calcValue(r, symbol.value)]

Relocation(i, type, addend) ==
  [section |-> rel_type, offset |-> Len(rels), sym |-> i, type |-> type, addend |-> addend]

add_entry(i, type, addend) ==
  /\ idle /\ Len(rels) < MAX_RELOCATIONS /\ i \in SymbolIndices
  /\ rel_type = "REL" => addend = 0
  /\ rels' = Append(rels, Relocation(i, type, addend))
  /\ meant' = Append(meant, Meaning(Relocation(i, type, addend), Sym(i)))
  /\ UNCHANGED <<rel_type, strs, syms, hash, info, arr>>

\* A relocation with a symbol of its own, which has no addend.
add_entry_symbol(name, bind, type) ==
  /\ idle /\ Room /\ Len(rels) < MAX_RELOCATIONS
  /\ rel_type = "REL"
  /\ LET added == add_string(strs, name)
         table == Added(added.at, get_symbols_num, bind)
         entry == Relocation(Len(table) - 1, type, 0)
     IN  /\ strs' = added.sec /\ syms' = table
         /\ rels' = Append(rels, entry)
         /\ meant' = Append(meant, Meaning(entry, table[Len(table)]))
  /\ UNCHANGED <<rel_type, hash, info, arr>>

(***************************************************************************)
(* A linker writes a hash section for the table as it is: chains of the    *)
(* symbols of a bucket, the last first; or, when the symbols from an index *)
(* on are sorted by bucket, runs of their hashes, whose bit 0 only says    *)
(* where a run ends, behind a filter that lets their names through and     *)
(* perhaps others.                                                         *)
(***************************************************************************)
Bucket(i, n) == elf_hash[NameOf(i)] % n
OrUndef(S) == IF S = {} THEN {STN_UNDEF} ELSE S

SysvHash(n) ==
  LET Others == SymbolIndices \ {STN_UNDEF}
  IN  [type |-> "HASH", nbucket |-> n, nchain |-> get_symbols_num,
       bucket |-> [b \in 0..n - 1 |-> Max(OrUndef({i \in Others : Bucket(i, n) = b}))],
       chain |-> [k \in 1..get_symbols_num |->
                    IF k = 1 THEN STN_UNDEF ELSE Max(OrUndef({i \in Others : i < k - 1 /\ Bucket(i, n) = Bucket(k - 1, n)}))]]

GnuHash(n, from, others) ==
  LET Hashed == from..get_symbols_num - 1
  IN  [type |-> "GNU_HASH", nbucket |-> n, symoffset |-> from,
       bloom |-> {elf_hash[NameOf(i)] : i \in Hashed} \union others,
       bucket |-> [b \in 0..n - 1 |-> Min(OrUndef({i \in Hashed : Bucket(i, n) = b}))],
       chain |-> [k \in 1..get_symbols_num - from |->
                    LET i == from + k - 1
                    IN  [hash |-> elf_hash[NameOf(i)] \div 2,
                         last |-> i + 1 \notin Hashed \/ Bucket(i + 1, n) # Bucket(i, n)]]]

link_hash ==
  /\ idle /\ hash = NoHash /\ get_symbols_num > 1
  /\ \E n \in 1..MAX_BUCKETS :
       \/ hash' = SysvHash(n)
       \/ \E from \in SymbolIndices \ {STN_UNDEF}, others \in {{}, {elf_hash[name] : name \in Names}} :
            /\ \A i, j \in from..get_symbols_num - 1 : i <= j => Bucket(i, n) <= Bucket(j, n)
            /\ hash' = GnuHash(n, from, others)
  /\ UNCHANGED <<rel_type, strs, syms, rels, meant, info, arr>>

(***************************************************************************)
(* arrange_local_symbols                                                   *)
(***************************************************************************)
Local == {i \in SymbolIndices : Sym(i).bind = "LOCAL"}

arrange_local_symbols ==
  /\ idle
  /\ arr' = [step |-> "first", first_not_local |-> 1, current |-> 0]
  /\ UNCHANGED <<rel_type, strs, syms, rels, meant, hash, info>>

\* Mutant: the second scan leaves out the symbol that follows.
second_scan_SkipsOne(first) == [step |-> "second", first_not_local |-> first, current |-> first + 2]

second_scan(first) == [step |-> "second", first_not_local |-> first, current |-> first + 1]

SkipLocals ==
  /\ arr.step = "first"
  /\ arr' = IF arr.first_not_local \in Local
            THEN [arr EXCEPT !.first_not_local = @ + 1]
            ELSE second_scan(arr.first_not_local)
  /\ UNCHANGED <<rel_type, strs, syms, rels, meant, hash, info>>

SkipOthers ==
  /\ arr.step = "second"
  /\ arr.current \in SymbolIndices \ Local
  /\ arr' = [arr EXCEPT !.current = @ + 1]
  /\ UNCHANGED <<rel_type, strs, syms, rels, meant, hash, info>>

BothFound == arr.first_not_local < get_symbols_num /\ arr.current < get_symbols_num

Scanned ==
  /\ arr.step = "second"
  /\ arr.current \notin SymbolIndices \ Local
  /\ arr' = IF BothFound THEN [arr EXCEPT !.step = "callback"]
            ELSE [step |-> "idle", first_not_local |-> 0, current |-> 0]
  /\ info' = IF BothFound THEN info ELSE arr.first_not_local
  /\ UNCHANGED <<rel_type, strs, syms, rels, meant, hash>>

\* Mutant: the second test reads what the first one has written.
Swapped_Twice(r, first, second) ==
  [r EXCEPT !.sym = IF @ \in {first, second} THEN first ELSE @]

Swapped(r, first, second) ==
  IF r.sym \notin {first, second} THEN r
  ELSE set_entry(r, [get_entry(r) EXCEPT !.sym = IF @ = first THEN second ELSE first])

swap_symbols ==
  /\ arr.step = "callback"
  /\ rels' = [k \in DOMAIN rels |-> Swapped(rels[k], arr.first_not_local, arr.current)]
  /\ arr' = [arr EXCEPT !.step = "swap"]
  /\ UNCHANGED <<rel_type, strs, syms, meant, hash, info>>

\* Mutant: what is swapped is a copy.
SwappedSymbols_Copy(first, second) == syms

SwappedSymbols(first, second) ==
  [syms EXCEPT ![first + 1] = Sym(second), ![second + 1] = Sym(first)]

Swap ==
  /\ arr.step = "swap"
  /\ syms' = SwappedSymbols(arr.first_not_local, arr.current)
  /\ arr' = [arr EXCEPT !.step = "first"]
  /\ UNCHANGED <<rel_type, strs, rels, meant, hash, info>>

SymbolsNext ==
  \/ \E name \in Names, bind \in Binds : add_symbol(name, bind)
  \/ \E i \in SymbolIndices, type \in Types, addend \in Addends : add_entry(i, type, addend)
  \/ \E name \in Names, bind \in Binds, type \in Types : add_entry_symbol(name, bind, type)
  \/ link_hash
  \/ arrange_local_symbols
  \/ SkipLocals
  \/ SkipOthers
  \/ Scanned
  \/ swap_symbols
  \/ Swap

\* A call that has started runs to its end.
Arrange == SkipLocals \/ SkipOthers \/ Scanned \/ swap_symbols \/ Swap
SymbolsFairness == WF_symbolVars(Arrange)
SymbolsSpec == SymbolsInit /\ [][SymbolsNext]_symbolVars /\ SymbolsFairness

-----------------------------------------------------------------------------
Step == {"idle", "first", "second", "callback", "swap"}

SymbolsTypeOK ==
  /\ rel_type \in {"REL", "RELA"}
  /\ syms \in Seq(Symbol)
  /\ rels \in Seq([section : {"REL", "RELA"}, offset : Nat, sym : Nat, type : Nat, addend : Int])
  /\ meant \in Seq([symbol : Symbol, calc : Int])
  /\ info \in Nat
  /\ arr \in [step : Step, first_not_local : Nat, current : Nat]

\* The loop of an arrangement: what lies before its first index is local,
\* what lies between its indices is not; when it swaps, the first index has
\* a symbol that is not local and the second, a later one, has one that is.
ArrangementInv ==
  LET i == arr.first_not_local
      j == arr.current
  IN  /\ SymbolsTypeOK
      /\ ~idle => i > 0 /\ \A k \in SymbolIndices : k < i => k \in Local
      /\ arr.step = "second" =>
           /\ i < j /\ i \notin Local
           /\ \A k \in SymbolIndices : i <= k /\ k < j => k \notin Local
      /\ arr.step \in {"callback", "swap"} => i < j /\ i \in SymbolIndices \ Local /\ j \in Local

\* Where a relocation of the table will point once the swap under way is
\* done.
Target(k) ==
  LET i == rels[k].sym
  IN  IF arr.step # "swap" THEN i
      ELSE CASE i = arr.first_not_local -> arr.current
             [] i = arr.current         -> arr.first_not_local
             [] OTHER                   -> i

\* Through any number of arrangements a relocation refers to the symbol it
\* was added for, and computes the same value.
RelocationsKeepSymbols ==
  /\ Len(meant) = Len(rels)
  /\ \A k \in DOMAIN rels : Target(k) \in SymbolIndices /\ Meaning(rels[k], Sym(Target(k))) = meant[k]

\* After an arrangement the local symbols are those before the index that
\* the section header gives: all of them, and no other.
LocalsComeFirst ==
  [][arr.step = "second" /\ arr'.step = "idle" =>
       \A i \in SymbolIndices : (i < info') <=> i \in Local]_symbolVars

\* A name is found when it is in the table, whatever was added or arranged
\* since the hash section was written, and what is found has that name; and
\* a symbol is found by its value, unless that is the one of the null symbol.
SymbolsAreFound ==
  /\ \A i \in SymbolIndices : Sym(i).value # 0 => get_symbol_by_value(Sym(i).value) = i
  /\ \A name \in Names :
       LET found == get_symbol_by_name(name)
       IN  IF \E i \in SymbolIndices : NameOf(i) = name
           THEN found \in SymbolIndices /\ NameOf(found) = name
           ELSE found = NotFound

\* An arrangement ends.
ArrangementEnds == (arr.step # "idle") ~> idle
=============================================================================
