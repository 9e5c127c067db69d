----------------------------- MODULE LoaderProofs -----------------------------
(***************************************************************************)
(* What holds of the load of any image, for words and fields of any width. *)
(***************************************************************************)
EXTENDS LoaderProps, RelocationProofs, FiniteSetTheorems,
        WellFoundedInduction, TLAPS

USE Widths DEF Words, Fields

-----------------------------------------------------------------------------
(* What an image is *)

\* A set of natural numbers has a least member.
LEMMA LeastMember ==
  ASSUME NEW T \in SUBSET Nat, T # {}
  PROVE  \E x \in T : \A y \in T : x <= y
<1> DEFINE U == {0 .. x : x \in T}
<1>1. U \subseteq FiniteSubsetsOf(Nat) /\ U # {}
  <2>1. ASSUME NEW x \in T PROVE 0 .. x \in FiniteSubsetsOf(Nat)
    <3>1. IsFiniteSet(0 .. x) /\ 0 .. x \subseteq Nat
      BY FS_Interval
    <3> QED
      BY <3>1 DEF FiniteSubsetsOf
  <2> QED
    BY <2>1
<1>2. PICK S \in U : \A y \in U : <<y, S>> \notin StrictSubsetOrdering(Nat)
  <2> HIDE DEF U
  <2> QED
    BY <1>1, FS_StrictSubsetOrderingWellFounded, WFMin
<1>3. PICK x \in T : S = 0 .. x
  BY <1>2
<1>4. ASSUME NEW y \in T, y < x PROVE FALSE
  <2>1. 0 .. y \in U /\ 0 .. y # S /\ 0 .. y \subseteq S
    BY <1>3, <1>4
  <2>2. 0 .. y \subseteq Nat /\ S \subseteq Nat
    BY <1>3
  <2>3. <<0 .. y, S>> \in StrictSubsetOrdering(Nat)
    BY <2>1, <2>2, Zenon DEF StrictSubsetOrdering
  <2> QED
    BY <1>2, <2>1, <2>3
<1> QED
  BY <1>3, <1>4

\* The section table is an interval of indices.
LEMMA SectionTable ==
  ASSUME ImageOK(image)
  PROVE  /\ Cardinality(DOMAIN Sections) \in Nat
         /\ DOMAIN Sections = 0 .. Cardinality(DOMAIN Sections) - 1
  BY FS_CardinalityType DEF ImageOK, Sections

\* So is the table of a section.
LEMMA EntryTable ==
  ASSUME ImageOK(image), NEW i \in DOMAIN Sections
  PROVE  /\ Len(Sections[i].entries) \in Nat
         /\ DOMAIN Sections[i].entries = 1 .. Len(Sections[i].entries)
  BY DEF ImageOK, Sections, elf64_shdr

\* The entries of the tables.
LEMMA SymbolIn ==
  ASSUME NEW e
  PROVE  e \in Symbols <=>
           \E i \in DOMAIN Sections :
             /\ Sections[i].type = "SYMTAB"
             /\ \E j \in DOMAIN Sections[i].entries : e = <<i, j>>
  BY DEF Symbols, Entries, TableIndices

LEMMA RelocationIn ==
  ASSUME NEW e
  PROVE  e \in Relocations <=>
           \E i \in DOMAIN Sections :
             /\ Sections[i].type \in {"REL", "RELA"}
             /\ \E j \in DOMAIN Sections[i].entries : e = <<i, j>>
  BY DEF Relocations, Entries, TableIndices

\* Their fields are in the ranges of the structures.
LEMMA SymbolFields ==
  ASSUME ImageOK(image), NEW i \in DOMAIN Sections,
         Sections[i].type = "SYMTAB", NEW j \in DOMAIN Sections[i].entries
  PROVE  /\ Sections[i].entries[j].shndx \in Nat \cup {RESERVED}
         /\ Sections[i].entries[j].value \in Words
<1>1. Sections[i].entries[j] \in Range(Sections[i].entries)
  BY DEF Range
<1> QED
  BY <1>1 DEF ImageOK, Sections, elf64_shdr, elf64_sym

LEMMA RelocationFields ==
  ASSUME ImageOK(image), NEW i \in DOMAIN Sections,
         Sections[i].type \in {"REL", "RELA"},
         NEW j \in DOMAIN Sections[i].entries
  PROVE  /\ Sections[i].entries[j].sym \in Nat
         /\ Sections[i].entries[j].offset \in Nat
         /\ Sections[i].entries[j].addend \in Int
<1>1. Sections[i].entries[j] \in Range(Sections[i].entries)
  BY DEF Range
<1> QED
  BY <1>1 DEF ImageOK, Sections, elf64_shdr, elf64_rel

LEMMA SectionFields ==
  ASSUME ImageOK(image)
  PROVE  /\ image.base \in Nat
         /\ \A i \in DOMAIN Sections : Sections[i].offset \in Nat
  BY DEF ImageOK, Sections, elf64_shdr

\* sym_def_find returns what is provided for the name, and a word.
LEMMA DefinitionFound ==
  ASSUME ImageOK(image), NEW name
  PROVE  /\ sym_def_find(name) = Provided(name)
         /\ sym_def_find(name) \in Words
<1> DEFINE defs == image.defs
           given == {k \in DOMAIN defs : defs[k].name = name /\ defs[k].defined}
           found == {k \in 1 .. Len(defs) : defs[k].defined /\ defs[k].name = name}
           least == CHOOSE k \in given : \A l \in given : k <= l
<1>1. DOMAIN defs = 1 .. Len(defs) /\ Len(defs) \in Nat
  BY DEF ImageOK
<1>2. given = found /\ given \in SUBSET Nat /\ 0 \notin given
  BY <1>1
<1>3. Provided(name) = IF given = {} THEN 0 ELSE defs[least].addr
  BY DEF Provided
<1>4. sym_def_find(name) =
        LET k == IF found # {} THEN Min(found) ELSE 0
        IN  IF k = 0 THEN 0 ELSE defs[k].addr
  BY DEF sym_def_find, SelectInSeq
<1>5. given # {} => least \in given
  <2> HIDE DEF given
  <2> QED
    BY <1>2, LeastMember
<1>6. found # {} => Min(found) = least
  <2> HIDE DEF given, found
  <2> QED
    BY <1>2 DEF Min
<1>7. \A k \in given : defs[k].addr \in Words
  <2>1. \A k \in given : defs[k] \in Range(defs)
    BY DEF Range
  <2> QED
    BY <2>1 DEF ImageOK, loader_symbol
<1>8. given # {} => least # 0 /\ defs[least].addr \in Words
  <2> HIDE DEF given, least, defs
  <2> QED
    BY <1>2, <1>5, <1>7
<1>9. sym_def_find(name) = IF given = {} THEN 0 ELSE defs[least].addr
  <2> HIDE DEF given, found, least, defs
  <2>1. CASE given = {}
    BY <1>2, <1>4, <2>1
  <2>2. CASE given # {}
    BY <1>2, <1>4, <1>6, <1>8, <2>2
  <2> QED
    BY <2>1, <2>2
<1>10. 0 \in Words
  OBVIOUS
<1> HIDE DEF defs, given, found, least
<1> QED
  BY <1>3, <1>8, <1>9, <1>10

\* The meaning of an image changes only with the image.
LEMMA MeaningKept ==
  ASSUME image' = image
  PROVE  /\ Sections' = Sections
         /\ Symbols' = Symbols /\ Relocations' = Relocations
         /\ \A e : /\ EntryOf(e)' = EntryOf(e)
                   /\ SymbolAddress(e)' = SymbolAddress(e)
                   /\ Target(e)' = Target(e)
                   /\ FieldAddress(e)' = FieldAddress(e)
                   /\ Near(e)' = Near(e)
         /\ \A i, types : TableIndices(i, types)' = TableIndices(i, types)
<1>1. Sections' = Sections
  BY DEF Sections
<1>2. \A i, types : TableIndices(i, types)' = TableIndices(i, types)
  BY <1>1 DEF TableIndices
<1>3. Symbols' = Symbols /\ Relocations' = Relocations
  BY <1>1 DEF Symbols, Relocations, Entries, TableIndices
<1>4. ASSUME NEW e PROVE EntryOf(e)' = EntryOf(e)
  BY <1>1 DEF EntryOf
<1>5. ASSUME NEW name PROVE Provided(name)' = Provided(name)
  BY DEF Provided
<1>6. ASSUME NEW e PROVE SymbolAddress(e)' = SymbolAddress(e)
  BY <1>1, <1>4, <1>5 DEF SymbolAddress
<1>7. ASSUME NEW e PROVE Target(e)' = Target(e)
  BY <1>1, <1>4, <1>6 DEF Target
<1>8. ASSUME NEW e PROVE FieldAddress(e)' = FieldAddress(e)
  BY <1>1, <1>4 DEF FieldAddress
<1>9. ASSUME NEW e PROVE Near(e)' = Near(e)
  BY <1>7, <1>8 DEF Near
<1> QED
  BY <1>1, <1>2, <1>3, <1>4, <1>6, <1>7, <1>8, <1>9

-----------------------------------------------------------------------------
(* Moving on *)

\* A call that meets a problem stops where it is.
LEMMA FailureStops ==
  ASSUME NEW code, code # "none", Fails(code)
  PROVE  /\ error' = code /\ done' = TRUE
         /\ result' \in {"none", code}
         /\ UNCHANGED <<image, phase, sec, ent, sh_addr, sy_value, queries,
                        field>>
  BY DEF Fails, Returns

\* What a call checks ends in a code, that of the size check only in
\* loader_apply_relocation.
LEMMA CheckCodes ==
  /\ EnterError \in Codes \ {"REL_VALUE_OVERFLOW"}
  /\ SymbolError \in Codes \ {"REL_VALUE_OVERFLOW"}
  /\ RelError \in Codes
<1>1. \A id, type : HeaderError(id, type) \in Codes \ {"REL_VALUE_OVERFLOW"}
  BY DEF HeaderError, Codes
<1>2. \A id : EntsizeError(id) \in Codes \ {"REL_VALUE_OVERFLOW"}
  BY DEF EntsizeError, Codes
<1>3. \A id, type : TableError(id, type) \in Codes \ {"REL_VALUE_OVERFLOW"}
  BY <1>1, <1>2 DEF TableError
<1>4. EnterError \in Codes \ {"REL_VALUE_OVERFLOW"}
  BY <1>1, <1>2, <1>3 DEF EnterError, Codes
<1>5. SymbolError \in Codes \ {"REL_VALUE_OVERFLOW"}
  BY <1>1 DEF SymbolError, Codes
<1>6. RelError \in Codes
  BY DEF RelError, ApplyError, Codes
<1> QED
  BY <1>4, <1>5, <1>6

\* No step changes the image, and no step is taken behind the last.
LEMMA ImageKept == Next => image' = image /\ ~done
<1>1. \A code : Fails(code) => image' = image
  BY DEF Fails
<1> QED
  BY <1>1 DEF Next, AssignSection, RefuseSection, SkipSection, EnterTable,
    RefuseTable, LeaveTable, AssignSymbol, RefuseSymbol, Relocate,
    RefuseRelocation, EndOfTable, MayEnter, AtEntry

\* Where an entry is among those that a call has left behind.
LEMMA PassedIs ==
  ASSUME NEW call, NEW i, NEW j
  PROVE  /\ Passed(call, <<i, j>>) <=>
              \/ phase = call /\ (i < sec \/ (i = sec /\ j < ent))
              \/ call = "symbols" /\ phase = "relocations"
         /\ Passed(call, <<i, j>>)' <=>
              \/ phase' = call /\ (i < sec' \/ (i = sec' /\ j < ent'))
              \/ call = "symbols" /\ phase' = "relocations"
  BY DEF Passed, Precedes

\* The iterators are numbers; entries are counted from 1.
LEMMA Places ==
  ASSUME TypeOK
  PROVE  \E n \in Nat :
           /\ DOMAIN Sections = 0 .. n - 1
           /\ sec \in 0 .. n /\ ent \in Nat
           /\ \A i \in DOMAIN Sections :
                /\ Len(Sections[i].entries) \in Nat
                /\ DOMAIN Sections[i].entries = 1 .. Len(Sections[i].entries)
<1>1. PICK n \in Nat : n = Cardinality(DOMAIN Sections)
  BY SectionTable DEF TypeOK
<1>2. DOMAIN Sections = 0 .. n - 1 /\ sec \in 0 .. n
  BY <1>1, SectionTable DEF TypeOK, PlaceOK
<1>3. \A i \in DOMAIN Sections :
        /\ Len(Sections[i].entries) \in Nat
        /\ DOMAIN Sections[i].entries = 1 .. Len(Sections[i].entries)
  BY EntryTable DEF TypeOK
<1>4. ent \in Nat
  <2>1. sec \in DOMAIN Sections => Len(Header.entries) + 1 \in Nat
    BY <1>3 DEF Header
  <2> QED
    BY <2>1 DEF TypeOK, PlaceOK
<1> QED
  BY <1>2, <1>3, <1>4

\* The steps that pass no entry of a table: what they leave alone, and where
\* they lead.
LEMMA MovePasses ==
  ASSUME TypeOK, Entered,
         SkipSection \/ EnterTable \/ LeaveTable \/ EndOfTable,
         NEW call \in {"symbols", "relocations"},
         NEW i \in DOMAIN Sections,
         NEW j \in DOMAIN Sections[i].entries,
         Sections[i].type
           \in (IF call = "symbols" THEN {"SYMTAB"} ELSE {"REL", "RELA"})
  PROVE  Passed(call, <<i, j>>)' <=> Passed(call, <<i, j>>)
<1>1. PICK n \in Nat :
        /\ DOMAIN Sections = 0 .. n - 1
        /\ sec \in 0 .. n /\ ent \in Nat
        /\ \A k \in DOMAIN Sections :
             /\ Len(Sections[k].entries) \in Nat
             /\ DOMAIN Sections[k].entries = 1 .. Len(Sections[k].entries)
  BY Places
<1>2. i \in 0 .. n - 1 /\ j \in Nat /\ j > 0 /\ j <= Len(Sections[i].entries)
  BY <1>1
<1>3. CASE SkipSection
  <2>1. phase \in {"symbols", "relocations"}
    BY <1>3 DEF SkipSection, TypeOK
  <2>2. phase = call => Sections[i].type \in TableTypes
    BY DEF TableTypes
  <2>3. phase = call => i # sec
    BY <1>3, <2>2 DEF SkipSection, Header
  <2>4. ent = 0
    BY <1>1, <1>3 DEF SkipSection, Entered
  <2>5. phase' = phase /\ sec' = sec + 1 /\ ent' = ent
    BY <1>3 DEF SkipSection
  <2> QED
    BY <1>1, <1>2, <2>3, <2>4, <2>5, PassedIs
<1>4. CASE EnterTable
  <2>1. phase' = phase /\ sec' = sec /\ ent = 0 /\ ent' = 1
    BY <1>4 DEF EnterTable, MayEnter
  <2> QED
    BY <1>2, <2>1, PassedIs
<1>5. CASE LeaveTable
  <2>1. phase' = phase /\ sec' = sec + 1 /\ ent' = 0
    BY <1>5 DEF LeaveTable
  <2>2. i = sec => j < ent
    BY <1>1, <1>2, <1>5 DEF LeaveTable, Header
  <2> QED
    BY <1>1, <1>2, <2>1, <2>2, PassedIs
<1>6. CASE EndOfTable
  <2>1. sec = n
    BY <1>1, <1>6 DEF EndOfTable
  <2>2. CASE phase = "relocations"
    <3>1. UNCHANGED <<phase, sec, ent>>
      BY <1>6, <2>2 DEF EndOfTable, Returns
    <3> QED
      BY <3>1, PassedIs
  <2>3. CASE phase \in {"sections", "symbols"}
    <3>1. phase' = After(phase) /\ sec' = 0 /\ ent' = 0
      BY <1>6, <2>3 DEF EndOfTable, Returns
    <3> QED
      BY <1>2, <2>1, <2>3, <3>1, PassedIs DEF After
  <2> QED
    BY <2>2, <2>3 DEF TypeOK
<1> QED
  BY <1>3, <1>4, <1>5, <1>6

\* A step that handles an entry passes this entry and no other.
LEMMA EntryPasses ==
  ASSUME TypeOK, AtEntry, UNCHANGED <<phase, sec>>, ent' = ent + 1,
         NEW i \in DOMAIN Sections,
         NEW j \in DOMAIN Sections[i].entries
  PROVE  /\ ~Passed(phase, <<sec, ent>>)
         /\ Passed(phase, <<i, j>>)' <=>
              Passed(phase, <<i, j>>) \/ <<i, j>> = <<sec, ent>>
         /\ Passed(phase, <<i, j>>) => Precedes(<<i, j>>, <<sec, ent>>)
         /\ \A call \in {"symbols", "relocations"} : call # phase =>
              (Passed(call, <<i, j>>)' <=> Passed(call, <<i, j>>))
<1>1. PICK n \in Nat :
        /\ DOMAIN Sections = 0 .. n - 1
        /\ sec \in 0 .. n /\ ent \in Nat
        /\ DOMAIN Sections[i].entries = 1 .. Len(Sections[i].entries)
        /\ Len(Sections[i].entries) \in Nat
  BY Places
<1>2. i \in Nat /\ j \in Nat /\ sec \in Nat
  BY <1>1
<1>3. phase' = phase /\ sec' = sec /\ ent' = ent + 1
  OBVIOUS
<1>4. ~Passed(phase, <<sec, ent>>)
  BY <1>1, <1>2, PassedIs
<1>5. Passed(phase, <<i, j>>)' <=>
        Passed(phase, <<i, j>>) \/ <<i, j>> = <<sec, ent>>
  <2>1. Passed(phase, <<i, j>>)' <=> i < sec \/ (i = sec /\ j < ent + 1)
    BY <1>3, PassedIs DEF Passed
  <2>2. Passed(phase, <<i, j>>) <=> i < sec \/ (i = sec /\ j < ent)
    BY PassedIs
  <2> QED
    BY <1>1, <1>2, <2>1, <2>2
<1>6. Passed(phase, <<i, j>>) => Precedes(<<i, j>>, <<sec, ent>>)
  BY PassedIs DEF Precedes
<1>7. \A call \in {"symbols", "relocations"} : call # phase =>
        (Passed(call, <<i, j>>)' <=> Passed(call, <<i, j>>))
  BY <1>3, PassedIs
<1> QED
  BY <1>4, <1>5, <1>6, <1>7

-----------------------------------------------------------------------------
(* Handling an entry *)

\* The entry the iteration is at.
LEMMA EntryHere ==
  ASSUME TypeOK, Entered, AtEntry
  PROVE  /\ sec \in DOMAIN Sections
         /\ ent \in DOMAIN Sections[sec].entries
         /\ Sections[sec].type \in TableTypes
         /\ EnterError = "none"
         /\ EntryOf(<<sec, ent>>) = Header.entries[ent]
<1>1. ent > 0 /\ ent <= Len(Header.entries)
  BY DEF AtEntry
<1>2. /\ sec \in DOMAIN Sections /\ Header.type \in TableTypes
      /\ EnterError = "none"
  BY <1>1 DEF Entered
<1>3. /\ ent \in Nat
      /\ DOMAIN Sections[sec].entries = 1 .. Len(Sections[sec].entries)
  BY <1>2, Places
<1> QED
  BY <1>1, <1>2, <1>3 DEF Header, EntryOf

\* A section header that was checked is there, with the type asked for.
LEMMA HeaderChecked ==
  ASSUME NEW id, NEW type, HeaderError(id, type) = "none"
  PROVE  id \in DOMAIN Sections /\ Sections[id].type = type
  BY DEF HeaderError

\* A symbol is given its address: its compiled value, which it still has, is
\* added to where its section lies, which the first call has found.
LEMMA SymbolPlaced ==
  ASSUME TypeOK, Entered, SectionsPlaced, SymbolsPlacedOnce,
         AtEntry, phase = "symbols", SymbolError = "none"
  PROVE  /\ <<sec, ent>> \in Symbols
         /\ Sym = EntryOf(<<sec, ent>>)
         /\ SymbolValue = SymbolAddress(<<sec, ent>>)
         /\ SymbolValue \in Words
<1>1. /\ sec \in DOMAIN Sections /\ ent \in DOMAIN Sections[sec].entries
      /\ Sections[sec].type = "SYMTAB"
      /\ Sym = EntryOf(<<sec, ent>>) /\ Sym = Sections[sec].entries[ent]
  BY EntryHere DEF TableTypes, Sym, Header
<1>2. <<sec, ent>> \in Symbols
  BY <1>1, SymbolIn
<1>3. Sym.shndx \in Nat \cup {RESERVED} /\ Sym.value \in Words
  BY <1>1, SymbolFields DEF TypeOK
<1>4. ~Passed("symbols", <<sec, ent>>)
  <2>1. sec \in Nat /\ ent \in Nat
    BY <1>1, Places
  <2> QED
    BY <2>1, PassedIs
<1>5. sy_value[sec][ent] = Sym.value
  <2>1. <<sec, ent>>[1] = sec /\ <<sec, ent>>[2] = ent
    OBVIOUS
  <2> QED
    BY <1>1, <1>2, <1>4, <2>1 DEF SymbolsPlacedOnce
<1>6. CASE Sym.shndx = SHN_UNDEF
  <2>1. SymbolValue = sym_def_find(Sym.name)
    BY <1>6 DEF SymbolValue, SHN_UNDEF, RESERVED
  <2>2. SymbolAddress(<<sec, ent>>) = Provided(Sym.name)
    BY <1>1, <1>6 DEF SymbolAddress
  <2> QED
    BY <1>1, <1>2, <2>1, <2>2, DefinitionFound DEF TypeOK
<1>7. CASE Sym.shndx = RESERVED
  <2>1. RESERVED # SHN_UNDEF
    BY DEF RESERVED, SHN_UNDEF
  <2>2. SymbolValue = 0 /\ SymbolAddress(<<sec, ent>>) = 0
    BY <1>1, <1>7, <2>1 DEF SymbolValue, SymbolAddress
  <2> QED
    BY <1>1, <1>2, <2>2
<1>8. CASE Sym.shndx \notin {SHN_UNDEF, RESERVED}
  <2>1. HeaderError(Sym.shndx, "PROGBITS") = "none"
    BY <1>8 DEF SymbolError
  <2>2. Sym.shndx \in DOMAIN Sections
    BY <2>1, HeaderChecked
  <2>3. PICK b \in Int, o \in Int, v \in Int :
          b = image.base /\ o = Sections[Sym.shndx].offset /\ v = Sym.value
    BY <1>3, <2>2, SectionFields DEF TypeOK
  <2>4. sh_addr[Sym.shndx] = (b + o) % Word
    BY <2>2, <2>3 DEF SectionsPlaced
  <2>5. SymbolValue = (v + ((b + o) % Word)) % Word
    BY <1>5, <1>8, <2>3, <2>4 DEF SymbolValue
  <2>6. SymbolAddress(<<sec, ent>>) = (b + o + v) % Word
    BY <1>1, <1>8, <2>3 DEF SymbolAddress
  <2>7. PICK a \in Int, c \in Int : a = b + o /\ c = b + o + v
    OBVIOUS
  <2>8. ((a % Word) + v) % Word = (a + v) % Word
    BY ModSum
  <2>9. a + v = c /\ (a % Word) + v = v + (a % Word)
    BY <2>7, DivMod
  <2>10. SymbolValue = c % Word /\ SymbolAddress(<<sec, ent>>) = c % Word
    BY <2>5, <2>6, <2>7, <2>8, <2>9
  <2> QED
    BY <1>1, <1>2, <2>10, DivMod
<1> QED
  BY <1>6, <1>7, <1>8

\* A symbol index that is not behind the symbol table is in it.
LEMMA SymbolInTable ==
  ASSUME TypeOK, Entered, AtEntry, phase = "relocations",
         ~(Rel.sym >= Len(Sections[Header.link].entries))
  PROVE  Rel.sym < Len(Sections[Header.link].entries)
<1>1. /\ sec \in DOMAIN Sections /\ ent \in DOMAIN Sections[sec].entries
      /\ Sections[sec].type \in {"REL", "RELA"} /\ EnterError = "none"
      /\ Rel = Sections[sec].entries[ent]
  BY EntryHere DEF TableTypes, Rel, Header
<1>2. Rel.sym \in Nat
  BY <1>1, RelocationFields DEF TypeOK
<1>3. Header.link \in DOMAIN Sections
  BY <1>1, HeaderChecked DEF EnterError, TableError
<1> QED
  BY <1>2, <1>3, EntryTable DEF TypeOK

\* A relocation that refers to a symbol of its table computes the distance
\* between what it refers to and its field, from addresses found before.
LEMMA DistanceFound ==
  ASSUME TypeOK, Entered, SectionsPlaced, SymbolsPlacedOnce,
         AtEntry, phase = "relocations",
         Rel.sym # 0, Rel.sym < Len(Sections[Header.link].entries)
  PROVE  LET e == <<sec, ent>>
             t == <<Sections[e[1]].link, EntryOf(e).sym + 1>>
         IN  /\ e \in Relocations
             /\ SymAddr = SymbolAddress(t)
             /\ Target(e) \in Int /\ FieldAddress(e) \in Int
             /\ RelValue(RelAddr, SymAddr, Addend)
                  = (Target(e) - FieldAddress(e)) % Word
<1> DEFINE e == <<sec, ent>>
           t == <<Sections[sec].link, EntryOf(<<sec, ent>>).sym + 1>>
<1>1. /\ sec \in DOMAIN Sections /\ ent \in DOMAIN Sections[sec].entries
      /\ Sections[sec].type \in {"REL", "RELA"} /\ EnterError = "none"
      /\ Rel = EntryOf(e) /\ Rel = Sections[sec].entries[ent]
      /\ Header = Sections[sec]
  BY EntryHere DEF TableTypes, Rel, Header
<1>2. e \in Relocations /\ e[1] = sec /\ e[2] = ent
  BY <1>1, RelocationIn
<1>3. Rel.sym \in Nat /\ Rel.offset \in Nat /\ Rel.addend \in Int
  BY <1>1, RelocationFields DEF TypeOK
<1>4. TableError(Header.link, "SYMTAB") = "none"
  BY <1>1 DEF EnterError
<1>5. HeaderError(Header.info, "PROGBITS") = "none"
  BY <1>1, <1>4 DEF EnterError
<1>6. Header.link \in DOMAIN Sections /\ Sections[Header.link].type = "SYMTAB"
  BY <1>4, HeaderChecked DEF TableError
<1>7. Header.info \in DOMAIN Sections
  BY <1>5, HeaderChecked
<1>8. Rel.sym + 1 \in DOMAIN Sections[Header.link].entries
  <2>1. /\ Len(Sections[Header.link].entries) \in Nat
        /\ DOMAIN Sections[Header.link].entries
             = 1 .. Len(Sections[Header.link].entries)
    BY <1>6, EntryTable DEF TypeOK
  <2> QED
    BY <1>3, <2>1
<1>9. t = <<Header.link, Rel.sym + 1>>
  BY <1>1
<1>10. t \in Symbols /\ t[1] = Header.link /\ t[2] = Rel.sym + 1
  BY <1>6, <1>8, <1>9, SymbolIn
<1>11. SymAddr = SymbolAddress(t)
  <2>1. Passed("symbols", t)
    BY DEF Passed
  <2>2. sy_value[t[1]][t[2]] = SymbolAddress(t)
    BY <1>10, <2>1 DEF SymbolsPlacedOnce
  <2> QED
    BY <1>10, <2>2 DEF SymAddr
<1>12. SymAddr \in Int
  <2>1. Rel.sym + 1 \in TableIndices(Header.link, {"SYMTAB"})
    BY <1>6, <1>8 DEF TableIndices
  <2> QED
    BY <1>6, <2>1 DEF SymAddr, TypeOK, WrittenOK
<1>13. PICK b \in Int, o \in Int, r \in Int, s \in Int, a \in Int :
         /\ b = image.base /\ o = Sections[Header.info].offset
         /\ r = Rel.offset /\ s = SymAddr /\ a = Addend
  <2>1. Addend \in Int
    BY <1>3 DEF Addend
  <2>2. image.base \in Int /\ Sections[Header.info].offset \in Int
    BY <1>7, SectionFields DEF TypeOK
  <2>3. Rel.offset \in Int
    BY <1>3
  <2> QED
    BY <1>12, <2>1, <2>2, <2>3, Zenon
<1>14. PICK p \in Int : p = b + o
  OBVIOUS
<1>15. RelAddr = ((p % Word) + r) % Word
  BY <1>7, <1>13, <1>14 DEF RelAddr, SectionsPlaced
<1>16. Target(e) = s + a
  BY <1>1, <1>2, <1>11, <1>13 DEF Target, Addend
<1>17. FieldAddress(e) = p + r
  BY <1>1, <1>2, <1>13, <1>14 DEF FieldAddress
<1>18. RelValue(RelAddr, SymAddr, Addend) = ((s + a) - (p + r)) % Word
  <2>1. RelValue(((p % Word) + r) % Word, s, a)
          = ((s + a) - (p + r)) % Word
    BY RelValueExact
  <2> QED
    BY <1>13, <1>15, <2>1
<1> HIDE DEF e, t
<1>19. Target(e) \in Int /\ FieldAddress(e) \in Int
  BY <1>16, <1>17
<1>20. RelValue(RelAddr, SymAddr, Addend) = (Target(e) - FieldAddress(e)) % Word
  BY <1>16, <1>17, <1>18
<1> QED
  BY <1>2, <1>11, <1>19, <1>20 DEF e, t

-----------------------------------------------------------------------------
(* The invariant: types *)

\* Every step moves, stops, or handles a section header or an entry.
LEMMA StepKinds ==
  ASSUME Next
  PROVE  \/ SkipSection \/ EnterTable \/ LeaveTable \/ EndOfTable
         \/ \E code \in Codes \ {"none"} :
              /\ Fails(code)
              /\ code = "REL_VALUE_OVERFLOW" =>
                   RefuseRelocation /\ code = RelError
         \/ AssignSection \/ AssignSymbol \/ Relocate
<1>1. RefuseSection => Fails("NON_EMPTY_NOBITS_SECTION")
  BY DEF RefuseSection
<1>2. RefuseTable => EnterError # "none" /\ Fails(EnterError)
  BY DEF RefuseTable
<1>3. RefuseSymbol => SymbolError # "none" /\ Fails(SymbolError)
  BY DEF RefuseSymbol
<1>4. RefuseRelocation => RelError # "none" /\ Fails(RelError)
  BY DEF RefuseRelocation
<1>5. "NON_EMPTY_NOBITS_SECTION" \in Codes \ {"none", "REL_VALUE_OVERFLOW"}
  BY DEF Codes
<1> QED
  BY <1>1, <1>2, <1>3, <1>4, <1>5, CheckCodes DEF Next

\* The section table is walked from its start to just behind its end.
LEMMA NextSection ==
  ASSUME ImageOK(image)
  PROVE  /\ 0 \in DOMAIN Sections \cup {Cardinality(DOMAIN Sections)}
         /\ \A i \in DOMAIN Sections :
              i + 1 \in DOMAIN Sections \cup {Cardinality(DOMAIN Sections)}
<1>1. PICK n, S :
        n \in Nat /\ n = Cardinality(DOMAIN Sections) /\ S = DOMAIN Sections
  BY SectionTable
<1>2. S = 0 .. n - 1
  BY <1>1, SectionTable
<1>3. 0 \in S \cup {n}
  <2>1. n \in Nat /\ S = 0 .. n - 1
    BY <1>1, <1>2
  <2> QED
    BY <2>1
<1>4. ASSUME NEW i \in S PROVE i + 1 \in S \cup {n}
  <2>1. n \in Nat /\ i \in 0 .. n - 1
    BY <1>1, <1>2
  <2>2. i + 1 \in 0 .. n - 1 \/ i + 1 = n
    BY <2>1
  <2> QED
    BY <1>2, <2>2
<1> QED
  BY <1>1, <1>3, <1>4

\* Where the iterators may be, from where they are.
LEMMA PlaceTypes ==
  ASSUME TypeOK, image' = image,
         \/ /\ sec' \in DOMAIN Sections \cup {Cardinality(DOMAIN Sections)}
            /\ ent' = 0
         \/ /\ sec' = sec /\ sec \in DOMAIN Sections
            /\ ent' \in 0 .. Len(Header.entries) + 1
         \/ sec' = sec /\ ent' = ent
  PROVE  PlaceOK'
<1>1. Sections' = Sections
  BY MeaningKept
<1>2. \A i \in DOMAIN Sections : Len(Sections[i].entries) \in Nat
  BY EntryTable DEF TypeOK
<1>3. (sec \in DOMAIN Sections \cup {Cardinality(DOMAIN Sections)})'
  BY <1>1 DEF TypeOK, PlaceOK
<1>4. CASE ent' = 0
  BY <1>1, <1>2, <1>3, <1>4 DEF Header, PlaceOK
<1>5. CASE sec' = sec /\ sec \in DOMAIN Sections
           /\ ent' \in 0 .. Len(Header.entries) + 1
  BY <1>1, <1>3, <1>5 DEF Header, PlaceOK
<1>6. CASE sec' = sec /\ ent' = ent
  BY <1>1, <1>6 DEF Header, TypeOK, PlaceOK
<1> QED
  BY <1>3, <1>4, <1>5, <1>6

LEMMA WrittenKept ==
  ASSUME WrittenOK, UNCHANGED <<image, sh_addr, sy_value, queries, field>>
  PROVE  WrittenOK'
<1>1. /\ Sections' = Sections
      /\ \A i, types : TableIndices(i, types)' = TableIndices(i, types)
  BY MeaningKept
<1> QED
  BY <1>1 DEF WrittenOK

LEMMA MoveType ==
  ASSUME TypeOK, Entered,
         SkipSection \/ EnterTable \/ LeaveTable \/ EndOfTable
  PROVE  /\ TypeOK'
         /\ UNCHANGED <<image, sh_addr, sy_value, queries, field, error>>
<1>1. UNCHANGED <<image, sh_addr, sy_value, queries, field, error>>
  BY DEF SkipSection, EnterTable, LeaveTable, EndOfTable
<1>2. WrittenOK' /\ ImageOK(image)' /\ error' \in Codes
  BY <1>1, WrittenKept DEF TypeOK
<1>4. CASE SkipSection
  <2>1. /\ sec' = sec + 1 /\ sec \in DOMAIN Sections
        /\ UNCHANGED <<phase, ent, result, done>>
    BY <1>4 DEF SkipSection
  <2>2. ent = 0
    <3>1. ent \in Nat
      BY Places
    <3> QED
      BY <1>4, <3>1 DEF SkipSection, Entered
  <2>3. sec' \in DOMAIN Sections \cup {Cardinality(DOMAIN Sections)}
    BY <2>1, NextSection DEF TypeOK
  <2> QED
    BY <1>1, <1>2, <2>1, <2>2, <2>3, PlaceTypes DEF TypeOK
<1>5. CASE EnterTable
  <2>1. /\ sec' = sec /\ sec \in DOMAIN Sections /\ ent' = 1
        /\ UNCHANGED <<phase, result, done>>
    BY <1>5 DEF EnterTable, MayEnter
  <2>2. Len(Header.entries) \in Nat
    BY <2>1, EntryTable DEF TypeOK, Header
  <2> QED
    BY <1>1, <1>2, <2>1, <2>2, PlaceTypes DEF TypeOK
<1>6. CASE LeaveTable
  <2>1. /\ sec' = sec + 1 /\ sec \in DOMAIN Sections /\ ent' = 0
        /\ UNCHANGED <<phase, result, done>>
    BY <1>6 DEF LeaveTable, Entered
  <2>2. sec' \in DOMAIN Sections \cup {Cardinality(DOMAIN Sections)}
    BY <2>1, NextSection DEF TypeOK
  <2> QED
    BY <1>1, <1>2, <2>1, <2>2, PlaceTypes DEF TypeOK
<1>7. CASE EndOfTable
  <2>1. result' = "none" /\ "none" \in Codes
    BY <1>7 DEF EndOfTable, Returns, Codes
  <2>2. CASE phase = "relocations"
    <3>1. UNCHANGED <<phase, sec, ent>> /\ done' = TRUE
      BY <1>7, <2>2 DEF EndOfTable, Returns
    <3> QED
      BY <1>1, <1>2, <2>1, <3>1, PlaceTypes DEF TypeOK
  <2>3. CASE phase # "relocations"
    <3>1. phase' = After(phase) /\ sec' = 0 /\ ent' = 0 /\ done' = done
      BY <1>7, <2>3 DEF EndOfTable, Returns
    <3>2. sec' \in DOMAIN Sections \cup {Cardinality(DOMAIN Sections)}
      BY <3>1, NextSection DEF TypeOK
    <3>3. phase' \in {"symbols", "relocations"}
      BY <3>1 DEF After
    <3> QED
      BY <1>1, <1>2, <2>1, <3>1, <3>2, <3>3, PlaceTypes DEF TypeOK
  <2> QED
    BY <2>2, <2>3
<1> QED
  BY <1>1, <1>4, <1>5, <1>6, <1>7

LEMMA FailureType ==
  ASSUME TypeOK, NEW code \in Codes \ {"none"}, Fails(code)
  PROVE  TypeOK'
<1>1. /\ error' = code /\ done' = TRUE /\ result' \in Codes
      /\ UNCHANGED <<image, phase, sec, ent, sh_addr, sy_value, queries, field>>
  BY FailureStops DEF Codes
<1> QED
  BY <1>1, PlaceTypes, WrittenKept DEF TypeOK

LEMMA SectionType ==
  ASSUME TypeOK, Entered, AssignSection
  PROVE  TypeOK'
<1>1. /\ phase = "sections" /\ sec \in DOMAIN Sections
      /\ sh_addr' = [sh_addr EXCEPT ![sec] = Address(sec)]
      /\ sec' = sec + 1
      /\ UNCHANGED <<image, phase, ent, sy_value, queries, field, error, result,
                     done>>
  BY DEF AssignSection
<1>2. ent = 0
  <2>1. ent \in Nat
    BY Places
  <2> QED
    BY <1>1, <2>1 DEF Entered, TableTypes
<1>3. sec + 1 \in DOMAIN Sections \cup {Cardinality(DOMAIN Sections)}
  BY <1>1, NextSection DEF TypeOK
<1>4. PlaceOK'
  BY <1>1, <1>2, <1>3, PlaceTypes
<1>5. Address(sec) \in Words
  BY <1>1, SectionFields, DivMod DEF Address, TypeOK
<1>6. /\ Sections' = Sections
      /\ \A i, types : TableIndices(i, types)' = TableIndices(i, types)
  BY <1>1, MeaningKept
<1>7. WrittenOK'
  BY <1>1, <1>5, <1>6 DEF WrittenOK, TypeOK
<1> QED
  BY <1>1, <1>4, <1>7 DEF TypeOK

\* The first query that waits for a name, if one does.
LEMMA FirstWaiting ==
  ASSUME TypeOK, NEW name, NEW waiting,
         waiting = {k \in DOMAIN queries :
                      ~queries[k].defined /\ queries[k].name = name}
  PROVE  LET k == SelectInSeq(queries, LAMBDA q : ~q.defined /\ q.name = name)
         IN  /\ waiting = {} => k = 0
             /\ waiting # {} =>
                  k \in waiting /\ k # 0 /\ \A l \in waiting : k <= l
<1> DEFINE found == {k \in 1 .. Len(queries) :
                       ~queries[k].defined /\ queries[k].name = name}
<1>1. DOMAIN queries = 1 .. Len(queries) /\ Len(queries) \in Nat
  BY DEF TypeOK, WrittenOK
<1>2. waiting = found /\ waiting \in SUBSET Nat /\ 0 \notin waiting
  BY <1>1
<1>3. SelectInSeq(queries, LAMBDA q : ~q.defined /\ q.name = name)
        = IF found # {} THEN Min(found) ELSE 0
  BY DEF SelectInSeq
<1>4. waiting # {} => \E k \in waiting : \A l \in waiting : k <= l
  BY <1>2, LeastMember
<1>5. found # {} => Min(found) \in waiting
                      /\ \A l \in waiting : Min(found) <= l
  <2> HIDE DEF found
  <2> QED
    BY <1>2, <1>4 DEF Min
<1> HIDE DEF found
<1>6. /\ waiting = {} => (IF found # {} THEN Min(found) ELSE 0) = 0
      /\ waiting # {} =>
           /\ (IF found # {} THEN Min(found) ELSE 0) \in waiting
           /\ (IF found # {} THEN Min(found) ELSE 0) # 0
           /\ \A l \in waiting : (IF found # {} THEN Min(found) ELSE 0) <= l
  BY <1>2, <1>5
<1> QED
  BY <1>3, <1>6

\* What an answer makes of a query.
LEMMA AnswerMade ==
  ASSUME NEW q, loader_symbol(q), NEW value \in Words, NEW r,
         r = [q EXCEPT !.defined = TRUE, !.addr = value]
  PROVE  loader_symbol(r) /\ r.defined
<1>1. r \in [name : {q.name}, defined : BOOLEAN, addr : 0 .. Word - 1]
  BY DEF loader_symbol
<1>2. r.name = q.name /\ r.defined = TRUE
  BY DEF loader_symbol
<1> QED
  BY <1>1, <1>2 DEF loader_symbol

\* An address is given to nobody, or to the first query that waits for it.
LEMMA AnswersStep ==
  ASSUME TypeOK, NEW name, NEW value \in Words, Answers(name, value)
  PROVE  /\ queries' \in Seq(Range(queries'))
         /\ Len(queries') = Len(image.queries)
         /\ \A q \in Range(queries') : loader_symbol(q)
         /\ \/ /\ queries' = queries
               /\ \/ value = 0
                  \/ \A k \in DOMAIN queries :
                       queries[k].name = name => queries[k].defined
            \/ /\ value # 0
               /\ \E k \in DOMAIN queries :
                    /\ ~queries[k].defined /\ queries[k].name = name
                    /\ queries'[k] = [queries[k] EXCEPT !.defined = TRUE,
                                                       !.addr = value]
                    /\ queries'[k].defined
                    /\ DOMAIN queries' = DOMAIN queries
                    /\ \A l \in DOMAIN queries :
                         /\ l # k => queries'[l] = queries[l]
                         /\ ~queries[l].defined /\ queries[l].name = name
                              => k <= l
<1>0. PICK W : W = {k \in DOMAIN queries :
                      ~queries[k].defined /\ queries[k].name = name}
  OBVIOUS
<1>1. PICK k : k = SelectInSeq(queries, LAMBDA q : ~q.defined /\ q.name = name)
  OBVIOUS
<1>2. queries' = IF value = 0 \/ k = 0 THEN queries
                 ELSE [queries EXCEPT ![k].defined = TRUE, ![k].addr = value]
  BY <1>1 DEF Answers
<1>3. /\ W = {} => k = 0
      /\ W # {} => k \in W /\ k # 0 /\ \A l \in W : k <= l
  BY <1>0, <1>1, FirstWaiting
<1>4. /\ queries \in Seq(Range(queries)) /\ Len(queries) = Len(image.queries)
      /\ \A q \in Range(queries) : loader_symbol(q)
  BY DEF TypeOK, WrittenOK
<1>5. CASE value = 0 \/ k = 0
  BY <1>0, <1>2, <1>3, <1>4, <1>5
<1>6. CASE value # 0 /\ k # 0
  <2>1. /\ k \in DOMAIN queries
        /\ ~queries[k].defined /\ queries[k].name = name
        /\ \A l \in W : k <= l
    BY <1>0, <1>3, <1>6
  <2>2. PICK r : r = [queries[k] EXCEPT !.defined = TRUE, !.addr = value]
    OBVIOUS
  <2>3. queries' = [queries EXCEPT ![k] = r]
    BY <1>2, <1>6, <2>1, <2>2
  <2>4. /\ DOMAIN queries = 1 .. Len(queries) /\ Len(queries) \in Nat
        /\ DOMAIN queries' = DOMAIN queries
        /\ queries'[k] = r
        /\ \A l \in DOMAIN queries : l # k => queries'[l] = queries[l]
    BY <1>4, <2>1, <2>3
  <2>5. loader_symbol(r) /\ r.defined
    <3>1. queries[k] \in Range(queries)
      BY <2>1 DEF Range
    <3> QED
      BY <1>4, <2>2, <3>1, AnswerMade
  <2>6. \A q \in Range(queries') : loader_symbol(q)
    <3>1. ASSUME NEW l \in DOMAIN queries PROVE loader_symbol(queries'[l])
      <4>1. queries[l] \in Range(queries)
        BY DEF Range
      <4> QED
        BY <1>4, <2>4, <2>5, <4>1
    <3> QED
      BY <2>4, <3>1 DEF Range
  <2>7. queries' \in Seq(Range(queries')) /\ Len(queries') = Len(queries)
    <3>1. queries' \in [1 .. Len(queries) -> Range(queries')]
      BY <2>3, <2>4 DEF Range
    <3> QED
      BY <2>4, <3>1
  <2> QED
    BY <1>0, <1>4, <1>6, <2>1, <2>2, <2>4, <2>5, <2>6, <2>7
<1> QED
  BY <1>5, <1>6

LEMMA SymbolType ==
  ASSUME TypeOK, Entered, SectionsPlaced, SymbolsPlacedOnce, AssignSymbol
  PROVE  TypeOK'
<1>1. /\ phase = "symbols" /\ AtEntry /\ SymbolError = "none"
      /\ sy_value' = [sy_value EXCEPT ![sec][ent] = SymbolValue]
      /\ Answers(Sym.name, SymbolValue)
      /\ sec' = sec /\ ent' = ent + 1
      /\ UNCHANGED <<image, phase, sh_addr, field, error, result, done>>
  BY DEF AssignSymbol
<1>2. /\ sec \in DOMAIN Sections /\ ent \in DOMAIN Sections[sec].entries
      /\ Sections[sec].type = "SYMTAB"
  BY <1>1, EntryHere DEF TableTypes
<1>3. SymbolValue \in Words
  BY <1>1, SymbolPlaced
<1>4. ent' \in 0 .. Len(Header.entries) + 1
  BY <1>1, <1>2, Places DEF Header
<1>5. PlaceOK'
  BY <1>1, <1>2, <1>4, PlaceTypes
<1>6. /\ Sections' = Sections
      /\ \A i, types : TableIndices(i, types)' = TableIndices(i, types)
  BY <1>1, MeaningKept
<1>7. ent \in TableIndices(sec, {"SYMTAB"})
  BY <1>2 DEF TableIndices
<1>8. /\ queries' \in Seq(Range(queries'))
      /\ Len(queries') = Len(image.queries)
      /\ \A q \in Range(queries') : loader_symbol(q)
  BY <1>1, <1>3, AnswersStep
<1>9. /\ DOMAIN sy_value' = DOMAIN Sections
      /\ \A i \in DOMAIN Sections :
           sy_value'[i] \in [TableIndices(i, {"SYMTAB"}) -> Words]
  <2>1. /\ DOMAIN sy_value = DOMAIN Sections
        /\ \A i \in DOMAIN Sections :
             sy_value[i] \in [TableIndices(i, {"SYMTAB"}) -> Words]
    BY DEF TypeOK, WrittenOK
  <2> QED
    BY <1>1, <1>2, <1>3, <1>7, <2>1
<1>10. WrittenOK'
  BY <1>1, <1>6, <1>8, <1>9 DEF WrittenOK, TypeOK
<1> QED
  BY <1>1, <1>5, <1>10 DEF TypeOK

\* A relocation that is applied stores the distance, cut to its field.
LEMMA FieldStored ==
  ASSUME TypeOK, Entered, SectionsPlaced, SymbolsPlacedOnce, Relocate
  PROVE  LET e == <<sec, ent>>
             v == Stored(Field, (Target(e) - FieldAddress(e)) % Word)
         IN  /\ e \in Relocations
             /\ field' = [field EXCEPT ![sec][ent] = v]
             /\ v \in Fields
             /\ (v + FieldAddress(e) - Target(e)) % Field = 0
             /\ SymbolAddress(<<Sections[e[1]].link, EntryOf(e).sym + 1>>) # 0
             /\ Near(e) <=>
                  (Signed(v, Field) + FieldAddress(e)) % Word
                    = Target(e) % Word
<1> DEFINE e == <<sec, ent>>
           v == Stored(Field, (Target(e) - FieldAddress(e)) % Word)
           t == <<Sections[e[1]].link, EntryOf(e).sym + 1>>
<1>1. /\ phase = "relocations" /\ AtEntry /\ RelError = "none"
      /\ field' = [field EXCEPT ![sec][ent] =
                     Stored(Field, RelValue(RelAddr, SymAddr, Addend))]
  BY DEF Relocate
<1>2. /\ Rel.sym # 0 /\ ~(Rel.sym >= Len(Sections[Header.link].entries))
      /\ SymAddr # 0
  BY <1>1 DEF RelError
<1>3. Rel.sym < Len(Sections[Header.link].entries)
  BY <1>1, <1>2, SymbolInTable
<1>4. /\ e \in Relocations
      /\ SymAddr = SymbolAddress(t)
      /\ Target(e) \in Int /\ FieldAddress(e) \in Int
      /\ RelValue(RelAddr, SymAddr, Addend)
           = (Target(e) - FieldAddress(e)) % Word
  BY <1>1, <1>2, <1>3, DistanceFound
<1>5. /\ v \in Fields
      /\ (v + FieldAddress(e) - Target(e)) % Field = 0
  BY <1>4, StoredDistance
<1>6. Near(e) => (Signed(v, Field) + FieldAddress(e)) % Word = Target(e) % Word
  BY <1>4, NearIsExact DEF Near
<1>7. (Signed(v, Field) + FieldAddress(e)) % Word = Target(e) % Word => Near(e)
  <2>1. PICK f \in Int, g \in Int : f = FieldAddress(e) /\ g = Target(e)
    BY <1>4
  <2> HIDE DEF e, v
  <2> QED
    BY <1>5, <2>1, OnlyNearIsExact DEF Near
<1> QED
  BY <1>1, <1>2, <1>4, <1>5, <1>6, <1>7

LEMMA RelocationType ==
  ASSUME TypeOK, Entered, SectionsPlaced, SymbolsPlacedOnce, Relocate
  PROVE  TypeOK'
<1>1. /\ phase = "relocations" /\ AtEntry
      /\ sec' = sec /\ ent' = ent + 1
      /\ UNCHANGED <<image, phase, sh_addr, sy_value, queries, error, result,
                     done>>
  BY DEF Relocate
<1>2. PICK v \in Fields : field' = [field EXCEPT ![sec][ent] = v]
  BY FieldStored
<1>3. /\ sec \in DOMAIN Sections /\ ent \in DOMAIN Sections[sec].entries
      /\ Sections[sec].type \in {"REL", "RELA"}
  BY <1>1, EntryHere DEF TableTypes
<1>4. ent' \in 0 .. Len(Header.entries) + 1
  BY <1>1, <1>3, Places DEF Header
<1>5. PlaceOK'
  BY <1>1, <1>3, <1>4, PlaceTypes
<1>6. /\ Sections' = Sections
      /\ \A i, types : TableIndices(i, types)' = TableIndices(i, types)
  BY <1>1, MeaningKept
<1>7. ent \in TableIndices(sec, {"REL", "RELA"})
  BY <1>3 DEF TableIndices
<1>8. /\ DOMAIN field' = DOMAIN Sections
      /\ \A i \in DOMAIN Sections :
           field'[i] \in
             [TableIndices(i, {"REL", "RELA"}) -> Fields \cup {Absent}]
  <2>1. /\ DOMAIN field = DOMAIN Sections
        /\ \A i \in DOMAIN Sections :
             field[i] \in
               [TableIndices(i, {"REL", "RELA"}) -> Fields \cup {Absent}]
    BY DEF TypeOK, WrittenOK
  <2> QED
    BY <1>2, <1>3, <1>7, <2>1
<1>9. WrittenOK'
  BY <1>1, <1>6, <1>8 DEF WrittenOK, TypeOK
<1> QED
  BY <1>1, <1>5, <1>9 DEF TypeOK

\* Every step keeps the types.
LEMMA TypeStep ==
  ASSUME TypeOK, Entered, SectionsPlaced, SymbolsPlacedOnce, Next
  PROVE  TypeOK'
  BY StepKinds, MoveType, FailureType, SectionType, SymbolType,
     RelocationType

-----------------------------------------------------------------------------
(* The invariant: places *)

\* A table that was entered has been checked.
LEMMA EnteredStep ==
  ASSUME TypeOK, Entered, Next
  PROVE  Entered'
<1>1. image' = image /\ Sections' = Sections
  BY ImageKept, MeaningKept
<1>2. ASSUME UNCHANGED <<phase, sec>>, ent > 0, ent' > 0 PROVE Entered'
  BY <1>1, <1>2 DEF Entered, Header, TableTypes, EnterError, EntsizeError,
    TableError, HeaderError
<1>3. ASSUME ent' = 0 PROVE Entered'
  BY <1>3 DEF Entered
<1>4. ASSUME UNCHANGED <<phase, sec, ent>> PROVE Entered'
  BY <1>1, <1>4 DEF Entered, Header, TableTypes, EnterError, EntsizeError,
    TableError, HeaderError
<1>5. CASE SkipSection
  <2>1. ent \in Nat
    BY Places
  <2>2. ent = 0 /\ ent' = ent
    BY <1>5, <2>1 DEF SkipSection, Entered
  <2> QED
    BY <1>3, <2>2
<1>6. CASE EnterTable
  <2>1. /\ UNCHANGED <<phase, sec>> /\ sec \in DOMAIN Sections
        /\ Header.type \in TableTypes /\ EnterError = "none"
    BY <1>6 DEF EnterTable, MayEnter
  <2> QED
    BY <1>1, <2>1 DEF Entered, Header, TableTypes, EnterError, EntsizeError,
      TableError, HeaderError
<1>7. CASE LeaveTable
  BY <1>3, <1>7 DEF LeaveTable
<1>8. CASE EndOfTable
  BY <1>3, <1>4, <1>8 DEF EndOfTable, Returns
<1>9. ASSUME NEW code \in Codes \ {"none"}, Fails(code) PROVE Entered'
  BY <1>4, <1>9, FailureStops
<1>10. CASE AssignSection
  <2>1. ent \in Nat
    BY Places
  <2>2. ent = 0 /\ ent' = ent
    BY <1>10, <2>1 DEF AssignSection, Entered, TableTypes
  <2> QED
    BY <1>3, <2>2
<1>11. CASE AssignSymbol \/ Relocate
  <2>1. /\ UNCHANGED <<phase, sec>> /\ ent > 0 /\ ent' = ent + 1
    BY <1>11 DEF AssignSymbol, Relocate, AtEntry
  <2>2. ent \in Nat
    BY Places
  <2> QED
    BY <1>2, <2>1, <2>2
<1> QED
  BY <1>5, <1>6, <1>7, <1>8, <1>9, <1>10, <1>11, StepKinds

\* A problem ends the call.
LEMMA StoppedStep ==
  ASSUME Stopped, Next
  PROVE  Stopped'
<1>1. ~done
  BY ImageKept
<1>2. error = "none"
  BY <1>1 DEF Stopped
<1>3. ASSUME NEW code \in Codes \ {"none"}, Fails(code) PROVE Stopped'
  BY <1>3, FailureStops DEF Stopped
<1>4. CASE error' = error
  BY <1>2, <1>4 DEF Stopped
<1> QED
  BY <1>3, <1>4, StepKinds DEF SkipSection, EnterTable, LeaveTable,
    EndOfTable, AssignSection, AssignSymbol, Relocate

\* The first call places the sections one by one, the others leave them.
LEMMA SectionsStep ==
  ASSUME TypeOK, Entered, SectionsPlaced, Next
  PROVE  SectionsPlaced'
<1>1. image' = image /\ Sections' = Sections
  BY ImageKept, MeaningKept
<1>2. ASSUME UNCHANGED <<sh_addr, phase>>, phase # "sections" \/ sec' = sec
      PROVE  SectionsPlaced'
  BY <1>1, <1>2 DEF SectionsPlaced
<1>3. CASE AssignSection
  <2>1. /\ phase = "sections" /\ phase' = phase /\ sec \in DOMAIN Sections
        /\ sec' = sec + 1
        /\ sh_addr' = [sh_addr EXCEPT ![sec] = Address(sec)]
    BY <1>3 DEF AssignSection
  <2>2. DOMAIN sh_addr = DOMAIN Sections
    BY DEF TypeOK, WrittenOK
  <2>3. PICK n \in Nat : DOMAIN Sections = 0 .. n - 1
    BY Places
  <2>4. ASSUME NEW i \in DOMAIN Sections
        PROVE  sh_addr'[i] = IF i >= sec' THEN 0
                             ELSE (image.base + Sections[i].offset) % Word
    <3>1. sh_addr[i] = IF i >= sec THEN 0
                       ELSE (image.base + Sections[i].offset) % Word
      BY <2>1 DEF SectionsPlaced
    <3>2. CASE i = sec
      BY <2>1, <2>2, <2>3, <3>2 DEF Address
    <3>3. CASE i # sec
      <4>1. sh_addr'[i] = sh_addr[i]
        BY <2>1, <2>2, <3>3
      <4>2. i >= sec <=> i >= sec'
        BY <2>1, <2>3, <3>3
      <4> QED
        BY <3>1, <4>1, <4>2
    <3> QED
      BY <3>2, <3>3
  <2> QED
    BY <1>1, <2>1, <2>4 DEF SectionsPlaced
<1>4. CASE EndOfTable
  <2>1. CASE phase = "sections"
    <3>1. phase' = "symbols" /\ sh_addr' = sh_addr
      BY <1>4, <2>1 DEF EndOfTable, Returns, After
    <3>2. PICK n \in Nat : DOMAIN Sections = 0 .. n - 1 /\ sec \in 0 .. n
      BY Places
    <3>3. sec = n
      BY <1>4, <3>2 DEF EndOfTable
    <3>4. \A i \in DOMAIN Sections : ~(i >= sec)
      BY <3>2, <3>3
    <3> QED
      BY <1>1, <3>1, <3>4 DEF SectionsPlaced
  <2>2. CASE phase # "sections"
    <3>1. phase' # "sections" /\ sh_addr' = sh_addr
      BY <1>4, <2>2 DEF EndOfTable, Returns, After
    <3> QED
      BY <1>1, <2>2, <3>1 DEF SectionsPlaced
  <2> QED
    BY <2>1, <2>2
<1>5. ASSUME NEW code \in Codes \ {"none"}, Fails(code) PROVE SectionsPlaced'
  BY <1>2, <1>5, FailureStops
<1>6. CASE SkipSection \/ AssignSymbol \/ Relocate
  BY <1>2, <1>6 DEF SkipSection, AssignSymbol, Relocate
<1>7. CASE EnterTable
  BY <1>2, <1>7 DEF EnterTable
<1>8. CASE LeaveTable
  <2>1. phase # "sections" /\ UNCHANGED <<sh_addr, phase>>
    BY <1>8 DEF LeaveTable, Entered, TableTypes
  <2> QED
    BY <1>2, <2>1
<1> QED
  BY <1>3, <1>4, <1>5, <1>6, <1>7, <1>8, StepKinds

-----------------------------------------------------------------------------
(* The invariant: symbols and queries *)

\* What is known of the symbols holds behind a step that passes none.
LEMMA SymbolsKept ==
  ASSUME SymbolsPlacedOnce, QueriesAnswered,
         UNCHANGED <<image, sy_value, queries>>,
         \A e \in Symbols : Passed("symbols", e)' <=> Passed("symbols", e)
  PROVE  SymbolsPlacedOnce' /\ QueriesAnswered'
<1>1. /\ Symbols' = Symbols
      /\ \A e : EntryOf(e)' = EntryOf(e)
                /\ SymbolAddress(e)' = SymbolAddress(e)
  BY MeaningKept
<1>2. SymbolsPlacedOnce'
  BY <1>1 DEF SymbolsPlacedOnce
<1>3. \A q : Givers(q)' = Givers(q)
  BY <1>1 DEF Givers
<1>4. Asked' = Asked /\ Answered' = Answered
  BY DEF Asked, Answered
<1>5. \A k, by : AnsweredBy(k, by)' <=> AnsweredBy(k, by)
  BY <1>1, <1>3, <1>4 DEF AnsweredBy, SameName, Precedes
<1>6. QueriesAnswered'
  BY <1>1, <1>3, <1>4, <1>5 DEF QueriesAnswered
<1> QED
  BY <1>2, <1>6

\* What the loader knows of the symbols.
SymbolsKnown == SymbolsPlacedOnce /\ QueriesAnswered

\* The steps that handle no symbol leave it alone.
LEMMA OthersKeepSymbols ==
  ASSUME TypeOK, Entered, SymbolsKnown, Next, ~AssignSymbol
  PROVE  SymbolsKnown'
<1>1. image' = image
  BY ImageKept
<1>2. ASSUME UNCHANGED <<sy_value, queries>>,
             \A i \in DOMAIN Sections :
               Sections[i].type = "SYMTAB" =>
                 \A j \in DOMAIN Sections[i].entries :
                   Passed("symbols", <<i, j>>)' <=> Passed("symbols", <<i, j>>)
      PROVE  SymbolsKnown'
  <2>1. \A e \in Symbols : Passed("symbols", e)' <=> Passed("symbols", e)
    BY <1>2, SymbolIn
  <2> QED
    BY <1>1, <1>2, <2>1, SymbolsKept DEF SymbolsKnown
<1>3. CASE SkipSection \/ EnterTable \/ LeaveTable \/ EndOfTable
  BY <1>2, <1>3, MoveType, MovePasses
<1>4. ASSUME NEW code \in Codes \ {"none"}, Fails(code) PROVE SymbolsKnown'
  BY <1>2, <1>4, FailureStops, PassedIs
<1>5. CASE AssignSection
  BY <1>2, <1>5, PassedIs DEF AssignSection
<1>6. CASE Relocate
  BY <1>2, <1>6, PassedIs DEF Relocate
<1> QED
  BY <1>3, <1>4, <1>5, <1>6, StepKinds

\* An address is given to the next symbol, and to a query that waits for it.
LEMMA AssignPlaces ==
  ASSUME TypeOK, Entered, SectionsPlaced, SymbolsPlacedOnce, AssignSymbol
  PROVE  SymbolsPlacedOnce'
<1>1. /\ phase = "symbols" /\ AtEntry /\ SymbolError = "none"
      /\ sy_value' = [sy_value EXCEPT ![sec][ent] = SymbolValue]
      /\ ent' = ent + 1
      /\ UNCHANGED <<image, phase, sec>>
  BY DEF AssignSymbol
<1>2. /\ Symbols' = Symbols
      /\ \A e : EntryOf(e)' = EntryOf(e)
                /\ SymbolAddress(e)' = SymbolAddress(e)
  BY <1>1, MeaningKept
<1>3. SymbolValue = SymbolAddress(<<sec, ent>>)
  BY <1>1, SymbolPlaced
<1>4. /\ sec \in DOMAIN sy_value
      /\ ent \in DOMAIN sy_value[sec]
  <2>1. /\ sec \in DOMAIN Sections /\ ent \in DOMAIN Sections[sec].entries
        /\ Sections[sec].type = "SYMTAB"
    BY <1>1, EntryHere DEF TableTypes
  <2> QED
    BY <2>1 DEF TypeOK, WrittenOK, TableIndices
<1>5. ASSUME NEW i \in DOMAIN Sections, Sections[i].type = "SYMTAB",
             NEW j \in DOMAIN Sections[i].entries
      PROVE  sy_value'[i][j] =
               IF Passed("symbols", <<i, j>>)' THEN SymbolAddress(<<i, j>>)
               ELSE EntryOf(<<i, j>>).value
  <2>1. <<i, j>> \in Symbols /\ <<i, j>>[1] = i /\ <<i, j>>[2] = j
    BY <1>5, SymbolIn
  <2>2. sy_value[i][j] =
          IF Passed("symbols", <<i, j>>) THEN SymbolAddress(<<i, j>>)
          ELSE EntryOf(<<i, j>>).value
    BY <2>1 DEF SymbolsPlacedOnce
  <2>3. Passed("symbols", <<i, j>>)' <=>
          Passed("symbols", <<i, j>>) \/ <<i, j>> = <<sec, ent>>
    BY <1>1, EntryPasses
  <2>4. CASE i = sec /\ j = ent
    BY <1>1, <1>3, <1>4, <2>3, <2>4
  <2>5. CASE ~(i = sec /\ j = ent)
    <3>1. sy_value'[i][j] = sy_value[i][j]
      BY <1>1, <1>4, <2>5
    <3> QED
      BY <2>2, <2>3, <2>5, <3>1
  <2> QED
    BY <2>4, <2>5
<1>6. ASSUME NEW e \in Symbols
      PROVE  sy_value'[e[1]][e[2]] =
               IF Passed("symbols", e)' THEN SymbolAddress(e)
               ELSE EntryOf(e).value
  <2>1. PICK i \in DOMAIN Sections : /\ Sections[i].type = "SYMTAB"
                                     /\ \E j \in DOMAIN Sections[i].entries :
                                          e = <<i, j>>
    BY SymbolIn
  <2>2. PICK j \in DOMAIN Sections[i].entries : e = <<i, j>>
    BY <2>1
  <2>3. e[1] = i /\ e[2] = j
    BY <2>2
  <2> QED
    BY <1>5, <2>1, <2>2, <2>3
<1> QED
  BY <1>2, <1>6 DEF SymbolsPlacedOnce

\* The candidates for a query after a symbol: those before, and the symbol if
\* it has the name and an address; then it comes behind them all.
LEMMA GiversGrow ==
  ASSUME TypeOK, Entered, SectionsPlaced, SymbolsPlacedOnce, AssignSymbol,
         NEW q
  PROVE  LET e == <<sec, ent>>
             gives == Sym.name = q /\ SymbolValue # 0
         IN  /\ Givers(q)' = IF gives THEN Givers(q) \cup {e} ELSE Givers(q)
             /\ e \notin Givers(q)
             /\ \A d \in Givers(q) : Precedes(d, e) /\ ~Precedes(e, d)
<1> DEFINE e == <<sec, ent>>
           gives == Sym.name = q /\ SymbolValue # 0
<1>1. /\ phase = "symbols" /\ AtEntry /\ SymbolError = "none"
      /\ ent' = ent + 1
      /\ UNCHANGED <<image, phase, sec>>
  BY DEF AssignSymbol
<1>2. /\ Symbols' = Symbols
      /\ \A d : EntryOf(d)' = EntryOf(d)
                /\ SymbolAddress(d)' = SymbolAddress(d)
  BY <1>1, MeaningKept
<1>3. /\ e \in Symbols /\ Sym = EntryOf(e)
      /\ SymbolValue = SymbolAddress(e)
  BY <1>1, SymbolPlaced
<1>4. ASSUME NEW d \in Symbols
      PROVE  /\ Passed("symbols", d)' <=> Passed("symbols", d) \/ d = e
             /\ Passed("symbols", d) => Precedes(d, e) /\ ~Precedes(e, d)
             /\ ~Passed("symbols", e)
  <2>1. PICK i \in DOMAIN Sections : \E j \in DOMAIN Sections[i].entries :
                                       d = <<i, j>>
    BY SymbolIn
  <2>2. PICK j \in DOMAIN Sections[i].entries : d = <<i, j>>
    BY <2>1
  <2>3. /\ i \in Nat /\ j \in Nat /\ sec \in Nat /\ ent \in Nat
    <3>1. PICK n \in Nat :
            /\ DOMAIN Sections = 0 .. n - 1
            /\ sec \in 0 .. n /\ ent \in Nat
            /\ DOMAIN Sections[i].entries = 1 .. Len(Sections[i].entries)
      BY Places
    <3> QED
      BY <3>1
  <2>4. Precedes(d, e) => ~Precedes(e, d)
    BY <2>2, <2>3 DEF Precedes
  <2> QED
    BY <1>1, <2>2, <2>4, EntryPasses
<1> HIDE DEF e
<1>5. Givers(q)' = {d \in Symbols : /\ Passed("symbols", d) \/ d = e
                                    /\ EntryOf(d).name = q
                                    /\ SymbolAddress(d) # 0}
  BY <1>2, <1>4 DEF Givers
<1>6. Givers(q)' = IF gives THEN Givers(q) \cup {e} ELSE Givers(q)
  BY <1>3, <1>5 DEF Givers
<1>7. e \notin Givers(q) /\ \A d \in Givers(q) : Precedes(d, e) /\ ~Precedes(e, d)
  BY <1>3, <1>4 DEF Givers
<1> QED
  BY <1>6, <1>7 DEF e

\* The queries keep their order among the symbols that answer them when one
\* more is answered, the first of its name, by a symbol behind all others.
LEMMA AssignAnswers ==
  ASSUME TypeOK, Entered, SectionsPlaced, SymbolsKnown, AssignSymbol
  PROVE  QueriesAnswered'
<1>1. PICK e : e = <<sec, ent>>
  OBVIOUS
<1>2. /\ phase = "symbols" /\ AtEntry /\ SymbolError = "none"
      /\ Answers(Sym.name, SymbolValue) /\ image' = image
  BY DEF AssignSymbol
<1>3. /\ Symbols' = Symbols /\ e \in Symbols
      /\ \A d : SymbolAddress(d)' = SymbolAddress(d)
      /\ SymbolValue = SymbolAddress(e) /\ SymbolValue \in Words
  BY <1>1, <1>2, MeaningKept, SymbolPlaced DEF SymbolsKnown
<1>4. \A q : /\ Givers(q)' = IF Sym.name = q /\ SymbolValue # 0
                               THEN Givers(q) \cup {e} ELSE Givers(q)
             /\ \A d \in Givers(q) : Precedes(d, e)
  BY <1>1, GiversGrow DEF SymbolsKnown
<1>5. PICK by \in [Answered -> Symbols] :
        /\ \A k \in Answered : AnsweredBy(k, by)
        /\ \A k \in Asked \ Answered : \A d \in Givers(image.queries[k].name) :
             \E j \in Answered : by[j] = d
  BY DEF SymbolsKnown, QueriesAnswered
<1>6. /\ DOMAIN queries = DOMAIN image.queries
      /\ Asked \subseteq DOMAIN queries /\ Answered \subseteq Asked
      /\ \A k \in Asked \ Answered :
           ~queries[k].defined /\ queries[k] = image.queries[k]
      /\ \A k \in DOMAIN queries \ Answered : queries[k] = image.queries[k]
      /\ \A k \in DOMAIN queries : ~queries[k].defined => k \in Asked \ Answered
      /\ DOMAIN queries \subseteq Nat
  <2>1. /\ DOMAIN queries = 1 .. Len(queries)
        /\ DOMAIN image.queries = 1 .. Len(image.queries)
        /\ Len(queries) = Len(image.queries) /\ Len(queries) \in Nat
    BY DEF TypeOK, WrittenOK, ImageOK
  <2>2. \A k \in DOMAIN image.queries \ Answered : queries[k] = image.queries[k]
    BY DEF SymbolsKnown, QueriesAnswered
  <2> QED
    BY <2>1, <2>2 DEF Asked, Answered
<1>7. /\ Asked' = Asked
      /\ \A j, k : SameName(j, k)' <=> SameName(j, k)
      /\ \A c, d : Precedes(c, d)' <=> Precedes(c, d)
  BY <1>2 DEF Asked, SameName, Precedes
<1>8. CASE /\ queries' = queries
           /\ \/ SymbolValue = 0
              \/ \A k \in DOMAIN queries :
                   queries[k].name = Sym.name => queries[k].defined
  <2>1. Answered' = Answered
    BY <1>7, <1>8 DEF Answered
  <2>2. ASSUME NEW k \in Answered PROVE AnsweredBy(k, by)'
    BY <1>2, <1>3, <1>4, <1>5, <1>7, <1>8, <2>1 DEF AnsweredBy
  <2>3. ASSUME NEW k \in Asked \ Answered,
               NEW d \in Givers(image.queries[k].name)'
        PROVE  \E j \in Answered : by[j] = d
    BY <1>2, <1>4, <1>5, <1>6, <1>8, <2>3
  <2>4. \A k \in DOMAIN image.queries \ Answered :
          queries'[k] = image.queries[k]
    BY <1>6, <1>8
  <2> QED
    BY <1>2, <1>3, <1>7, <2>1, <2>2, <2>3, <2>4 DEF QueriesAnswered
<1>9. ASSUME SymbolValue # 0, NEW f \in DOMAIN queries,
             ~queries[f].defined, queries[f].name = Sym.name,
             queries'[f] = [queries[f] EXCEPT !.defined = TRUE,
                                             !.addr = SymbolValue],
             queries'[f].defined, DOMAIN queries' = DOMAIN queries,
             \A l \in DOMAIN queries :
               /\ l # f => queries'[l] = queries[l]
               /\ ~queries[l].defined /\ queries[l].name = Sym.name => f <= l
      PROVE  QueriesAnswered'
  <2>1. f \in Asked \ Answered /\ image.queries[f] = queries[f]
    BY <1>6, <1>9
  <2>2. Answered' = Answered \cup {f}
    BY <1>6, <1>7, <1>9, <2>1 DEF Answered
  <2>3. PICK by2 \in [Answered \cup {f} -> Symbols] :
          by2[f] = e /\ \A k \in Answered : by2[k] = by[k]
    <3>1. PICK b : b = [k \in Answered \cup {f} |-> IF k = f THEN e ELSE by[k]]
      OBVIOUS
    <3> QED
      BY <1>3, <2>1, <3>1
  <2>4. ASSUME NEW k \in Answered PROVE AnsweredBy(k, by2)'
    <3>1. /\ by[k] \in Givers(image.queries[k].name)
          /\ queries[k] = [image.queries[k] EXCEPT !.defined = TRUE,
                              !.addr = SymbolAddress(by[k])]
          /\ \A j \in Asked : j < k /\ SameName(j, k)
               => j \in Answered /\ Precedes(by[j], by[k])
      BY <1>5 DEF AnsweredBy
    <3>2. queries'[k] = queries[k]
      BY <1>6, <1>9, <2>1
    <3> QED
      BY <1>2, <1>3, <1>4, <1>7, <2>2, <2>3, <3>1, <3>2 DEF AnsweredBy
  <2>5. AnsweredBy(f, by2)'
    <3>1. e \in Givers(image.queries[f].name)'
      BY <1>2, <1>4, <1>9, <2>1
    <3>2. queries'[f] = [image.queries[f] EXCEPT !.defined = TRUE,
                                                 !.addr = SymbolAddress(e)]
      BY <1>3, <1>9, <2>1
    <3>3. ASSUME NEW j \in Asked, j < f, SameName(j, f)
          PROVE  j \in Answered /\ Precedes(by[j], e)
      <4>1. j \in Answered
        <5>1. j \in DOMAIN queries /\ j \in Nat /\ f \in Nat /\ ~(f <= j)
          BY <1>6, <3>3
        <5> QED
          BY <1>6, <1>9, <2>1, <3>3, <5>1 DEF SameName
      <4>2. by[j] \in Givers(Sym.name)
        BY <1>5, <1>9, <2>1, <3>3, <4>1 DEF AnsweredBy, SameName
      <4> QED
        BY <1>4, <4>1, <4>2
    <3> QED
      BY <1>2, <1>3, <1>7, <2>2, <2>3, <3>1, <3>2, <3>3 DEF AnsweredBy
  <2>6. ASSUME NEW k \in Asked \ (Answered \cup {f}),
               NEW d \in Givers(image.queries[k].name)'
        PROVE  \E j \in Answered \cup {f} : by2[j] = d
    BY <1>2, <1>4, <1>5, <2>3
  <2>7. \A k \in DOMAIN image.queries \ (Answered \cup {f}) :
          queries'[k] = image.queries[k]
    BY <1>6, <1>9
  <2> QED
    BY <1>2, <1>3, <1>7, <2>2, <2>3, <2>4, <2>5, <2>6, <2>7
    DEF QueriesAnswered
<1> QED
  BY <1>2, <1>3, <1>8, <1>9, AnswersStep

LEMMA SymbolsStep ==
  ASSUME TypeOK, Entered, SectionsPlaced, SymbolsKnown, Next
  PROVE  SymbolsKnown'
<1>1. CASE AssignSymbol
  BY <1>1, AssignPlaces, AssignAnswers DEF SymbolsKnown
<1> QED
  BY <1>1, OthersKeepSymbols

-----------------------------------------------------------------------------
(* The invariant: relocations *)

\* What the loader has made of the fields.
FieldsKnown == RelocatedPrefix /\ NearReached

LEMMA FieldsKept ==
  ASSUME FieldsKnown, UNCHANGED <<image, field>>,
         \A e \in Relocations :
           Passed("relocations", e)' <=> Passed("relocations", e)
  PROVE  FieldsKnown'
<1>1. /\ Sections' = Sections /\ Relocations' = Relocations
      /\ \A e : /\ EntryOf(e)' = EntryOf(e)
                /\ SymbolAddress(e)' = SymbolAddress(e)
                /\ Target(e)' = Target(e)
                /\ FieldAddress(e)' = FieldAddress(e)
                /\ Near(e)' = Near(e)
  BY MeaningKept
<1>2. RelocatedPrefix'
  BY <1>1 DEF RelocatedPrefix, FieldsKnown
<1>3. NearReached'
  BY <1>1 DEF NearReached, Reaches, FieldsKnown
<1> QED
  BY <1>2, <1>3 DEF FieldsKnown

\* The steps that apply no relocation leave the fields alone.
LEMMA OthersKeepFields ==
  ASSUME TypeOK, Entered, FieldsKnown, Next, ~Relocate
  PROVE  FieldsKnown'
<1>1. image' = image
  BY ImageKept
<1>2. ASSUME field' = field,
             \A i \in DOMAIN Sections :
               Sections[i].type \in {"REL", "RELA"} =>
                 \A j \in DOMAIN Sections[i].entries :
                   Passed("relocations", <<i, j>>)'
                     <=> Passed("relocations", <<i, j>>)
      PROVE  FieldsKnown'
  <2>1. \A e \in Relocations :
          Passed("relocations", e)' <=> Passed("relocations", e)
    BY <1>2, RelocationIn
  <2> QED
    BY <1>1, <1>2, <2>1, FieldsKept
<1>3. CASE SkipSection \/ EnterTable \/ LeaveTable \/ EndOfTable
  BY <1>2, <1>3, MoveType, MovePasses
<1>4. ASSUME NEW code \in Codes \ {"none"}, Fails(code) PROVE FieldsKnown'
  BY <1>2, <1>4, FailureStops, PassedIs
<1>5. CASE AssignSection
  BY <1>2, <1>5, PassedIs DEF AssignSection
<1>6. CASE AssignSymbol
  BY <1>2, <1>6, PassedIs DEF AssignSymbol
<1> QED
  BY <1>3, <1>4, <1>5, <1>6, StepKinds

\* A relocation is applied to its own field and to no other.
LEMMA RelocateStores ==
  ASSUME TypeOK, Entered, SectionsPlaced, SymbolsPlacedOnce, FieldsKnown,
         Relocate
  PROVE  FieldsKnown'
<1>1. /\ phase = "relocations" /\ AtEntry
      /\ ent' = ent + 1
      /\ UNCHANGED <<image, phase, sec>>
  BY DEF Relocate
<1>2. /\ Sections' = Sections /\ Relocations' = Relocations
      /\ \A e : /\ EntryOf(e)' = EntryOf(e)
                /\ SymbolAddress(e)' = SymbolAddress(e)
                /\ Target(e)' = Target(e)
                /\ FieldAddress(e)' = FieldAddress(e)
                /\ Near(e)' = Near(e)
  BY <1>1, MeaningKept
<1>3. PICK v \in Fields :
        LET e == <<sec, ent>>
        IN  /\ field' = [field EXCEPT ![sec][ent] = v]
            /\ (v + FieldAddress(e) - Target(e)) % Field = 0
            /\ SymbolAddress(<<Sections[e[1]].link, EntryOf(e).sym + 1>>) # 0
            /\ Near(e) <=>
                 (Signed(v, Field) + FieldAddress(e)) % Word
                   = Target(e) % Word
  BY FieldStored
<1>4. v # Absent
  BY <1>3, ImagesOK
<1>5. sec \in DOMAIN field /\ ent \in DOMAIN field[sec]
  <2>1. /\ sec \in DOMAIN Sections /\ ent \in DOMAIN Sections[sec].entries
        /\ Sections[sec].type \in {"REL", "RELA"}
    BY <1>1, EntryHere DEF TableTypes
  <2> QED
    BY <2>1 DEF TypeOK, WrittenOK, TableIndices
<1>6. ASSUME NEW e \in Relocations
      PROVE  /\ e = <<sec, ent>> => field'[e[1]][e[2]] = v
             /\ e # <<sec, ent>> => field'[e[1]][e[2]] = field[e[1]][e[2]]
             /\ Passed("relocations", e)' <=>
                  Passed("relocations", e) \/ e = <<sec, ent>>
  <2>1. PICK i \in DOMAIN Sections : \E j \in DOMAIN Sections[i].entries :
                                       e = <<i, j>>
    BY RelocationIn
  <2>2. PICK j \in DOMAIN Sections[i].entries : e = <<i, j>>
    BY <2>1
  <2>3. Passed("relocations", <<i, j>>)' <=>
          Passed("relocations", <<i, j>>) \/ <<i, j>> = <<sec, ent>>
    BY <1>1, EntryPasses
  <2>4. i = sec /\ j = ent => field'[i][j] = v
    BY <1>3, <1>5
  <2>5. ~(i = sec /\ j = ent) => field'[i][j] = field[i][j]
    BY <1>3, <1>5
  <2> QED
    BY <2>2, <2>3, <2>4, <2>5
<1>7. ASSUME NEW e \in Relocations
      PROVE  LET w == field'[e[1]][e[2]]
             IN  IF ~Passed("relocations", e)' THEN w = Absent
                 ELSE /\ w # Absent
                      /\ (w + FieldAddress(e) - Target(e)) % Field = 0
                      /\ SymbolAddress(<<Sections[e[1]].link,
                                         EntryOf(e).sym + 1>>) # 0
  <2>1. CASE e = <<sec, ent>>
    BY <1>3, <1>4, <1>6, <2>1
  <2>2. CASE e # <<sec, ent>>
    BY <1>6, <2>2 DEF FieldsKnown, RelocatedPrefix
  <2> QED
    BY <2>1, <2>2
<1>8. ASSUME NEW e \in Relocations, field'[e[1]][e[2]] # Absent
      PROVE  Near(e) <=>
               (Signed(field'[e[1]][e[2]], Field) + FieldAddress(e)) % Word
                 = Target(e) % Word
  <2>1. CASE e = <<sec, ent>>
    BY <1>3, <1>6, <1>8, <2>1
  <2>2. CASE e # <<sec, ent>>
    BY <1>6, <1>8, <2>2 DEF FieldsKnown, NearReached, Reaches
  <2> QED
    BY <2>1, <2>2
<1>9. RelocatedPrefix'
  BY <1>2, <1>7 DEF RelocatedPrefix
<1>10. NearReached'
  BY <1>2, <1>8 DEF NearReached, Reaches
<1> QED
  BY <1>9, <1>10 DEF FieldsKnown

LEMMA FieldsStep ==
  ASSUME TypeOK, Entered, SectionsPlaced, SymbolsPlacedOnce, FieldsKnown, Next
  PROVE  FieldsKnown'
  BY OthersKeepFields, RelocateStores

\* A relocation is refused for its size only if a field cannot express it.
LEMMA RefusedIsFar ==
  ASSUME TypeOK, Entered, SectionsPlaced, SymbolsPlacedOnce,
         RefuseRelocation, RelError = "REL_VALUE_OVERFLOW"
  PROVE  ~Near(<<sec, ent>>)
<1>1. AtEntry /\ phase = "relocations"
  BY DEF RefuseRelocation
<1>2. /\ Rel.sym # 0 /\ ~(Rel.sym >= Len(Sections[Header.link].entries))
      /\ Overflows(Field, RelValue(RelAddr, SymAddr, Addend), TRUE)
  BY DEF RelError, ApplyError
<1>3. Rel.sym < Len(Sections[Header.link].entries)
  BY <1>1, <1>2, SymbolInTable
<1>4. PICK t \in Int, f \in Int :
        /\ t = Target(<<sec, ent>>) /\ f = FieldAddress(<<sec, ent>>)
        /\ RelValue(RelAddr, SymAddr, Addend) = (t - f) % Word
  BY <1>1, <1>2, <1>3, DistanceFound
<1>5. PICK d \in Int : d = t - f
  OBVIOUS
<1>6. d % Word \in 0 .. Word - 1
  BY DivMod
<1>7. Overflows(Field, d % Word, TRUE)
  BY <1>2, <1>4, <1>5
<1>8. Signed(d % Word, Word) \notin - (Field \div 2) .. (Field \div 2) - 1
  BY <1>6, <1>7, NearAccepted
<1> QED
  BY <1>4, <1>5, <1>8 DEF Near

LEMMA FitsStep ==
  ASSUME TypeOK, Entered, SectionsPlaced, SymbolsPlacedOnce, Stopped, Next
  PROVE  FitsAccepted'
<1>1. error = "none"
  BY ImageKept DEF Stopped
<1>2. CASE error' = error
  BY <1>1, <1>2 DEF FitsAccepted
<1>3. ASSUME NEW code \in Codes \ {"none"}, Fails(code),
             code = "REL_VALUE_OVERFLOW" =>
               RefuseRelocation /\ code = RelError
      PROVE  FitsAccepted'
  <2>1. /\ error' = code /\ sec' = sec /\ ent' = ent
        /\ image' = image
    BY <1>3, FailureStops
  <2>2. \A e : Near(e)' = Near(e)
    BY <2>1, MeaningKept
  <2>3. code = "REL_VALUE_OVERFLOW" => ~Near(<<sec, ent>>)
    BY <1>3, RefusedIsFar
  <2> QED
    BY <2>1, <2>2, <2>3 DEF FitsAccepted
<1> QED
  BY <1>2, <1>3, StepKinds DEF SkipSection, EnterTable, LeaveTable,
    EndOfTable, AssignSection, AssignSymbol, Relocate

-----------------------------------------------------------------------------
(* Theorems *)

\* Every image is found as it was compiled.
LEMMA LoadInit == Init => LoadInv
<1> SUFFICES ASSUME Init PROVE LoadInv
  OBVIOUS
<1>1. ImageOK(image)
  BY ImagesOK DEF Init
<1>2. /\ phase = "sections" /\ sec = 0 /\ ent = 0
      /\ error = "none" /\ result = "none" /\ done = FALSE
      /\ sh_addr = [i \in DOMAIN Sections |-> 0]
      /\ queries = image.queries
  BY DEF Init
<1>3. PlaceOK
  <2>1. sec \in DOMAIN Sections \cup {Cardinality(DOMAIN Sections)}
    BY <1>1, <1>2, NextSection
  <2>2. sec \in DOMAIN Sections => Len(Header.entries) \in Nat
    BY <1>1, EntryTable DEF Header
  <2> QED
    BY <1>2, <2>1, <2>2 DEF PlaceOK
<1>4. ASSUME NEW i \in DOMAIN Sections
      PROVE  /\ sy_value[i] = [j \in TableIndices(i, {"SYMTAB"}) |->
                                 Sections[i].entries[j].value]
             /\ field[i] = [j \in TableIndices(i, {"REL", "RELA"}) |-> Absent]
  <2>1. /\ Sections[i].type = "SYMTAB" =>
             sy_value[i] = [j \in DOMAIN Sections[i].entries |->
                              Sections[i].entries[j].value]
        /\ Sections[i].type # "SYMTAB" => sy_value[i] = <<>>
    BY DEF Init
  <2>2. /\ Sections[i].type \in {"REL", "RELA"} =>
             field[i] = [j \in DOMAIN Sections[i].entries |-> Absent]
        /\ Sections[i].type \notin {"REL", "RELA"} => field[i] = <<>>
    BY DEF Init
  <2>3. <<>> = [j \in {} |-> Sections[i].entries[j].value]
    OBVIOUS
  <2>4. <<>> = [j \in {} |-> Absent]
    OBVIOUS
  <2>5. CASE Sections[i].type = "SYMTAB"
    BY <2>1, <2>2, <2>4, <2>5 DEF TableIndices
  <2>6. CASE Sections[i].type \in {"REL", "RELA"}
    BY <2>1, <2>2, <2>3, <2>6 DEF TableIndices
  <2>7. CASE Sections[i].type \notin {"SYMTAB", "REL", "RELA"}
    BY <2>1, <2>2, <2>3, <2>4, <2>7 DEF TableIndices
  <2> QED
    BY <2>5, <2>6, <2>7
<1>5. ASSUME NEW i \in DOMAIN Sections, NEW j \in DOMAIN Sections[i].entries
      PROVE  /\ Sections[i].type = "SYMTAB" =>
                  sy_value[i][j] = EntryOf(<<i, j>>).value
             /\ Sections[i].type \in {"REL", "RELA"} => field[i][j] = Absent
             /\ ~Passed("symbols", <<i, j>>)
             /\ ~Passed("relocations", <<i, j>>)
  <2>1. /\ Sections[i].type = "SYMTAB" => j \in TableIndices(i, {"SYMTAB"})
        /\ Sections[i].type \in {"REL", "RELA"} =>
             j \in TableIndices(i, {"REL", "RELA"})
    BY DEF TableIndices
  <2>2. EntryOf(<<i, j>>) = Sections[i].entries[j]
    BY DEF EntryOf
  <2>3. ~Passed("symbols", <<i, j>>) /\ ~Passed("relocations", <<i, j>>)
    BY <1>2 DEF Passed
  <2>4. /\ Sections[i].type = "SYMTAB" =>
             sy_value[i][j] = Sections[i].entries[j].value
        /\ Sections[i].type \in {"REL", "RELA"} => field[i][j] = Absent
    BY <1>4, <2>1
  <2> QED
    BY <2>2, <2>3, <2>4
<1>6. WrittenOK
  <2>1. \A i \in DOMAIN Sections :
          /\ sy_value[i] \in [TableIndices(i, {"SYMTAB"}) -> Words]
          /\ field[i] \in
               [TableIndices(i, {"REL", "RELA"}) -> Fields \cup {Absent}]
    <3>1. \A i \in DOMAIN Sections : \A j \in TableIndices(i, {"SYMTAB"}) :
            Sections[i].entries[j].value \in Words
      BY <1>1, SymbolFields DEF TableIndices
    <3> QED
      BY <1>4, <3>1
  <2>2. DOMAIN sy_value = DOMAIN Sections /\ DOMAIN field = DOMAIN Sections
    BY DEF Init
  <2>3. 0 \in Words
    OBVIOUS
  <2>4. /\ queries \in Seq(Range(queries)) /\ Len(queries) = Len(image.queries)
        /\ \A q \in Range(queries) : loader_symbol(q)
    BY <1>1, <1>2 DEF ImageOK
  <2> QED
    BY <1>2, <2>1, <2>2, <2>3, <2>4 DEF WrittenOK
<1>7. TypeOK
  BY <1>1, <1>2, <1>3, <1>6 DEF TypeOK, Codes
<1>8. SectionsPlaced
  <2>1. \A i \in DOMAIN Sections : i >= 0
    BY <1>1, SectionTable
  <2> QED
    BY <1>2, <2>1 DEF SectionsPlaced
<1>9. SymbolsPlacedOnce /\ \A e \in Symbols : ~Passed("symbols", e)
  <2>1. ASSUME NEW e \in Symbols
        PROVE  /\ sy_value[e[1]][e[2]] = EntryOf(e).value
               /\ ~Passed("symbols", e)
    <3>1. PICK i \in DOMAIN Sections : /\ Sections[i].type = "SYMTAB"
                                       /\ \E j \in DOMAIN Sections[i].entries :
                                            e = <<i, j>>
      BY SymbolIn
    <3>2. PICK j \in DOMAIN Sections[i].entries : e = <<i, j>>
      BY <3>1
    <3>3. e[1] = i /\ e[2] = j
      BY <3>2
    <3> QED
      BY <1>5, <3>1, <3>2, <3>3
  <2> QED
    BY <2>1 DEF SymbolsPlacedOnce
<1>10. QueriesAnswered
  <2>1. \A q : Givers(q) = {}
    BY <1>9 DEF Givers
  <2>2. Answered = {}
    BY <1>2 DEF Asked, Answered
  <2>3. PICK by : by \in [Answered -> Symbols]
    <3>1. [k \in {} |-> 0] \in [{} -> Symbols]
      OBVIOUS
    <3> QED
      BY <2>2, <3>1
  <2> QED
    BY <1>2, <2>1, <2>2, <2>3 DEF QueriesAnswered
<1>11. ASSUME NEW e \in Relocations
       PROVE  field[e[1]][e[2]] = Absent /\ ~Passed("relocations", e)
  <2>1. PICK i \in DOMAIN Sections : /\ Sections[i].type \in {"REL", "RELA"}
                                     /\ \E j \in DOMAIN Sections[i].entries :
                                          e = <<i, j>>
    BY RelocationIn
  <2>2. PICK j \in DOMAIN Sections[i].entries : e = <<i, j>>
    BY <2>1
  <2>3. e[1] = i /\ e[2] = j
    BY <2>2
  <2> QED
    BY <1>5, <2>1, <2>2, <2>3
<1>12. RelocatedPrefix /\ NearReached
  BY <1>11 DEF RelocatedPrefix, NearReached
<1> QED
  BY <1>2, <1>7, <1>8, <1>9, <1>10, <1>12 DEF LoadInv, Entered, Stopped,
    FitsAccepted

\* Every step of a load keeps the invariant.
LEMMA LoadStep == LoadInv /\ [Next]_vars => LoadInv'
<1>1. ASSUME LoadInv, Next PROVE LoadInv'
  <2>1. TypeOK' /\ Entered' /\ Stopped' /\ SectionsPlaced'
    BY <1>1, TypeStep, EnteredStep, StoppedStep, SectionsStep DEF LoadInv
  <2>2. SymbolsPlacedOnce' /\ QueriesAnswered'
    BY <1>1, SymbolsStep DEF LoadInv, SymbolsKnown
  <2>3. RelocatedPrefix' /\ NearReached'
    BY <1>1, FieldsStep DEF LoadInv, FieldsKnown
  <2>4. FitsAccepted'
    BY <1>1, FitsStep DEF LoadInv
  <2> QED
    BY <2>1, <2>2, <2>3, <2>4 DEF LoadInv
<1>2. ASSUME LoadInv, UNCHANGED vars PROVE LoadInv'
  <2>1. /\ UNCHANGED <<image, phase, sec, ent, sh_addr, sy_value, queries,
                       field, error, result, done>>
    BY <1>2 DEF vars
  <2>2. TypeOK'
    BY <1>2, <2>1, PlaceTypes, WrittenKept DEF LoadInv, TypeOK
  <2>3. /\ Sections' = Sections
        /\ Symbols' = Symbols /\ Relocations' = Relocations
        /\ \A e : /\ EntryOf(e)' = EntryOf(e)
                  /\ SymbolAddress(e)' = SymbolAddress(e)
                  /\ Target(e)' = Target(e)
                  /\ FieldAddress(e)' = FieldAddress(e)
                  /\ Near(e)' = Near(e)
    BY <2>1, MeaningKept
  <2>4. \A call, e : Passed(call, e)' <=> Passed(call, e)
    BY <2>1 DEF Passed
  <2>5. SymbolsPlacedOnce' /\ QueriesAnswered'
    BY <1>2, <2>1, <2>4, SymbolsKept DEF LoadInv
  <2>6. RelocatedPrefix' /\ NearReached'
    BY <1>2, <2>1, <2>4, FieldsKept DEF LoadInv, FieldsKnown
  <2>7. Stopped' /\ SectionsPlaced' /\ FitsAccepted'
    BY <1>2, <2>1, <2>3 DEF LoadInv, Stopped, SectionsPlaced, FitsAccepted
  <2>8. Entered'
    BY <1>2, <2>1, <2>3 DEF LoadInv, Entered, Header, TableTypes, EnterError,
      EntsizeError, TableError, HeaderError
  <2> QED
    BY <2>2, <2>5, <2>6, <2>7, <2>8 DEF LoadInv
<1> QED
  BY <1>1, <1>2

\* Whatever image is loaded, wherever it lies, and whatever its entries hold,
\* the invariant of the three calls holds at every step.
THEOREM LoadInvHolds == Spec => []LoadInv
<1>1. Init => LoadInv
  BY LoadInit
<1>2. LoadInv /\ [Next]_vars => LoadInv'
  BY LoadStep
<1> QED
  BY <1>1, <1>2, PTL DEF Spec

\* What the calls write are words, answers and fields of the image's tables.
THEOREM LoaderTypesHold == Spec => []TypeOK
<1>1. LoadInv => TypeOK
  BY DEF LoadInv
<1> QED
  BY <1>1, LoadInvHolds, PTL

\* The value of a symbol is replaced by its address once, and only when the
\* second call comes to it.
THEOREM SymbolsArePlacedOnce == Spec => []SymbolsPlacedOnce
<1>1. LoadInv => SymbolsPlacedOnce
  BY DEF LoadInv
<1> QED
  BY <1>1, LoadInvHolds, PTL

\* Whatever the caller asks for, the same name twice or a name it has an
\* address for among it, the queries of a name are answered in their order by
\* the symbols of that name in theirs, one each, and none is forgotten.
THEOREM QueriesAnsweredInOrder == Spec => []QueriesAnswered
<1>1. LoadInv => QueriesAnswered
  BY DEF LoadInv
<1> QED
  BY <1>1, LoadInvHolds, PTL

\* The relocations applied are those the third call has passed, and each
\* field holds its distance as far as its bits go.
THEOREM RelocationsArePrefix == Spec => []RelocatedPrefix
<1>1. LoadInv => RelocatedPrefix
  BY DEF LoadInv
<1> QED
  BY <1>1, LoadInvHolds, PTL

\* The range check of loader_apply_relocation refuses no distance that a
\* signed field can hold.
THEOREM NearTargetsAccepted == Spec => []FitsAccepted
<1>1. LoadInv => FitsAccepted
  BY DEF LoadInv
<1> QED
  BY <1>1, LoadInvHolds, PTL

\* The fields that were stored lead the processor to their targets exactly
\* where such a distance was to be expressed.
THEOREM ReachedIsNear == Spec => []NearReached
<1>1. LoadInv => NearReached
  BY DEF LoadInv
<1> QED
  BY <1>1, LoadInvHolds, PTL

-----------------------------------------------------------------------------
(* Termination: what there is of it without ENABLED *)

\* A step ends the load, or goes to a later call, or goes forward in the
\* iteration, whose places PlaceOK bounds.
Advances ==
  /\ ~done
  /\ \/ done'
     \/ phase' = After(phase) /\ phase # "relocations"
     \/ phase' = phase /\ Precedes(<<sec, ent>>, <<sec', ent'>>)

LEMMA AdvanceStep ==
  ASSUME TypeOK, Next
  PROVE  Advances
<1>1. ~done
  BY ImageKept
<1>2. PICK n \in Nat : sec \in 0 .. n /\ ent \in Nat
  BY Places
<1>3. CASE SkipSection \/ LeaveTable \/ AssignSection
  <2>1. phase' = phase /\ sec' = sec + 1
    BY <1>3 DEF SkipSection, LeaveTable, AssignSection
  <2> QED
    BY <1>1, <1>2, <2>1 DEF Advances, Precedes
<1>4. CASE EnterTable \/ AssignSymbol \/ Relocate
  <2>1. phase' = phase /\ sec' = sec /\ ent' = ent + 1
    BY <1>4 DEF EnterTable, MayEnter, AssignSymbol, Relocate
  <2> QED
    BY <1>1, <1>2, <2>1 DEF Advances, Precedes
<1>5. CASE EndOfTable
  BY <1>1, <1>5 DEF EndOfTable, Returns, Advances
<1>6. ASSUME NEW code \in Codes \ {"none"}, Fails(code) PROVE Advances
  BY <1>1, <1>6, FailureStops DEF Advances
<1> QED
  BY <1>3, <1>4, <1>5, <1>6, StepKinds

\* No load turns back: no table entry is handled twice and no call is made
\* twice, whatever the tables of the image link to, so every load is finite.
THEOREM LoadsAdvance == Spec => [][Advances]_vars
<1>1. TypeOK /\ [Next]_vars => [Advances]_vars
  BY AdvanceStep
<1> QED
  BY <1>1, LoaderTypesHold, PTL DEF Spec
=============================================================================
