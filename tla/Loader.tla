-------------------------------- MODULE Loader --------------------------------
(***************************************************************************)
(* The loader of relocatable files, src/loader/loader.c: its three calls   *)
(* walk the section table of an image in memory, each step handling one    *)
(* section header or one entry of a table.  The caller makes the calls in  *)
(* order and stops at the first one that does not return 0, as the header  *)
(* asks.  Indices of sections fit in 16 bits, entries of tables are whole, *)
(* and relocated fields do not overlap.                                    *)
(***************************************************************************)
EXTENDS Relocation, SequencesExt

CONSTANTS
  Images,  \* the files that may be loaded, with what their caller provides
  BadName, \* a name outside the string table
  Absent   \* the field is as it was compiled

VARIABLES
  image,    \* the image as it was before the first call
  phase,    \* the call that runs, or ran last
  sec,      \* TABLE_ITERATE's place in the section table
  ent,      \* its place in the table of section sec, 0 outside of it
  sh_addr,  \* sh_addr[i] of the section header i
  sy_value, \* sy_value[i][j] of the symbol j in section i
  queries,  \* the caller's list of queries, answered one by one
  field,    \* field[i][j] that the relocation j of section i stored
  error,    \* the problem the last call met, "none" before
  result,   \* what it returned
  done      \* no call follows

vars == <<image, phase, sec, ent, sh_addr, sy_value, queries, field,
          error, result, done>>

\* image.sections, indexed from 0: records with the fields of elf64_shdr that
\* the loader reads, and the entries of the section if it is a table.
Sections == image.sections
Header == Sections[sec]

\* Section indices with a meaning of their own; RESERVED stands for all that
\* are at least SHN_LORESERVE.
SHN_UNDEF == 0
RESERVED == -1

-----------------------------------------------------------------------------
(* What the fields of the structures can hold, in any file *)

elf64_sym(e) ==
  e.shndx \in Nat \cup {RESERVED} /\ e.value \in 0 .. Word - 1
elf64_rel(e) == e.sym \in Nat /\ e.offset \in Nat /\ e.addend \in Int
elf64_shdr(s) ==
  /\ s.offset \in Nat
  /\ s.entries \in Seq(Range(s.entries))
  /\ s.type = "SYMTAB" => \A e \in Range(s.entries) : elf64_sym(e)
  /\ s.type \in {"REL", "RELA"} => \A e \in Range(s.entries) : elf64_rel(e)
loader_symbol(d) ==
  d \in [name : {d.name}, defined : BOOLEAN, addr : 0 .. Word - 1]

ImageOK(im) ==
  /\ im.base \in Nat
  /\ IsFiniteSet(DOMAIN im.sections)
  /\ DOMAIN im.sections = 0 .. Cardinality(DOMAIN im.sections) - 1
  /\ \A i \in DOMAIN im.sections : elf64_shdr(im.sections[i])
  /\ im.defs \in Seq(Range(im.defs))
  /\ im.queries \in Seq(Range(im.queries))
  /\ \A d \in Range(im.defs) \cup Range(im.queries) : loader_symbol(d)

ASSUME ImagesOK == Absent \notin Nat /\ \A im \in Images : ImageOK(im)

-----------------------------------------------------------------------------
(* Checks; each returns "none" or the error that is thrown *)

\* __get_section_header.
HeaderError(id, type) ==
  IF id \notin DOMAIN Sections THEN "BAD_TABLE_INDEX"
  ELSE IF Sections[id].type # type THEN "BAD_SECTION_TYPE" ELSE "none"

\* __section_header_to_table.
EntsizeError(id) ==
  IF Sections[id].entsize = 0 THEN "TYPE_SECT_ENTSIZE_NULL" ELSE "none"

\* __get_section_table.
TableError(id, type) ==
  IF HeaderError(id, type) # "none" THEN HeaderError(id, type)
  ELSE EntsizeError(id)

\* What assing_symbol_table or apply_reloaction_table checks before it
\* iterates.
EnterError ==
  LET linked == IF phase = "symbols" THEN "STRTAB" ELSE "SYMTAB"
  IN  IF EntsizeError(sec) # "none" THEN EntsizeError(sec)
      ELSE IF TableError(Header.link, linked) # "none"
        THEN TableError(Header.link, linked)
      ELSE IF phase = "relocations"
        THEN HeaderError(Header.info, "PROGBITS")
      ELSE "none"

-----------------------------------------------------------------------------
(* Calls *)

After(call) == IF call = "sections" THEN "symbols" ELSE "relocations"

\* The call returns code: the caller goes on to the next one, or stops.
Returns(code) ==
  /\ result' = code
  /\ IF code = "none" /\ phase # "relocations"
       THEN phase' = After(phase) /\ sec' = 0 /\ ent' = 0 /\ UNCHANGED done
       ELSE done' = TRUE /\ UNCHANGED <<phase, sec, ent>>

\* The call meets a problem. rmld_apply_relocations returns 0 all the same.
Fails(code) ==
  /\ error' = code
  /\ Returns(IF phase = "relocations" THEN "none" ELSE code)
  /\ UNCHANGED <<image, sh_addr, sy_value, queries, field>>

\* The section table ends.
EndOfTable ==
  /\ ~done
  /\ sec \notin DOMAIN Sections
  /\ Returns("none")
  /\ UNCHANGED <<image, sh_addr, sy_value, queries, field, error>>

-----------------------------------------------------------------------------
(* loader_assign_sections *)

\* Mutant of Address: an offset in the file is taken for an address.
AddressInFile(i) == Sections[i].offset % Word
Address(i) == (image.base + Sections[i].offset) % Word

AssignSection ==
  /\ ~done /\ phase = "sections"
  /\ sec \in DOMAIN Sections
  /\ ~(Header.type = "NOBITS" /\ Header.size # 0)
  /\ sh_addr' = [sh_addr EXCEPT ![sec] = Address(sec)]
  /\ sec' = sec + 1
  /\ UNCHANGED <<image, phase, ent, sy_value, queries, field, error, result,
                 done>>

RefuseSection ==
  /\ ~done /\ phase = "sections"
  /\ sec \in DOMAIN Sections
  /\ Header.type = "NOBITS" /\ Header.size # 0
  /\ Fails("NON_EMPTY_NOBITS_SECTION")

-----------------------------------------------------------------------------
(* The iterations of loader_assign_symbols and rmld_apply_relocations *)

\* The section types the running call takes for tables.
TableTypes == CASE phase = "sections" -> {}
                [] phase = "symbols" -> {"SYMTAB"}
                [] phase = "relocations" -> {"REL", "RELA"}

\* Mutant of SkipSection: the iteration stays where it is.
SkipForgets ==
  /\ ~done /\ phase # "sections"
  /\ sec \in DOMAIN Sections
  /\ Header.type \notin TableTypes
  /\ UNCHANGED vars
SkipSection ==
  /\ ~done /\ phase # "sections"
  /\ sec \in DOMAIN Sections
  /\ Header.type \notin TableTypes
  /\ sec' = sec + 1
  /\ UNCHANGED <<image, phase, ent, sh_addr, sy_value, queries, field, error,
                 result, done>>

MayEnter ==
  /\ ~done /\ ent = 0
  /\ sec \in DOMAIN Sections
  /\ Header.type \in TableTypes

EnterTable ==
  /\ MayEnter
  /\ EnterError = "none"
  /\ ent' = 1
  /\ UNCHANGED <<image, phase, sec, sh_addr, sy_value, queries, field, error,
                 result, done>>

RefuseTable ==
  /\ MayEnter
  /\ EnterError # "none"
  /\ Fails(EnterError)

LeaveTable ==
  /\ ent > 0
  /\ ~done
  /\ ent = Len(Header.entries) + 1
  /\ sec' = sec + 1
  /\ ent' = 0
  /\ UNCHANGED <<image, phase, sh_addr, sy_value, queries, field, error,
                 result, done>>

\* The iteration is at an entry of a table.
AtEntry ==
  /\ ~done
  /\ ent > 0
  /\ ent <= Len(Header.entries)

-----------------------------------------------------------------------------
(* loader_assign_symbols *)

Sym == Header.entries[ent]

sym_def_find(name) ==
  LET k == SelectInSeq(image.defs, LAMBDA d : d.defined /\ d.name = name)
  IN  IF k = 0 THEN 0 ELSE image.defs[k].addr

SymbolError ==
  IF Sym.name = BadName THEN "BAD_TABLE_INDEX"
  ELSE IF Sym.shndx \in {SHN_UNDEF, RESERVED} THEN "none"
  ELSE HeaderError(Sym.shndx, "PROGBITS")

\* The value assing_symbol_table and update_symbol_address give the symbol.
SymbolValue ==
  CASE Sym.shndx = SHN_UNDEF -> sym_def_find(Sym.name)
    [] Sym.shndx = RESERVED -> 0
    [] OTHER -> (sy_value[sec][ent] + sh_addr[Sym.shndx]) % Word

\* Mutant of Answers: the walk does not stop at the query it answers.
AnswersAll(name, value) ==
  queries' = [k \in DOMAIN queries |->
    IF value = 0 \/ queries[k].defined \/ queries[k].name # name
      THEN queries[k]
      ELSE [queries[k] EXCEPT !.defined = TRUE, !.addr = value]]

\* A symbol with an address, whoever gave it, answers the first query of its
\* name that has no definition.
Answers(name, value) ==
  LET k == SelectInSeq(queries, LAMBDA q : ~q.defined /\ q.name = name)
  IN  queries' = IF value = 0 \/ k = 0 THEN queries
                 ELSE [queries EXCEPT ![k].defined = TRUE, ![k].addr = value]

AssignSymbol ==
  /\ AtEntry /\ phase = "symbols"
  /\ SymbolError = "none"
  /\ sy_value' = [sy_value EXCEPT ![sec][ent] = SymbolValue]
  /\ Answers(Sym.name, SymbolValue)
  /\ ent' = ent + 1
  /\ UNCHANGED <<image, phase, sec, sh_addr, field, error, result, done>>

RefuseSymbol ==
  /\ AtEntry /\ phase = "symbols"
  /\ SymbolError # "none"
  /\ Fails(SymbolError)

-----------------------------------------------------------------------------
(* rmld_apply_relocations *)

Rel == Header.entries[ent]
RelAddr == (sh_addr[Header.info] + Rel.offset) % Word
SymAddr == sy_value[Header.link][Rel.sym + 1]

Addend == IF Header.type = "RELA" THEN Rel.addend ELSE 0

\* Mutant of RelError: a symbol without an address is linked.
RelErrorLate ==
  IF Rel.sym = 0 THEN "REL_SYMBOL_NULL_INDEX"
  ELSE IF Rel.sym >= Len(Sections[Header.link].entries)
    THEN "BAD_TABLE_INDEX"
  ELSE ApplyError(RelAddr, SymAddr, Addend, Rel.type)

RelError ==
  IF Rel.sym = 0 THEN "REL_SYMBOL_NULL_INDEX"
  ELSE IF Rel.sym >= Len(Sections[Header.link].entries)
    THEN "BAD_TABLE_INDEX"
  ELSE IF SymAddr = 0 THEN "REL_SYMBOL_NULL_ADDRESS"
  ELSE ApplyError(RelAddr, SymAddr, Addend, Rel.type)

Relocate ==
  /\ AtEntry /\ phase = "relocations"
  /\ RelError = "none"
  /\ field' = [field EXCEPT ![sec][ent] =
                 Stored(Field, RelValue(RelAddr, SymAddr, Addend))]
  /\ ent' = ent + 1
  /\ UNCHANGED <<image, phase, sec, sh_addr, sy_value, queries, error, result,
                 done>>

RefuseRelocation ==
  /\ AtEntry /\ phase = "relocations"
  /\ RelError # "none"
  /\ Fails(RelError)

-----------------------------------------------------------------------------
(* The specification *)

\* loader_init has found the section table; the image is as it was compiled.
Init ==
  /\ image \in Images
  /\ phase = "sections" /\ sec = 0 /\ ent = 0
  /\ sh_addr = [i \in DOMAIN Sections |-> 0]
  /\ sy_value = [i \in DOMAIN Sections |->
       IF Sections[i].type # "SYMTAB" THEN <<>>
       ELSE [j \in DOMAIN Sections[i].entries |->
               Sections[i].entries[j].value]]
  /\ queries = image.queries
  /\ field = [i \in DOMAIN Sections |->
       IF Sections[i].type \notin {"REL", "RELA"} THEN <<>>
       ELSE [j \in DOMAIN Sections[i].entries |-> Absent]]
  /\ error = "none" /\ result = "none" /\ done = FALSE

Next ==
  \/ AssignSection \/ RefuseSection
  \/ SkipSection \/ EnterTable \/ RefuseTable \/ LeaveTable
  \/ AssignSymbol \/ RefuseSymbol
  \/ Relocate \/ RefuseRelocation
  \/ EndOfTable

Spec == Init /\ [][Next]_vars

\* The calls run to their ends: nothing in them waits.
FairSpec == Spec /\ WF_vars(Next)
=============================================================================
