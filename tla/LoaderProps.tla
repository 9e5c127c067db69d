----------------------------- MODULE LoaderProps -----------------------------
(***************************************************************************)
(* What a load makes of an image, stated against the image as it was       *)
(* compiled and never against what the calls computed on the way.          *)
(***************************************************************************)
EXTENDS Loader

Codes == {"none", "NON_EMPTY_NOBITS_SECTION", "BAD_TABLE_INDEX",
          "BAD_SECTION_TYPE", "TYPE_SECT_ENTSIZE_NULL",
          "REL_SYMBOL_NULL_INDEX", "REL_SYMBOL_NULL_ADDRESS",
          "REL_BAD_TYPE", "REL_VALUE_OVERFLOW"}

Words == 0 .. Word - 1
Fields == 0 .. Field - 1

\* The entries of section i if it is a table of the given types.
TableIndices(i, types) ==
  IF Sections[i].type \in types THEN DOMAIN Sections[i].entries ELSE {}

\* The iterators point into their tables or just behind.
PlaceOK ==
  /\ sec \in DOMAIN Sections \cup {Cardinality(DOMAIN Sections)}
  /\ ent \in 0 .. (IF sec \in DOMAIN Sections
                     THEN Len(Header.entries) + 1 ELSE 0)

\* What the calls write has the shape of the image: addresses are words, and
\* stored fields fit.
WrittenOK ==
  /\ sh_addr \in [DOMAIN Sections -> Words]
  /\ DOMAIN sy_value = DOMAIN Sections
  /\ DOMAIN field = DOMAIN Sections
  /\ \A i \in DOMAIN Sections :
       /\ sy_value[i] \in [TableIndices(i, {"SYMTAB"}) -> Words]
       /\ field[i] \in
            [TableIndices(i, {"REL", "RELA"}) -> Fields \cup {Absent}]
  /\ queries \in Seq(Range(queries)) /\ Len(queries) = Len(image.queries)
  /\ \A q \in Range(queries) : loader_symbol(q)

TypeOK ==
  /\ ImageOK(image)
  /\ phase \in {"sections", "symbols", "relocations"}
  /\ PlaceOK /\ WrittenOK
  /\ error \in Codes /\ result \in Codes
  /\ done \in BOOLEAN

-----------------------------------------------------------------------------
(* The meaning of an image *)

Entries(types) ==
  UNION {{i} \X TableIndices(i, types) : i \in DOMAIN Sections}
Symbols == Entries({"SYMTAB"})
Relocations == Entries({"REL", "RELA"})
EntryOf(e) == Sections[e[1]].entries[e[2]]

Precedes(d, e) == d[1] < e[1] \/ (d[1] = e[1] /\ d[2] < e[2])

\* The address the caller provides for a name: its first definition's.
Provided(name) ==
  LET given == {k \in DOMAIN image.defs :
                  image.defs[k].name = name /\ image.defs[k].defined}
  IN  IF given = {} THEN 0
      ELSE image.defs[CHOOSE k \in given : \A l \in given : k <= l].addr

\* Where a symbol lies in memory, 0 if nowhere.
SymbolAddress(e) ==
  LET s == EntryOf(e)
  IN  IF s.shndx = SHN_UNDEF THEN Provided(s.name)
      ELSE IF s.shndx = RESERVED THEN 0
      ELSE (image.base + Sections[s.shndx].offset + s.value) % Word

\* What a relocated field refers to, and where the field is.
Target(e) ==
  SymbolAddress(<<Sections[e[1]].link, EntryOf(e).sym + 1>>)
    + (IF Sections[e[1]].type = "RELA" THEN EntryOf(e).addend ELSE 0)
FieldAddress(e) ==
  image.base + Sections[Sections[e[1]].info].offset + EntryOf(e).offset

\* The entries that a call has left behind.
Passed(call, e) ==
  \/ phase = call /\ Precedes(e, <<sec, ent>>)
  \/ call = "symbols" /\ phase = "relocations"

-----------------------------------------------------------------------------
(* Properties *)

\* Symbols are placed one by one and once only: at any moment, and behind a
\* failure, each symbol the iteration passed has its final address, and the
\* others still the value they were compiled with.
SymbolsPlacedOnce ==
  \A e \in Symbols :
    sy_value[e[1]][e[2]] =
      IF Passed("symbols", e) THEN SymbolAddress(e) ELSE EntryOf(e).value

\* The symbols passed that have a name and an address.
Givers(name) ==
  {e \in Symbols : /\ Passed("symbols", e)
                   /\ EntryOf(e).name = name
                   /\ SymbolAddress(e) # 0}

\* The queries the caller has no address for, and those of them that the load
\* has answered.
Asked == {k \in DOMAIN image.queries : ~image.queries[k].defined}
Answered == {k \in Asked : queries[k].defined}

SameName(j, k) == image.queries[j].name = image.queries[k].name

\* by[k] answers query k: it gave its address to nobody before k, and the
\* queries of its name before k went to symbols before it.
AnsweredBy(k, by) ==
  /\ by[k] \in Givers(image.queries[k].name)
  /\ queries[k] = [image.queries[k] EXCEPT !.defined = TRUE,
                                          !.addr = SymbolAddress(by[k])]
  /\ \A j \in Asked : j < k /\ SameName(j, k)
       => j \in Answered /\ Precedes(by[j], by[k])

\* Queries of a name are answered in the order of the list by the symbols of
\* that name in the order of the tables, one each: no symbol answers two, and
\* none that was passed is left while a query waits. Queries the caller came
\* with an address for are never touched. A symbol counts that has its address
\* from the caller; loader.h excludes it (DefinedSymbolsAnswer).
QueriesAnswered ==
  /\ \E by \in [Answered -> Symbols] :
       /\ \A k \in Answered : AnsweredBy(k, by)
       /\ \A k \in Asked \ Answered : \A e \in Givers(image.queries[k].name) :
            \E j \in Answered : by[j] = e
  /\ \A k \in DOMAIN image.queries \ Answered : queries[k] = image.queries[k]

\* Relocations are applied in order up to the first that fails: a field that
\* was passed holds the distance to a symbol that has an address, in the bits
\* it has, and no other field was touched.
RelocatedPrefix ==
  \A e \in Relocations :
    LET v == field[e[1]][e[2]]
    IN  IF ~Passed("relocations", e) THEN v = Absent
        ELSE /\ v # Absent
             /\ (v + FieldAddress(e) - Target(e)) % Field = 0
             /\ SymbolAddress(<<Sections[e[1]].link, EntryOf(e).sym + 1>>) # 0

\* The distance a relocation has to express is one that a field of its width
\* can, the sign included.
Near(e) ==
  Signed((Target(e) - FieldAddress(e)) % Word, Word)
    \in - (Field \div 2) .. (Field \div 2) - 1

\* What the processor computes from a stored field, whose sign it extends, is
\* the address of the target.
Reaches(e) ==
  (Signed(field[e[1]][e[2]], Field) + FieldAddress(e)) % Word
    = Target(e) % Word

\* No reference that a signed field can express is refused for its size.
FitsAccepted == error = "REL_VALUE_OVERFLOW" => ~Near(<<sec, ent>>)

\* Of the references that were relocated, those lead to their targets that a
\* signed field can express, forward and backward, and no others.
NearReached ==
  \A e \in Relocations :
    field[e[1]][e[2]] # Absent => (Near(e) <=> Reaches(e))

\* The iteration is in a table only if the checks before the table passed.
Entered ==
  ent > 0 =>
    /\ sec \in DOMAIN Sections
    /\ Header.type \in TableTypes
    /\ EnterError = "none"

\* The sections the first call has passed lie where the image was put.
SectionsPlaced ==
  \A i \in DOMAIN Sections :
    sh_addr[i] = IF phase = "sections" /\ i >= sec THEN 0
                 ELSE (image.base + Sections[i].offset) % Word

\* A problem ends the call it is met in.
Stopped == error # "none" => done

\* What every step of a load keeps true: the inductive invariant behind the
\* properties above.
LoadInv ==
  /\ TypeOK /\ Entered /\ Stopped
  /\ SectionsPlaced /\ SymbolsPlacedOnce
  /\ QueriesAnswered
  /\ RelocatedPrefix /\ NearReached /\ FitsAccepted

\* Every load ends, by success or by failure.
LoadEnds == <>done

-----------------------------------------------------------------------------
(* What the code says of itself and does not do *)

\* loader.h: a load whose relocations were not all applied is told by the
\* code that is returned.
RelocationsReported ==
  done /\ phase = "relocations" /\ result = "none" =>
    \A e \in Relocations : field[e[1]][e[2]] # Absent

\* loader.h: the list of queries is updated with the values of symbols that
\* the executable defines.
DefinedSymbolsAnswer ==
  \A k \in Answered : \E e \in Givers(image.queries[k].name) :
    /\ EntryOf(e).shndx # SHN_UNDEF
    /\ queries[k].addr = SymbolAddress(e)

\* rel_x86.c: the value of a relative relocation is signed and checked for an
\* overflow, so the processor, which extends the field's sign, reaches the
\* target from every field that was stored.
StoredReachesTarget ==
  \A e \in Relocations :
    field[e[1]][e[2]] # Absent => Reaches(e)
=============================================================================
