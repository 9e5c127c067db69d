------------------------------- MODULE MCLoader -------------------------------
(* Small images: one section of code, one of data, a string table, a symbol  *)
(* table and a relocation table, each sound or with one of the defects the   *)
(* loader looks for.                                                         *)
EXTENDS LoaderProps

Plain(type, offset, size) ==
  [type |-> type, offset |-> offset, size |-> size, entsize |-> 1,
   link |-> 0, info |-> 0, entries |-> <<>>]

Table(type, link, info, entries) ==
  [Plain(type, 0, 1) EXCEPT !.link = link, !.info = info,
                            !.entries = entries]

Symbol(name, shndx, value) == [name |-> name, shndx |-> shndx,
                               value |-> value]
Reloc(sym, offset, addend, type) ==
  [sym |-> sym, offset |-> offset, addend |-> addend, type |-> type]

\* The data section: file contents, empty or uninitialised space.
DataSections == {Plain("PROGBITS", 7, 2), Plain("NOBITS", 7, 0),
                 Plain("NOBITS", 7, 2)}
StringTables == {Plain("STRTAB", 0, 1),
                 [Plain("STRTAB", 0, 1) EXCEPT !.entsize = 0]}

\* f is defined by the file, maybe twice, and g by its caller.
SymbolTables ==
  {Table("SYMTAB", link, 0,
         <<Symbol("", SHN_UNDEF, 0), Symbol("f", shndx, 3),
           Symbol(name, shndx2, 1)>>) :
     link \in {1, 3}, shndx \in {1, 2, RESERVED, 9},
     name \in {"f", "g", BadName}, shndx2 \in {SHN_UNDEF, 1}}

RelocationTables ==
  {Table(type, 4, info,
         <<Reloc(sym1, 0, addend, "PC32"), Reloc(sym2, 2, -1, type2)>>) :
     type \in {"REL", "RELA"}, info \in {1, 9}, sym1 \in {0, 1, 2},
     sym2 \in {1, 3}, addend \in {-2, 0}, type2 \in {"PLT32", "GOT"}}

Definitions ==
  {<<[name |-> "g", defined |-> first, addr |-> a],
     [name |-> "g", defined |-> TRUE, addr |-> 12]>> :
     first \in BOOLEAN, a \in 1 .. 31}

Query(name) == [name |-> name, defined |-> FALSE, addr |-> 0]

\* Each name once; f twice, behind a query for it that came with an answer.
QueryLists ==
  {<<Query("f"), Query("g")>>,
   <<[name |-> "f", defined |-> TRUE, addr |-> 4], Query("f"), Query("g"),
     Query("f")>>}

Image(data, strings, symbols, relocations, defs, asked) ==
  [base |-> 5,
   sections |-> [i \in 0 .. 5 |->
                   <<Plain("NULL", 0, 0), Plain("PROGBITS", 1, 6),
                     data, strings, symbols, relocations>>[i + 1]],
   defs |-> defs, queries |-> asked]

\* The relocations vary, or what comes before them, or the distance.
SmallImages ==
  {Image(data, strings, symbols, CHOOSE r \in RelocationTables : TRUE, defs,
         asked) :
     asked \in QueryLists, data \in DataSections, strings \in StringTables,
     symbols \in SymbolTables,
     defs \in {d \in Definitions : d[1].addr = 2}}
  \cup
  {Image(Plain("PROGBITS", 7, 2), Plain("STRTAB", 0, 1), symbols,
         relocations, defs, <<Query("g")>>) :
     symbols \in {s \in SymbolTables :
                    /\ s.link = 3
                    /\ s.entries[2].shndx \in {1, RESERVED}
                    /\ s.entries[3] = Symbol("g", SHN_UNDEF, 1)},
     relocations \in RelocationTables,
     defs \in {d \in Definitions : d[1].defined /\ d[1].addr \in {2, 30}}}
  \cup
  {Image(Plain("PROGBITS", 7, 2), Plain("STRTAB", 0, 1),
         Table("SYMTAB", 3, 0, <<Symbol("", SHN_UNDEF, 0), Symbol("f", 1, 3),
                                 Symbol("g", SHN_UNDEF, 0)>>),
         Table(type, 4, 1, <<Reloc(2, 0, addend, "PC32"),
                             Reloc(1, 2, 0, "PLT32")>>), defs,
         <<Query("f")>>) :
     type \in {"REL", "RELA"}, addend \in {-2, 0},
     defs \in {d \in Definitions : d[1].defined}}
=============================================================================
