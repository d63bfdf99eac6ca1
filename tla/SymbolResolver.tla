---------------------------- MODULE SymbolResolver ----------------------------
(***************************************************************************)
(* parse_malloc_trace_log.py, SymbolResolver: the names of the callers in  *)
(* the report, from the memory map of the process and the symbol tables of *)
(* its files.                                                              *)
(*                                                                         *)
(* readelf is external: it prints the value of a symbol in hexadecimal and *)
(* its size in decimal.                                                    *)
(***************************************************************************)
EXTENDS Integers, Sequences, FiniteSets, SequencesExt

CONSTANTS MapFiles,       \* memory maps that may be given: sequences of MapLine
          SymbolTables,   \* symbol tables that a file may have: sets of Entry
          Addrs,          \* return addresses in the log
          MaxUnresolved   \* unresolved addresses that are kept: 10

\* Lines of /proc/{pid}/maps and of readelf -s.
MapLine == [lo : Nat, hi : Nat, exec : BOOLEAN, offset : Nat, file : STRING]
Entry == [value : Nat, size : Nat, name : STRING]

ASSUME InputOK == /\ \A m \in MapFiles : m \in Seq(MapLine)
                  /\ \A t \in SymbolTables : t \subseteq Entry /\ IsFiniteSet(t)
                  /\ Addrs \subseteq Nat /\ MaxUnresolved \in Nat

\* A process has one map for an address, and no symbol is named like an unknown one.
ASSUME MapsDisjoint == \A m \in MapFiles : \A i, j \in DOMAIN m :
                         i # j => m[i].hi <= m[j].lo \/ m[j].hi <= m[i].lo
ASSUME SymbolsNamed == \A t \in SymbolTables : \A e \in t : e.name # "(unknown)"

VARIABLES
  lines, tables,  \* the input: the memory map, and the symbol table of each file
  phase,          \* "start", "mapped", "loaded", "done" or "failed"
  maps,           \* executable maps, sorted
  symbols,        \* per index of maps: its sorted symbols
  cache,          \* names that were given out, per address; None otherwise
  unresolved      \* the first addresses outside of all maps

vars == <<lines, tables, phase, maps, symbols, cache, unresolved>>

None == <<>>

Init == /\ lines \in MapFiles
        /\ tables \in [{lines[i].file : i \in DOMAIN lines} -> SymbolTables]
        /\ phase = "start" /\ maps = <<>> /\ symbols = <<>>
        /\ cache = [a \in Addrs |-> None] /\ unresolved = <<>>

-----------------------------------------------------------------------------
(* Loading.                                                                *)

\* MemoryMap and Symbol are compared by their ranges.
Before(r, s) == r.lo < s.lo \/ (r.lo = s.lo /\ r.hi <= s.hi)

\* The ranges in their order; which of two equal ranges comes first is left open.
Sorted(ranges) == CHOOSE s \in SetToSeqs(ranges) :
                    \A i, j \in DOMAIN s : i < j => Before(s[i], s[j])

\* Only executable maps count, and they have to begin at the start of their file.
load_mapfile ==
  /\ phase = "start"
  /\ LET exec == {lines[i] : i \in {j \in DOMAIN lines : lines[j].exec}}
     IN  IF \E l \in exec : l.offset # 0
         THEN phase' = "failed" /\ UNCHANGED maps
         ELSE phase' = "mapped" /\ maps' = Sorted(exec)
  /\ UNCHANGED <<lines, tables, symbols, cache, unresolved>>

\* The number that the decimal digits of n are in hexadecimal.
AsHex[n \in Nat] == IF n < 10 THEN n ELSE 16 * AsHex[n \div 10] + (n % 10)

\* Fault: the end of a symbol is its size.
Range_Size(e) == [lo |-> e.value, hi |-> AsHex[e.size], name |-> e.name]

Range_(e) == [lo |-> e.value, hi |-> e.value + AsHex[e.size], name |-> e.name]

load_symbol_table(file) == Sorted({Range_(e) : e \in tables[file]})

load_symbol_table_all ==
  /\ phase = "mapped" /\ phase' = "loaded"
  /\ symbols' = [i \in DOMAIN maps |-> load_symbol_table(maps[i].file)]
  /\ UNCHANGED <<lines, tables, maps, cache, unresolved>>

-----------------------------------------------------------------------------
(* resolve_symbol.                                                         *)

Has(range, a) == range.lo <= a /\ a < range.hi

\* Fault: the search stops at the first range that does not have a.
Find_First(ranges, a) == IF ranges # <<>> /\ Has(ranges[1], a) THEN 1 ELSE 0

\* Both loops: the first range that has a, given up at one that begins after a.
Find(ranges, a) ==
  LET stops == {i \in DOMAIN ranges : Has(ranges[i], a) \/ a < ranges[i].lo}
      first == CHOOSE i \in stops : \A j \in stops : i <= j
  IN  IF stops = {} \/ a < ranges[first].lo THEN 0 ELSE first

\* Fault: an address that is not in any map is not remembered.
Resolve_Uncached(a) ==
  /\ phase = "loaded" /\ cache[a] = None /\ Find(maps, a) = 0
  /\ unresolved' = IF Len(unresolved) < MaxUnresolved THEN Append(unresolved, a) ELSE unresolved
  /\ UNCHANGED <<lines, tables, phase, maps, symbols, cache>>

\* Names are remembered.  The tables are all loaded by then: the load on demand is
\* never reached.
Resolve(a) ==
  /\ phase = "loaded" /\ cache[a] = None
  /\ LET i == Find(maps, a)
         s == Find(symbols[i], a - maps[i].lo)
     IN  IF i = 0
         THEN /\ cache' = [cache EXCEPT ![a] = <<"(unknown)", "(unknown)">>]
              /\ unresolved' = IF Len(unresolved) < MaxUnresolved
                               THEN Append(unresolved, a) ELSE unresolved
         ELSE /\ cache' = [cache EXCEPT ![a] =
                   <<maps[i].file, IF s = 0 THEN "(unknown)" ELSE symbols[i][s].name>>]
              /\ UNCHANGED unresolved
  /\ UNCHANGED <<lines, tables, phase, maps, symbols>>

print_unresolved == /\ phase = "loaded" /\ phase' = "done"
                    /\ UNCHANGED <<lines, tables, maps, symbols, cache, unresolved>>

Next == \/ load_mapfile \/ load_symbol_table_all \/ print_unresolved
        \/ \E a \in Addrs : Resolve(a)

Spec == Init /\ [][Next]_vars

-----------------------------------------------------------------------------
(* Properties.                                                             *)

\* The map that has the address, by the definition of a map.
Mapped(a) == {l \in {lines[i] : i \in DOMAIN lines} : l.exec /\ Has(l, a)}
Asked == {a \in Addrs : cache[a] # None}
Listed == {unresolved[i] : i \in DOMAIN unresolved}

\* Every variable has its type; the list at the end has distinct addresses, all of
\* them outside of the maps, and is complete unless it is full
\* (parse_malloc_trace_log.py:84-116, 159-165).
TypeOK == /\ phase \in {"start", "mapped", "loaded", "done", "failed"}
          /\ lines \in MapFiles
          /\ phase \in {"loaded", "done"} => DOMAIN symbols = DOMAIN maps
          /\ Len(unresolved) = Cardinality(Listed) /\ Len(unresolved) <= MaxUnresolved
          /\ Listed \subseteq {a \in Asked : Mapped(a) = {}}
          /\ Len(unresolved) < MaxUnresolved => Listed = {a \in Asked : Mapped(a) = {}}

\* Where the search may stop early, it loses nothing: an address gets the name of its
\* file and of a symbol whose range, as it was read, has the address, when there is
\* one, and of those the one that begins first
\* (parse_malloc_trace_log.py:78, 87-109, 148).
NamedInRange ==
  \A a \in Asked :
    IF Mapped(a) = {} THEN cache[a] = <<"(unknown)", "(unknown)">>
    ELSE \E l \in Mapped(a) :
      LET near == {e \in tables[l.file] : Has(Range_(e), a - l.lo)}
      IN  /\ cache[a][1] = l.file
          /\ IF near = {} THEN cache[a][2] = "(unknown)"
             ELSE \E e \in near : /\ cache[a][2] = e.name
                                  /\ \A f \in near : e.value <= f.value

\* The symbol that really has the address, by the size in its file, gives the name,
\* although the size is read in the wrong base - unless a symbol of ten bytes or more
\* begins before it, or another one has the address too.  An address in a symbol is
\* never unknown (parse_malloc_trace_log.py:96-106, 134-146).
Owners(l, a) == {e \in tables[l.file] : e.value <= a - l.lo /\ a - l.lo < e.value + e.size}
NamedByOwner ==
  \A a \in Asked : \A l \in Mapped(a) : \A e \in Owners(l, a) :
    /\ cache[a][2] # "(unknown)"
    /\ \/ cache[a][2] = e.name
       \/ \E f \in tables[l.file] \ {e} : f.value <= e.value /\ f.size >= 10
       \/ Cardinality(Owners(l, a)) > 1
===============================================================================
