--------------------------- MODULE MCSymbolResolver ---------------------------
(* Instances of SymbolResolver for TLC: two files, one map that is refused,      *)
(* symbols that touch, overlap and have sizes of one and two digits.             *)
EXTENDS SymbolResolver

Line(lo, hi, exec, offset, file) ==
  [lo |-> lo, hi |-> hi, exec |-> exec, offset |-> offset, file |-> file]
Code(lo, hi, file) == Line(lo, hi, TRUE, 0, file)
MCMapFiles == { <<Code(100, 130, "app"), Line(130, 160, FALSE, 0, "app"), Code(160, 190, "libc")>>,
                <<Code(100, 130, "app"), Line(130, 160, TRUE, 30, "app")>> }

Symbols == { [value |-> 0, size |-> 0, name |-> "undefined"],
             [value |-> 2, size |-> 8, name |-> "short"],
             [value |-> 2, size |-> 10, name |-> "long"],
             [value |-> 12, size |-> 4, name |-> "next"],
             [value |-> 20, size |-> 10, name |-> "last"] }
MCSymbolTables == SUBSET Symbols
MCAddrs == {99, 102, 111, 113, 129, 145, 172}
===============================================================================
