------------------------------ MODULE MallocTrace ------------------------------
(***************************************************************************)
(* memory_debugging_tools/py_malloc_trace: the allocation functions of a   *)
(* traced program log every call, and parse_malloc_trace_log.py reads the  *)
(* log to find the blocks that were never freed.                           *)
(*                                                                         *)
(* The parser reads the lines one by one, in order, so its state after the *)
(* lines written so far is kept instead of the lines (parsed).  malloc     *)
(* stands for malloc, memalign, aligned_alloc, posix_memalign with a valid *)
(* alignment and, with a count, calloc: they differ in what libc is asked. *)
(***************************************************************************)
EXTENDS Integers, Sequences, FiniteSets, Functions

CONSTANTS Threads, Main,   \* threads of the program, and its first one
          Addrs, Nil,      \* addresses of blocks, and NULL
          Sites,           \* return addresses: where the program calls from
          Sizes, Counts    \* arguments of the calls

ASSUME ArgumentsOK == Sizes \subseteq Nat /\ Counts \subseteq Nat
ASSUME NamesOK == Main \in Threads /\ Nil \notin Addrs
ASSUME FiniteOK == IsFiniteSet(Addrs) /\ IsFiniteSet(Sites)

VARIABLES
  phase,        \* of main()
  enabled, fd,  \* the Globals; fd is -1 or the descriptor that open returned
  open,         \* that descriptor is the log file
  heap,         \* blocks that libc has given out
  old,          \* of these, the ones given out before the tracing
  held,         \* blocks that the program may free
  pc, call,     \* per thread: the steps its call still has, and the call
  parsed,       \* allocated_memories of the parser for the log so far
  truth,        \* history: <<size, count, site>> of each block allocated since
  lost, failed  \* history: a line was not written, a realloc failed

globals == <<phase, enabled, fd, open>>
program == <<heap, old, held, truth, failed>>
vars == <<globals, program, pc, call, parsed, lost>>

None == <<>>

\* A call: the pointer it gets, the one it returns, its size and count, its caller.
Call(kind, p, size, count, site) ==
  [kind |-> kind, p |-> p, q |-> Nil, size |-> size, count |-> count, site |-> site]
NoCall == Call("none", Nil, 0, 1, Nil)

Init == /\ phase = "new" /\ enabled = FALSE /\ fd = -1 /\ open = FALSE
        /\ old \in SUBSET Addrs /\ heap = old /\ held = old
        /\ pc = [t \in Threads |-> <<>>] /\ call = [t \in Threads |-> NoCall]
        /\ parsed = [p \in Addrs \cup {Nil} |-> None]
        /\ truth = [p \in Addrs |-> None]
        /\ lost = FALSE /\ failed = FALSE

-----------------------------------------------------------------------------
(* main(): tracing is on around the interpreter.  Its allocations before and *)
(* after are not traced and left out.                                        *)

Main_(from, to) == phase = from /\ phase' = to /\ pc[Main] = <<>>
                   /\ UNCHANGED <<program, pc, call, parsed, lost>>

malloc_trace_start == /\ Main_("new", "opened")
                      /\ \/ fd' = 3 /\ open' = TRUE
                         \/ UNCHANGED <<fd, open>>
                      /\ UNCHANGED enabled

Py_Main == /\ Main_("opened", "python")
           /\ enabled' = TRUE /\ UNCHANGED <<fd, open>>

malloc_trace_stop == /\ Main_("python", "stopping")
                     /\ enabled' = FALSE /\ UNCHANGED <<fd, open>>

Close == /\ Main_("stopping", "closed")
         /\ open' = FALSE /\ UNCHANGED <<enabled, fd>>

Forget == /\ Main_("closed", "ended")
          /\ fd' = -1 /\ UNCHANGED <<enabled, open>>

MainSteps == malloc_trace_start \/ Py_Main \/ malloc_trace_stop \/ Close \/ Forget

-----------------------------------------------------------------------------
(* The calls.  Threads other than the first begin in Python, and daemon      *)
(* threads go on until the process ends.                                     *)

CanCall(t) == /\ pc[t] = <<>>
              /\ phase = "python" \/ (t # Main /\ phase \in {"stopping", "closed", "ended"})

\* Fault: the blocks that free and realloc give back are logged when libc has them.
Script_FreeLate(kind) == CASE kind = "malloc"  -> <<"libc", "alloc">>
                           [] kind = "free"    -> <<"libc", "free">>
                           [] kind = "realloc" -> <<"libc", "free", "alloc">>

\* Fault: a realloc logs its new block only.
Script_NoFree(kind) == CASE kind = "malloc"  -> <<"libc", "alloc">>
                         [] kind = "free"    -> <<"free", "libc">>
                         [] kind = "realloc" -> <<"libc", "alloc">>

\* What a function does: ask libc, and log an operation.
Script(kind) == CASE kind = "malloc"  -> <<"libc", "alloc">>
                  [] kind = "free"    -> <<"free", "libc">>
                  [] kind = "realloc" -> <<"free", "libc", "alloc">>

Begin(t, c) == /\ CanCall(t)
               /\ pc' = [pc EXCEPT ![t] = Script(c.kind)]
               /\ call' = [call EXCEPT ![t] = c]
               /\ UNCHANGED <<globals, heap, old, truth, failed, parsed, lost>>

malloc(t) == /\ \E size \in Sizes, count \in Counts, site \in Sites :
                  Begin(t, Call("malloc", Nil, size, count, site))
             /\ UNCHANGED held

\* The program frees a block once, and uses the old pointer of realloc no more.
free(t) == \E p \in held \cup {Nil} :
  Begin(t, Call("free", p, 0, 1, Nil)) /\ held' = held \ {p}

\* Size 0 frees the block.
realloc(t) == \E p \in held \cup {Nil}, size \in Sizes \cup {0}, site \in Sites :
  /\ p = Nil => size \in Sizes
  /\ Begin(t, Call("realloc", p, size, 1, site))
  /\ held' = held \ {p}

\* valloc, pvalloc and malloc_usable_size abort the process.
Abort(t) == /\ CanCall(t) /\ phase' = "aborted"
            /\ UNCHANGED <<enabled, fd, open, program, pc, call, parsed, lost>>

At(t, step) == pc[t] # <<>> /\ Head(pc[t]) = step

\* What the program may free once the call has returned: the new block, and the
\* old one when realloc failed.
Returned(c) == ({c.q} \cup IF c.kind = "realloc" /\ c.q = Nil /\ c.size # 0
                           THEN {c.p} ELSE {}) \ {Nil}

\* Thread t is done with a step of its call, which is c now.
Done(t, c) == /\ pc' = [pc EXCEPT ![t] = Tail(@)]
              /\ IF Tail(pc[t]) = <<>>
                 THEN /\ call' = [call EXCEPT ![t] = NoCall]
                      /\ held' = held \cup Returned(c)
                 ELSE call' = [call EXCEPT ![t] = c] /\ UNCHANGED held

-----------------------------------------------------------------------------
(* libc, atomic in itself.                                                   *)

Take(p) == /\ heap' = heap \ {p} /\ old' = old \ {p}
           /\ truth' = [a \in Addrs |-> IF a = p THEN None ELSE truth[a]]

\* Block q instead of block p, if any.
Give(p, q, c) == /\ heap' = (heap \ {p}) \cup {q} /\ old' = old \ {p}
                 /\ truth' = [a \in Addrs |-> IF a = q THEN <<c.size, c.count, c.site>>
                                              ELSE IF a = p THEN None ELSE truth[a]]

NoRoom == UNCHANGED <<heap, old, truth>>

\* Also memalign and calloc.
__libc_malloc(t, c) ==
  /\ c.kind = "malloc" /\ UNCHANGED failed
  /\ \/ NoRoom /\ Done(t, c)
     \/ \E q \in Addrs \ heap : Give(Nil, q, c) /\ Done(t, [c EXCEPT !.q = q])

__libc_free(t, c) == c.kind = "free" /\ Take(c.p) /\ Done(t, c) /\ UNCHANGED failed

\* The block is freed (size 0), moves or stays in its place, or, when there is
\* no room, remains allocated as it was.
__libc_realloc(t, c) ==
  /\ c.kind = "realloc"
  /\ IF c.p # Nil /\ c.size = 0
     THEN Take(c.p) /\ Done(t, c) /\ UNCHANGED failed
     ELSE \/ NoRoom /\ Done(t, c) /\ failed' = (failed \/ c.p # Nil)
          \/ \E q \in (Addrs \ heap) \cup ({c.p} \ {Nil}) :
               Give(c.p, q, c) /\ Done(t, [c EXCEPT !.q = q]) /\ UNCHANGED failed

Libc(t) == /\ At(t, "libc")
           /\ \/ __libc_malloc(t, call[t])
              \/ __libc_free(t, call[t])
              \/ __libc_realloc(t, call[t])
           /\ UNCHANGED <<globals, parsed, lost>>

-----------------------------------------------------------------------------
(* write_malloc_call_history, and what the parser makes of the line.         *)

Logging(t, ops) == At(t, ops) /\ UNCHANGED <<globals, heap, old, truth, failed>>

\* The operation of the line, once g.enabled was found to be set.
Writes == [free |-> "writeFree", alloc |-> "writeAlloc"]

Check(t) == \E op \in DOMAIN Writes :
  /\ Logging(t, op) /\ UNCHANGED <<parsed, lost>>
  /\ IF enabled
     THEN pc' = [pc EXCEPT ![t] = <<Writes[op]>> \o Tail(@)] /\ UNCHANGED <<call, held>>
     ELSE Done(t, call[t])

\* Fault: size and caller are stored in the wrong order.
ParseAlloc_Swapped(p, size, site) == [parsed EXCEPT ![p] = <<site, size>>]

\* MallocTraceLogParser.parse, a line with op 1: p may be (nil).
ParseAlloc(p, size, site) == [parsed EXCEPT ![p] = <<size, site>>]

\* A line with op 2; the line of an unknown block is skipped with a warning.
ParseFree(p) == IF p = Nil THEN parsed ELSE [parsed EXCEPT ![p] = None]

\* write(g.fd): the line is lost when the file could not be opened, when the
\* disk is full, and after the close; a file that the program opened since may
\* get it then.
Write(t) == \E op \in DOMAIN Writes :
  /\ Logging(t, Writes[op]) /\ Done(t, call[t])
  /\ \/ /\ fd # -1 /\ open /\ UNCHANGED lost
        /\ parsed' = IF op = "free" THEN ParseFree(call[t].p)
                     ELSE ParseAlloc(call[t].q, call[t].size, call[t].site)
     \/ lost' = TRUE /\ UNCHANGED parsed

Next == /\ phase # "aborted"
        /\ \/ MainSteps
           \/ \E t \in Threads : \/ malloc(t) \/ free(t) \/ realloc(t) \/ Abort(t)
                                 \/ Libc(t) \/ Check(t) \/ Write(t)

Spec == Init /\ [][Next]_vars

\* The statistics that are printed: blocks and bytes of a caller.
Remaining(site) == {p \in DOMAIN parsed : parsed[p] # None /\ parsed[p][2] = site}

\* Fault: a block replaces what its caller already had.
stats_Replace(site) ==
  IF Remaining(site) = {} THEN <<0, 0>> ELSE <<1, parsed[CHOOSE p \in Remaining(site) : TRUE][1]>>

stats(site) == <<Cardinality(Remaining(site)),
                 SumFunction([p \in Remaining(site) |-> parsed[p][1]])>>

-----------------------------------------------------------------------------
(* Properties.                                                             *)

Busy(p) == \E t \in Threads : pc[t] # <<>> /\ p \in {call[t].p, call[t].q}
Complete == phase = "python" /\ ~lost /\ ~failed

\* Every variable has its type; blocks are held or in use by a call only while
\* libc has given them out (py_malloc_trace.cpp:178-275).
TypeOK ==
  /\ phase \in {"new", "opened", "python", "stopping", "closed", "ended", "aborted"}
  /\ enabled \in BOOLEAN /\ open \in BOOLEAN /\ fd \in {-1, 3}
  /\ old \subseteq heap /\ held \subseteq heap /\ heap \subseteq Addrs
  /\ \A t \in Threads : /\ call[t].p \in Addrs \cup {Nil} /\ call[t].q \in heap \cup {Nil}
                        /\ call[t].size \in Sizes \cup {0}
  /\ \A p \in Addrs : /\ (truth[p] # None) = (p \in heap \ old)
                      /\ parsed[p] = None \/ parsed[p] \in (Sizes \cup {0}) \X Sites

\* As long as every line is written and no realloc fails, the parser knows, at
\* every moment, exactly the blocks that the program has allocated and not
\* freed, with the caller of the latest allocation, except for those whose call
\* is in progress - whatever the threads interleave, and although libc gives an
\* address out again as soon as it has it
\* (py_malloc_trace.cpp:178-275, parse_malloc_trace_log.py:203-222).
ReportIsTrue ==
  Complete => \A p \in Addrs : ~Busy(p) =>
    IF truth[p] = None THEN parsed[p] = None
    ELSE parsed[p] = <<truth[p][1], truth[p][3]>>

\* While no line is lost, a block that is about to be logged as allocated is not
\* known, and one about to be logged as freed is known, was allocated before the
\* tracing, or survived a failed realloc: the warnings of the parser mean what
\* they say (parse_malloc_trace_log.py:208-220).
NoFalseAlarm ==
  phase = "python" /\ ~lost => \A t \in Threads :
    /\ At(t, "writeAlloc") /\ call[t].q # Nil => parsed[call[t].q] = None
    /\ At(t, "writeFree") /\ call[t].p # Nil /\ ~failed =>
         parsed[call[t].p] # None \/ call[t].p \in old

\* Between calls, and unless an allocation failed, the report summed up over the
\* callers has every block that the program has allocated since the tracing began
\* and not freed, each once.  Its bytes, which it calls the total size, differ from
\* theirs by exactly what the lines of calloc leave out: all elements of a block
\* but one (parse_malloc_trace_log.py:227-246, py_malloc_trace.cpp:200-206).
LeftOut(p) == truth[p][1] * (truth[p][2] - 1)
Bytes(p)   == truth[p][1] * truth[p][2]
Totals ==
  Complete /\ (\A t \in Threads : pc[t] = <<>>) /\ parsed[Nil] = None =>
    /\ SumFunction([s \in Sites |-> stats(s)[1]]) = Cardinality(heap \ old)
    /\ SumFunction([s \in Sites |-> stats(s)[2]])
         + SumFunction([p \in heap \ old |-> LeftOut(p)])
         = SumFunction([p \in heap \ old |-> Bytes(p)])
===============================================================================
