--------------------------- MODULE MallocTraceProofs ---------------------------
(***************************************************************************)
(* Proofs about MallocTrace, for any number of threads, addresses, sizes,  *)
(* callers and calls.                                                      *)
(***************************************************************************)
EXTENDS MallocTrace, SequenceTheorems, FiniteSetTheorems, WellFoundedInduction, TLAPS

Calls == [kind : {"none", "malloc", "free", "realloc"}, p : Addrs \cup {Nil}, q : Addrs \cup {Nil},
          size : Sizes \cup {0}, count : Counts \cup {1}, site : Sites \cup {Nil}]

(* Where a call can be: before it asks libc, with the line about the old      *)
(* block still to be written or not, or behind that.                         *)
Unwritten == {<<"free", "libc">>, <<"writeFree", "libc">>,
              <<"free", "libc", "alloc">>, <<"writeFree", "libc", "alloc">>}
Asking == {<<"libc">>, <<"libc", "alloc">>}
Behind == {<<"alloc">>, <<"writeAlloc">>}

Shaped(t) ==
  LET c == call[t]
  IN  \/ pc[t] = <<>> /\ c = NoCall
      \/ /\ c.kind = "malloc" /\ c.p = Nil /\ c.site \in Sites
         /\ (pc[t] = <<"libc", "alloc">> /\ c.q = Nil) \/ pc[t] \in Behind
      \/ /\ c.kind = "free" /\ c.q = Nil
         /\ pc[t] \in {<<"free", "libc">>, <<"writeFree", "libc">>, <<"libc">>}
      \/ /\ c.kind = "realloc" /\ c.site \in Sites
         /\ \/ /\ c.q = Nil
               /\ pc[t] \in {<<"free", "libc", "alloc">>, <<"writeFree", "libc", "alloc">>,
                             <<"libc", "alloc">>}
            \/ pc[t] \in Behind

(* The blocks that only the call of t knows. *)
Owns(t) == IF pc[t] \in Unwritten \cup Asking THEN {call[t].p} \ {Nil}
           ELSE IF pc[t] \in Behind THEN Returned(call[t]) ELSE {}

Typed == /\ call \in [Threads -> Calls] /\ \A t \in Threads : Shaped(t)
         /\ pc = [t \in Threads |-> pc[t]]
         /\ held \subseteq heap /\ old \subseteq heap /\ heap \subseteq Addrs
         /\ \A t \in Threads : Owns(t) \subseteq heap

(* A block has one owner. *)
Owners == /\ \A t \in Threads : Owns(t) \cap held = {}
          /\ \A t, u \in Threads : t # u => Owns(t) \cap Owns(u) = {}

Truths == /\ \A p \in Addrs : (truth[p] # None) = (p \in heap \ old)
          /\ \A t \in Threads : pc[t] \in Behind /\ call[t].q # Nil =>
               /\ call[t].q \notin old
               /\ truth[call[t].q] = <<call[t].size, call[t].count, call[t].site>>

Phases == /\ phase \in {"new", "opened"} => \A t \in Threads : pc[t] = <<>>
          /\ phase = "python" => enabled

Matches(p) == IF truth[p] = None THEN parsed[p] = None
              ELSE parsed[p] = <<truth[p][1], truth[p][3]>>

(* A block that a realloc could not move is the program's again. *)
Failures == \A t \in Threads :
  pc[t] \in Behind /\ ~failed => Owns(t) = {call[t].q} \ {Nil}

(* What the parser knows as long as no line was lost. *)
Known == phase \in {"new", "opened", "python"} /\ ~lost =>
  /\ \A p \in Addrs \ heap : parsed[p] = None
  /\ \A t \in Threads : /\ pc[t] \in Asking /\ call[t].p # Nil => parsed[call[t].p] = None
                        /\ pc[t] \in Behind /\ call[t].q # Nil => parsed[call[t].q] = None
  /\ ~failed => /\ \A p \in Addrs : (\A t \in Threads : p \notin Owns(t)) => Matches(p)
                /\ \A t \in Threads : pc[t] \in Unwritten /\ call[t].p # Nil => Matches(call[t].p)

Flags == /\ phase \in {"new", "opened", "python", "stopping", "closed", "ended", "aborted"}
         /\ enabled \in BOOLEAN /\ open \in BOOLEAN /\ fd \in {-1, 3}
Parsed == /\ DOMAIN parsed = Addrs \cup {Nil} /\ truth = [p \in Addrs |-> truth[p]]
          /\ \A p \in Addrs : parsed[p] = None \/ parsed[p] \in (Sizes \cup {0}) \X Sites

IInv == Typed /\ Owners /\ Truths /\ Failures /\ Phases /\ Known /\ Flags /\ Parsed

-----------------------------------------------------------------------------
(* The sequences of steps.                                                 *)

(* What is left of each, once its first step is done. *)
LEMMA Tails ==
  /\ Tail(<<"free", "libc">>) = <<"libc">> /\ Tail(<<"writeFree", "libc">>) = <<"libc">>
  /\ Tail(<<"free", "libc", "alloc">>) = <<"libc", "alloc">>
  /\ Tail(<<"writeFree", "libc", "alloc">>) = <<"libc", "alloc">>
  /\ Tail(<<"libc", "alloc">>) = <<"alloc">> /\ Tail(<<"libc">>) = <<>>
  /\ Tail(<<"alloc">>) = <<>> /\ Tail(<<"writeAlloc">>) = <<>>
  OBVIOUS

(* They are not empty, and begin with their first step. *)
LEMMA Heads ==
  /\ \A a : <<a>> # <<>> /\ Head(<<a>>) = a
  /\ \A a, b : <<a, b>> # <<>> /\ Head(<<a, b>>) = a
  /\ \A a, b, c : <<a, b, c>> # <<>> /\ Head(<<a, b, c>>) = a
  OBVIOUS

(* A step is replaced by another one. *)
LEMMA Joins ==
  ASSUME NEW a, NEW b, NEW c
  PROVE  /\ <<a>> \o <<>> = <<a>> /\ <<a>> \o <<b>> = <<a, b>>
         /\ <<a>> \o <<b, c>> = <<a, b, c>>
<1>. DEFINE S == {a, b, c}
            s == <<a>> \o <<b>>
            t == <<a>> \o <<b, c>>
<1>1. /\ <<a>> \in Seq(S) /\ <<b>> \in Seq(S) /\ <<b, c>> \in Seq(S)
      /\ <<a, b>> \in Seq(S) /\ <<a, b, c>> \in Seq(S)
  OBVIOUS
<1>2. /\ Len(<<a>>) = 1 /\ Len(<<b>>) = 1 /\ Len(<<b, c>>) = 2
      /\ Len(<<a, b>>) = 2 /\ Len(<<a, b, c>>) = 3
  OBVIOUS
<1>. HIDE DEF S
<1>3. s = <<a, b>>
  <2>1. s \in Seq(S) /\ Len(s) = 2 /\ \A i \in 1..2 : s[i] = IF i <= 1 THEN <<a>>[i] ELSE <<b>>[i - 1]
    BY <1>1, <1>2, ConcatProperties
  <2>2. \A i \in 1..2 : s[i] = <<a, b>>[i]
    BY <2>1
  <2>. QED  BY <1>1, <1>2, <2>1, <2>2, SeqEqual
<1>4. t = <<a, b, c>>
  <2>1. t \in Seq(S) /\ Len(t) = 3 /\ \A i \in 1..3 : t[i] = IF i <= 1 THEN <<a>>[i] ELSE <<b, c>>[i - 1]
    BY <1>1, <1>2, ConcatProperties
  <2>2. \A i \in 1..3 : t[i] = <<a, b, c>>[i]
    BY <2>1
  <2>. QED  BY <1>1, <1>2, <2>1, <2>2, SeqEqual
<1>. QED  BY <1>3, <1>4

(* A step of a call is done; the other threads are where they were. *)
LEMMA DoneIs ==
  ASSUME Typed, NEW t \in Threads, NEW c, Done(t, c)
  PROVE  /\ pc' = [u \in Threads |-> pc'[u]] /\ call' = [u \in Threads |-> call'[u]]
         /\ \A u \in Threads \ {t} : pc'[u] = pc[u] /\ call'[u] = call[u]
         /\ pc'[t] = Tail(pc[t])
         /\ pc'[t] = <<>> => call'[t] = NoCall /\ held' = held \cup Returned(c)
         /\ pc'[t] # <<>> => call'[t] = c /\ held' = held
  BY DEF Typed, Done

(* A check goes on to write while tracing is on, else passes the line over. *)
LEMMA CheckIs ==
  ASSUME Typed, NEW t \in Threads, Check(t)
  PROVE  \/ /\ enabled /\ call' = call /\ held' = held
            /\ pc' = [u \in Threads |-> pc'[u]] /\ \A u \in Threads \ {t} : pc'[u] = pc[u]
            /\ \/ pc[t] = <<"free", "libc">> /\ pc'[t] = <<"writeFree", "libc">>
               \/ pc[t] = <<"free", "libc", "alloc">> /\ pc'[t] = <<"writeFree", "libc", "alloc">>
               \/ pc[t] = <<"alloc">> /\ pc'[t] = <<"writeAlloc">>
         \/ /\ ~enabled /\ Done(t, call[t])
            /\ \/ pc[t] = <<"free", "libc">> /\ pc'[t] = <<"libc">>
               \/ pc[t] = <<"free", "libc", "alloc">> /\ pc'[t] = <<"libc", "alloc">>
               \/ pc[t] = <<"alloc">> /\ pc'[t] = <<>>
<1>1. PICK op \in {"free", "alloc"} :
        /\ At(t, op)
        /\ IF enabled
           THEN pc' = [pc EXCEPT ![t] = <<Writes[op]>> \o Tail(@)] /\ UNCHANGED <<call, held>>
           ELSE Done(t, call[t])
  BY DEF Check, Logging, Writes
<1>2. \/ op = "free" /\ pc[t] \in {<<"free", "libc">>, <<"free", "libc", "alloc">>}
      \/ op = "alloc" /\ pc[t] = <<"alloc">>
  BY <1>1, Heads DEF At, Typed, Shaped, Behind
<1>3. CASE enabled
  <2>1. /\ call' = call /\ held' = held /\ pc' = [u \in Threads |-> pc'[u]]
        /\ \A u \in Threads \ {t} : pc'[u] = pc[u]
        /\ pc'[t] = <<Writes[op]>> \o Tail(pc[t])
    BY <1>1, <1>3 DEF Typed
  <2>2. Writes["free"] = "writeFree" /\ Writes["alloc"] = "writeAlloc"
    BY DEF Writes
  <2>3. CASE pc[t] = <<"free", "libc">>
    <3>1. pc'[t] = <<"writeFree">> \o <<"libc">>
      BY <1>2, <2>1, <2>2, <2>3, Tails, Heads
    <3>. QED  BY <1>3, <2>1, <2>3, <3>1, Joins
  <2>4. CASE pc[t] = <<"free", "libc", "alloc">>
    <3>1. pc'[t] = <<"writeFree">> \o <<"libc", "alloc">>
      BY <1>2, <2>1, <2>2, <2>4, Tails, Heads
    <3>. QED  BY <1>3, <2>1, <2>4, <3>1, Joins
  <2>5. CASE pc[t] = <<"alloc">>
    <3>1. pc'[t] = <<"writeAlloc">> \o <<>>
      BY <1>2, <2>1, <2>2, <2>5, Tails, Heads
    <3>. QED  BY <1>3, <2>1, <2>5, <3>1, Joins
  <2>. QED  BY <1>2, <2>3, <2>4, <2>5
<1>4. CASE ~enabled
  <2>1. Done(t, call[t])
    BY <1>1, <1>4
  <2>2. pc'[t] = Tail(pc[t])
    BY <2>1, DoneIs
  <2>3. CASE pc[t] = <<"free", "libc">>
    BY <1>4, <2>1, <2>2, <2>3, Tails
  <2>4. CASE pc[t] = <<"free", "libc", "alloc">>
    BY <1>4, <2>1, <2>2, <2>4, Tails
  <2>5. CASE pc[t] = <<"alloc">>
    BY <1>4, <2>1, <2>2, <2>5, Tails
  <2>. QED  BY <1>2, <2>3, <2>4, <2>5
<1>. QED  BY <1>3, <1>4

-----------------------------------------------------------------------------
(* The steps, as far as the invariant is concerned.                        *)

(* What a thread owns depends on its own call alone. *)
LEMMA SameOwner ==
  ASSUME NEW u \in Threads, pc'[u] = pc[u], call'[u] = call[u]
  PROVE  Owns(u)' = Owns(u) /\ (Shaped(u) => Shaped(u)')
  BY DEF Owns, Shaped, Returned, NoCall

(* A pointer of a call that is not Nil is a block the call owns. *)
LEMMA OwnPointers ==
  ASSUME Typed, NEW t \in Threads
  PROVE  /\ pc[t] \in Unwritten \cup Asking /\ call[t].p # Nil => call[t].p \in Owns(t)
         /\ pc[t] \in Behind /\ call[t].q # Nil => call[t].q \in Owns(t)
         /\ Owns(t) \subseteq Addrs
<1>1. pc[t] \in Behind => pc[t] \notin Unwritten \cup Asking
  BY DEF Unwritten, Asking, Behind
<1>. QED  BY <1>1 DEF Owns, Returned, Typed

(* The beginning of a call takes the block it is given from the program. *)
LEMMA BeginStep ==
  ASSUME IInv, NEW t \in Threads, NEW c \in Calls, Begin(t, c), held' = held \ {c.p},
         c.kind \in {"malloc", "free", "realloc"}, c.q = Nil, c.p \in held \cup {Nil},
         c.kind = "malloc" => c.p = Nil, c.kind # "free" => c.site \in Sites
  PROVE  IInv'
<1>1. /\ phase \in {"python", "stopping", "closed", "ended"} /\ pc[t] = <<>>
      /\ UNCHANGED <<phase, enabled, fd, open, heap, old, truth, failed, parsed, lost>>
  BY DEF Begin, CanCall, globals
<1>2. /\ pc' = [u \in Threads |-> pc'[u]] /\ call' \in [Threads -> Calls] /\ call'[t] = c
      /\ \A u \in Threads \ {t} : pc'[u] = pc[u] /\ call'[u] = call[u]
      /\ pc'[t] = Script(c.kind)
  BY DEF IInv, Typed, Begin
<1>3. \/ c.kind = "malloc" /\ pc'[t] = <<"libc", "alloc">>
      \/ c.kind = "free" /\ pc'[t] = <<"free", "libc">>
      \/ c.kind = "realloc" /\ pc'[t] = <<"free", "libc", "alloc">>
  BY <1>2 DEF Script
<1>4. Shaped(t)'
  BY <1>2, <1>3 DEF Shaped
<1>5. Owns(t) = {}
  BY <1>1 DEF Owns, Unwritten, Asking, Behind
<1>6. Owns(t)' = {c.p} \ {Nil}
  BY <1>2, <1>3 DEF Owns, Unwritten, Asking
<1>7. \A u \in Threads \ {t} : Owns(u)' = Owns(u) /\ Shaped(u)'
  BY <1>2, SameOwner DEF IInv, Typed
<1>8. Typed'
  BY <1>1, <1>2, <1>4, <1>6, <1>7 DEF IInv, Typed
<1>9. Owners'
  BY <1>6, <1>7 DEF IInv, Owners, Typed
<1>10. pc'[t] \notin Behind /\ (pc'[t] \in Asking => c.p = Nil)
  BY <1>3 DEF Behind, Asking
<1>11. Truths' /\ Failures'
  BY <1>1, <1>2, <1>7, <1>10 DEF IInv, Truths, Failures
<1>12. Phases' /\ Flags' /\ Parsed'
  BY <1>1 DEF IInv, Phases, Flags, Parsed
<1>13. Known'
  <2>. SUFFICES ASSUME phase = "python", ~lost PROVE Known'
    BY <1>1 DEF Known
  <2>1. \A p \in Addrs \ heap' : parsed'[p] = None
    BY <1>1 DEF IInv, Known
  <2>2. \A u \in Threads : /\ pc'[u] \in Asking /\ call'[u].p # Nil => parsed'[call'[u].p] = None
                           /\ pc'[u] \in Behind /\ call'[u].q # Nil => parsed'[call'[u].q] = None
    BY <1>1, <1>2, <1>10 DEF IInv, Known
  <2>3. \A p : Matches(p)' = Matches(p)
    BY <1>1 DEF Matches
  <2>4. ASSUME ~failed, NEW p \in Addrs, \A u \in Threads : p \notin Owns(u)' PROVE Matches(p)
    BY <1>5, <1>7, <2>4 DEF IInv, Known
  <2>5. ASSUME ~failed, c.p # Nil PROVE Matches(c.p)
    BY <2>5 DEF IInv, Known, Owners, Typed
  <2>6. ASSUME ~failed, NEW u \in Threads, pc'[u] \in Unwritten, call'[u].p # Nil
        PROVE  Matches(call'[u].p)
    BY <1>2, <2>5, <2>6 DEF IInv, Known
  <2>. QED  BY <1>1, <2>1, <2>2, <2>3, <2>4, <2>6 DEF Known
<1>. QED  BY <1>8, <1>9, <1>11, <1>12, <1>13 DEF IInv

(* A call whose line is behind it, written or not, is before libc, or over. *)
LEMMA PassOwners ==
  ASSUME IInv, NEW t \in Threads, Done(t, call[t]),
         UNCHANGED <<heap, old, truth, failed>>,
         \/ pc[t] \in Unwritten /\ pc'[t] \in Asking /\ pc'[t] = Tail(pc[t])
         \/ pc[t] \in Behind /\ pc'[t] = <<>>
  PROVE  /\ Typed' /\ Owners' /\ Truths' /\ Failures'
         /\ \A u \in Threads \ {t} : pc'[u] = pc[u] /\ call'[u] = call[u] /\ Owns(u)' = Owns(u)
         /\ pc[t] \in Unwritten => call'[t] = call[t] /\ Owns(t)' = Owns(t)
         /\ pc[t] \in Behind => Owns(t)' = {} /\ Owns(t) = Returned(call[t])
<1>0. /\ \A x \in Behind : x \notin Unwritten \cup Asking
      /\ \A x \in Asking : x \notin Unwritten \cup Behind /\ x # <<>>
      /\ <<>> \notin Unwritten \cup Asking \cup Behind
  BY Heads DEF Unwritten, Asking, Behind
<1>1. /\ pc' = [u \in Threads |-> pc'[u]] /\ call' = [u \in Threads |-> call'[u]]
      /\ \A u \in Threads \ {t} : pc'[u] = pc[u] /\ call'[u] = call[u]
      /\ pc'[t] = <<>> => call'[t] = NoCall /\ held' = held \cup Returned(call[t])
      /\ pc'[t] # <<>> => call'[t] = call[t] /\ held' = held
  BY DoneIs DEF IInv
<1>2. \A u \in Threads \ {t} : Owns(u)' = Owns(u) /\ Shaped(u)'
  BY <1>1, SameOwner DEF IInv, Typed
<1>3. /\ pc[t] \in Unwritten => call'[t] = call[t] /\ Owns(t)' = Owns(t) /\ held' = held
      /\ pc[t] \in Behind => Owns(t)' = {} /\ Owns(t) = Returned(call[t])
                              /\ held' = held \cup Owns(t)
  BY <1>0, <1>1 DEF Owns
<1>4. Shaped(t)'
  <2>1. CASE pc[t] \in Behind
    BY <1>0, <1>1, <2>1 DEF Shaped
  <2>2. CASE pc[t] \in Unwritten
    <3>1. call'[t] = call[t] /\ pc'[t] = Tail(pc[t])
      BY <1>0, <1>3, <2>2
    <3>2. \/ pc[t] \in {<<"free", "libc">>, <<"writeFree", "libc">>} /\ pc'[t] = <<"libc">>
          \/ /\ pc[t] \in {<<"free", "libc", "alloc">>, <<"writeFree", "libc", "alloc">>}
             /\ pc'[t] = <<"libc", "alloc">>
      BY <2>2, <3>1, Tails DEF Unwritten
    <3>3. Shaped(t) /\ pc[t] # <<>> /\ pc[t] \notin Behind
      BY <1>0, <2>2 DEF IInv, Typed
    <3>4. CASE call[t].kind = "free"
      <4>1. pc'[t] = <<"libc">> /\ call[t].q = Nil
        BY <3>2, <3>3, <3>4 DEF Shaped, NoCall, Call
      <4>. QED  BY <3>1, <3>4, <4>1 DEF Shaped
    <3>5. CASE call[t].kind = "realloc"
      <4>1. /\ call[t].q = Nil /\ call[t].site \in Sites
            /\ pc[t] \in {<<"free", "libc", "alloc">>, <<"writeFree", "libc", "alloc">>,
                         <<"libc", "alloc">>}
        BY <3>3, <3>5 DEF Shaped
      <4>2. pc'[t] = <<"libc", "alloc">>
        BY <3>2, <4>1
      <4>. QED  BY <3>1, <3>5, <4>1, <4>2 DEF Shaped
    <3>6. call[t].kind \in {"free", "realloc"}
      BY <3>2, <3>3 DEF Shaped
    <3>. QED  BY <3>4, <3>5, <3>6
  <2>. QED  BY <2>1, <2>2
<1>5. NoCall \in Calls
  BY DEF NoCall, Call, Calls
<1>6. Typed' /\ Owners'
  <2>1. held' \subseteq heap' /\ \A u \in Threads : Owns(u)' \subseteq heap'
    BY <1>2, <1>3 DEF IInv, Typed
  <2>2. call'[t] \in Calls
    BY <1>1, <1>5 DEF IInv, Typed
  <2>3. Typed'
    BY <1>1, <1>2, <1>4, <2>1, <2>2 DEF IInv, Typed
  <2>4. Owners'
    BY <1>2, <1>3 DEF IInv, Owners
  <2>. QED  BY <2>3, <2>4
<1>7. \A u \in Threads : pc'[u] \in Behind => u # t
  BY <1>0
<1>8. Truths' /\ Failures'
  BY <1>1, <1>2, <1>7 DEF IInv, Truths, Failures
<1>. QED  BY <1>1, <1>2, <1>3, <1>6, <1>8

(* Without tracing nothing is known any more. *)
LEMMA PassStep ==
  ASSUME IInv, NEW t \in Threads, Done(t, call[t]),
         UNCHANGED <<phase, enabled, fd, open, heap, old, truth, failed, parsed, lost>>,
         phase \notin {"new", "opened", "python"},
         \/ pc[t] = <<"free", "libc">> /\ pc'[t] = <<"libc">>
         \/ pc[t] = <<"free", "libc", "alloc">> /\ pc'[t] = <<"libc", "alloc">>
         \/ pc[t] = <<"alloc">> /\ pc'[t] = <<>>
  PROVE  IInv'
<1>1. \/ pc[t] \in Unwritten /\ pc'[t] \in Asking /\ pc'[t] = Tail(pc[t])
      \/ pc[t] \in Behind /\ pc'[t] = <<>>
  BY Tails DEF Unwritten, Asking, Behind
<1>2. Typed' /\ Owners' /\ Truths' /\ Failures'
  BY <1>1, PassOwners
<1>. QED  BY <1>2 DEF IInv, Phases, Flags, Parsed, Known

(* A check moves a call on, or, when tracing is off, ends it. *)
LEMMA CheckStep == ASSUME IInv, NEW t \in Threads, Check(t) PROVE IInv'
<1>1. UNCHANGED <<phase, enabled, fd, open, heap, old, truth, failed, parsed, lost>>
  BY DEF Check, Logging, globals
<1>2. \A p : Matches(p)' = Matches(p)
  BY <1>1 DEF Matches
<1>3. CASE enabled
  <2>1. /\ call' = call /\ held' = held
        /\ pc' = [u \in Threads |-> pc'[u]] /\ \A u \in Threads \ {t} : pc'[u] = pc[u]
        /\ \/ pc[t] = <<"free", "libc">> /\ pc'[t] = <<"writeFree", "libc">>
           \/ pc[t] = <<"free", "libc", "alloc">> /\ pc'[t] = <<"writeFree", "libc", "alloc">>
           \/ pc[t] = <<"alloc">> /\ pc'[t] = <<"writeAlloc">>
    BY <1>3, CheckIs DEF IInv
  <2>2. \/ pc[t] \in Unwritten /\ pc'[t] \in Unwritten
        \/ pc[t] \in Behind /\ pc'[t] \in Behind
    BY <2>1 DEF Unwritten, Behind
  <2>3. \A x \in Behind : x \notin Unwritten \cup Asking
    BY DEF Unwritten, Asking, Behind
  <2>4. \A u \in Threads : Owns(u)' = Owns(u)
    <3>1. Owns(t)' = Owns(t)
      BY <2>1, <2>2, <2>3 DEF Owns, Returned
    <3>. QED  BY <2>1, <3>1, SameOwner
  <2>5. \A u \in Threads : Shaped(u)'
    <3>1. Shaped(t)'
      BY <2>1 DEF IInv, Typed, Shaped, Behind, NoCall
    <3>. QED  BY <2>1, <3>1, SameOwner DEF IInv, Typed
  <2>6. Typed' /\ Owners'
    BY <1>1, <2>1, <2>4, <2>5 DEF IInv, Typed, Owners
  <2>7. \A u \in Threads : /\ pc'[u] \in Asking => pc[u] \in Asking
                           /\ pc'[u] \in Behind => pc[u] \in Behind
                           /\ pc'[u] \in Unwritten => pc[u] \in Unwritten
    BY <2>1 DEF Unwritten, Asking, Behind
  <2>8. Truths' /\ Failures'
    BY <1>1, <2>1, <2>4, <2>7 DEF IInv, Truths, Failures
  <2>9. Phases' /\ Flags' /\ Parsed'
    BY <1>1, <2>1, <2>2 DEF IInv, Phases, Flags, Parsed, Unwritten, Behind
  <2>10. Known'
    BY <1>1, <1>2, <2>1, <2>4, <2>7 DEF IInv, Known
  <2>. QED  BY <2>6, <2>8, <2>9, <2>10 DEF IInv
<1>4. CASE ~enabled
  <2>1. /\ Done(t, call[t])
        /\ \/ pc[t] = <<"free", "libc">> /\ pc'[t] = <<"libc">>
           \/ pc[t] = <<"free", "libc", "alloc">> /\ pc'[t] = <<"libc", "alloc">>
           \/ pc[t] = <<"alloc">> /\ pc'[t] = <<>>
    BY <1>4, CheckIs DEF IInv
  <2>2. phase \notin {"new", "opened", "python"}
    BY <1>4, <2>1, Heads DEF IInv, Phases
  <2>. QED  BY <1>1, <2>1, <2>2, PassStep, Heads
<1>. QED  BY <1>3, <1>4

(* A line is written by who owns its block, or lost. *)
LEMMA WriteIs ==
  ASSUME Typed, NEW t \in Threads, Write(t)
  PROVE  /\ Done(t, call[t])
         /\ UNCHANGED <<phase, enabled, fd, open, heap, old, truth, failed>>
         /\ \/ /\ pc[t] \in Unwritten /\ pc'[t] \in Asking /\ pc'[t] = Tail(pc[t])
               /\ \/ lost' = lost /\ parsed' = ParseFree(call[t].p)
                  \/ lost' = TRUE /\ parsed' = parsed
            \/ /\ pc[t] = <<"writeAlloc">> /\ pc'[t] = <<>> /\ call[t].site \in Sites
               /\ \/ /\ lost' = lost
                     /\ parsed' = ParseAlloc(call[t].q, call[t].size, call[t].site)
                  \/ lost' = TRUE /\ parsed' = parsed
<1>1. PICK op \in {"free", "alloc"} :
        /\ At(t, Writes[op]) /\ Done(t, call[t])
        /\ UNCHANGED <<phase, enabled, fd, open, heap, old, truth, failed>>
        /\ \/ /\ lost' = lost
              /\ parsed' = IF op = "free" THEN ParseFree(call[t].p)
                           ELSE ParseAlloc(call[t].q, call[t].size, call[t].site)
           \/ lost' = TRUE /\ parsed' = parsed
  BY DEF Write, Logging, Writes, globals
<1>2. Writes["free"] = "writeFree" /\ Writes["alloc"] = "writeAlloc"
  BY DEF Writes
<1>3. Shaped(t) /\ pc'[t] = Tail(pc[t])
  BY <1>1, DoneIs DEF Typed
<1>4. CASE op = "free"
  <2>1. pc[t] \in {<<"writeFree", "libc">>, <<"writeFree", "libc", "alloc">>}
    BY <1>1, <1>2, <1>3, <1>4, Heads DEF At, Shaped, Behind
  <2>2. pc'[t] \in Asking
    BY <1>3, <2>1, Tails DEF Asking
  <2>. QED  BY <1>1, <1>3, <1>4, <2>1, <2>2 DEF Unwritten
<1>5. CASE op = "alloc"
  <2>1. pc[t] = <<"writeAlloc">> /\ call[t].site \in Sites
    BY <1>1, <1>2, <1>3, <1>5, Heads DEF At, Shaped, Behind
  <2>2. pc'[t] = <<>>
    BY <1>3, <2>1, Tails
  <2>. QED  BY <1>1, <1>5, <2>1, <2>2
<1>. QED  BY <1>4, <1>5

(* The parser learns of the block that the call owns, and of no other. *)
LEMMA WriteStep == ASSUME IInv, NEW t \in Threads, Write(t) PROVE IInv'
<1>. DEFINE c == call[t]
<1>0. Typed /\ Nil \notin Addrs
  BY NamesOK DEF IInv
<1>1. /\ Done(t, c) /\ UNCHANGED <<phase, enabled, fd, open, heap, old, truth, failed>>
      /\ \/ pc[t] \in Unwritten /\ pc'[t] \in Asking /\ pc'[t] = Tail(pc[t])
         \/ pc[t] \in Behind /\ pc'[t] = <<>>
  BY <1>0, WriteIs DEF Behind
<1>2. /\ \A x \in Behind : x \notin Unwritten \cup Asking
      /\ \A x \in Asking : x \notin Unwritten \cup Behind /\ x # <<>>
      /\ \A x \in Unwritten : x # <<>>
      /\ <<>> \notin Unwritten \cup Asking \cup Behind
  BY Heads DEF Unwritten, Asking, Behind
<1>3. /\ Typed' /\ Owners' /\ Truths' /\ Failures'
      /\ \A u \in Threads \ {t} : pc'[u] = pc[u] /\ call'[u] = call[u] /\ Owns(u)' = Owns(u)
      /\ pc[t] \in Unwritten => call'[t] = c /\ Owns(t)' = Owns(t)
      /\ pc[t] \in Behind => Owns(t)' = {} /\ Owns(t) = Returned(c)
  BY <1>1, PassOwners
<1>4. Phases' /\ Flags'
  BY <1>1, <1>2 DEF IInv, Phases, Flags
<1>5. c \in Calls
  BY <1>0 DEF Typed
<1>6. CASE lost' = TRUE /\ parsed' = parsed
  BY <1>1, <1>3, <1>4, <1>6 DEF IInv, Known, Parsed
<1>7. CASE pc[t] \in Unwritten /\ lost' = lost /\ parsed' = ParseFree(c.p)
  <2>1. parsed' = IF c.p = Nil THEN parsed ELSE [parsed EXCEPT ![c.p] = None]
    BY <1>7 DEF ParseFree
  <2>2. \A p \in Addrs \cup {Nil} : parsed'[p] = IF p = c.p /\ c.p # Nil THEN None ELSE parsed[p]
    BY <2>1 DEF IInv, Parsed
  <2>3. Parsed'
    BY <1>1, <2>1, <2>2 DEF IInv, Parsed
  <2>4. c.p # Nil => c.p \in Owns(t) /\ c.p \in Addrs
    BY <1>0, <1>7, OwnPointers
  <2>5. \A u \in Threads \ {t} :
          /\ pc[u] \in Unwritten \cup Asking /\ call[u].p # Nil => call[u].p \in Addrs \ {c.p}
          /\ pc[u] \in Behind /\ call[u].q # Nil => call[u].q \in Addrs \ {c.p}
    <3>1. ASSUME NEW u \in Threads \ {t}, NEW p \in Owns(u) PROVE p \in Addrs \ {c.p}
      <4>1. p \in Addrs /\ Owns(t) \cap Owns(u) = {}
        BY <1>0, <3>1, OwnPointers DEF IInv, Owners
      <4>2. p # Nil
        BY <1>0, <4>1
      <4>. QED  BY <2>4, <4>1, <4>2
    <3>. QED  BY <1>0, <3>1, OwnPointers
  <2>6. Known'
    <3>. SUFFICES ASSUME phase \in {"new", "opened", "python"}, ~lost PROVE Known'
      BY <1>1, <1>7 DEF Known
    <3>1. \A p \in Addrs \ heap' : parsed'[p] = None
      BY <1>1, <2>2 DEF IInv, Known
    <3>2. \A u \in Threads : /\ pc'[u] \in Asking /\ call'[u].p # Nil => parsed'[call'[u].p] = None
                             /\ pc'[u] \in Behind /\ call'[u].q # Nil => parsed'[call'[u].q] = None
      <4>1. /\ pc'[t] \in Asking /\ call'[t].p # Nil => parsed'[call'[t].p] = None
            /\ pc'[t] \notin Behind
        BY <1>1, <1>2, <1>3, <1>7, <2>2, <2>4
      <4>2. ASSUME NEW u \in Threads \ {t}
            PROVE  /\ pc'[u] \in Asking /\ call'[u].p # Nil => parsed'[call'[u].p] = None
                   /\ pc'[u] \in Behind /\ call'[u].q # Nil => parsed'[call'[u].q] = None
        BY <1>3, <2>2, <2>5 DEF IInv, Known
      <4>. QED  BY <4>1, <4>2
    <3>3. \A p \in Addrs : p # c.p => Matches(p)' = Matches(p)
      BY <1>1, <2>2 DEF Matches
    <3>4. ASSUME ~failed, NEW p \in Addrs, \A u \in Threads : p \notin Owns(u)' PROVE Matches(p)'
      <4>1. \A u \in Threads : p \notin Owns(u)
        BY <1>3, <1>7, <3>4
      <4>2. p # c.p
        BY <1>0, <2>4, <4>1
      <4>. QED  BY <3>3, <3>4, <4>1, <4>2 DEF IInv, Known
    <3>5. ASSUME ~failed, NEW u \in Threads, pc'[u] \in Unwritten, call'[u].p # Nil
          PROVE  Matches(call[u].p)' /\ call'[u] = call[u]
      <4>1. u # t
        BY <1>1, <1>2, <1>7, <3>5
      <4>2. pc[u] \in Unwritten /\ call'[u] = call[u]
        BY <1>3, <3>5, <4>1
      <4>3. call[u].p \in Addrs \ {c.p} /\ Matches(call[u].p)
        BY <2>5, <3>5, <4>1, <4>2 DEF IInv, Known
      <4>. QED  BY <3>3, <4>2, <4>3
    <3>6. lost' = lost /\ UNCHANGED <<phase, failed, heap>>
      BY <1>1, <1>7
    <3>. QED  BY <3>1, <3>2, <3>4, <3>5, <3>6 DEF Known
  <2>. QED  BY <1>3, <1>4, <2>3, <2>6 DEF IInv
<1>8. CASE /\ pc[t] = <<"writeAlloc">> /\ pc'[t] = <<>> /\ c.site \in Sites /\ lost' = lost
           /\ parsed' = ParseAlloc(c.q, c.size, c.site)
  <2>1. pc[t] \in Behind /\ c.size \in Sizes \cup {0} /\ c.q \in Addrs \cup {Nil}
    BY <1>5, <1>8 DEF Behind, Calls
  <2>2. \A p \in Addrs \cup {Nil} : parsed'[p] = IF p = c.q THEN <<c.size, c.site>> ELSE parsed[p]
    BY <1>8, <2>1 DEF ParseAlloc, IInv, Parsed
  <2>3. Parsed'
    BY <1>1, <1>8, <2>1, <2>2 DEF ParseAlloc, IInv, Parsed
  <2>4. c.q # Nil => c.q \in Owns(t) /\ c.q \in heap /\ truth[c.q] = <<c.size, c.count, c.site>>
    BY <1>0, <2>1, OwnPointers DEF Typed, IInv, Truths
  <2>5. \A u \in Threads \ {t} :
          /\ pc[u] \in Unwritten \cup Asking /\ call[u].p # Nil => call[u].p \in Addrs \ {c.q}
          /\ pc[u] \in Behind /\ call[u].q # Nil => call[u].q \in Addrs \ {c.q}
    <3>1. ASSUME NEW u \in Threads \ {t}, NEW p \in Owns(u) PROVE p \in Addrs \ {c.q}
      <4>1. p \in Addrs /\ Owns(t) \cap Owns(u) = {}
        BY <1>0, <3>1, OwnPointers DEF IInv, Owners
      <4>2. p # Nil
        BY <1>0, <4>1
      <4>. QED  BY <2>4, <4>1, <4>2
    <3>. QED  BY <1>0, <3>1, OwnPointers
  <2>6. Known'
    <3>. SUFFICES ASSUME phase \in {"new", "opened", "python"}, ~lost PROVE Known'
      BY <1>1, <1>8 DEF Known
    <3>0. pc'[t] \notin Asking /\ pc'[t] \notin Behind /\ pc'[t] \notin Unwritten
      BY <1>2, <1>8
    <3>1. \A p \in Addrs \ heap' : parsed'[p] = None
      BY <1>0, <1>1, <2>2, <2>4 DEF IInv, Known
    <3>2. ASSUME NEW u \in Threads
          PROVE  /\ pc'[u] \in Asking /\ call'[u].p # Nil => parsed'[call'[u].p] = None
                 /\ pc'[u] \in Behind /\ call'[u].q # Nil => parsed'[call'[u].q] = None
      <4>1. CASE u = t
        BY <3>0, <4>1
      <4>2. CASE u # t
        BY <1>3, <2>2, <2>5, <4>2 DEF IInv, Known
      <4>. QED  BY <4>1, <4>2
    <3>3. \A p \in Addrs : p # c.q => Matches(p)' = Matches(p)
      BY <1>1, <2>2 DEF Matches
    <3>4. ASSUME ~failed, NEW p \in Addrs, \A u \in Threads : p \notin Owns(u)' PROVE Matches(p)'
      <4>1. CASE p = c.q
        <5>1. /\ truth'[p] = <<c.size, c.count, c.site>> /\ parsed'[p] = <<c.size, c.site>>
              /\ <<c.size, c.count, c.site>> # None
          BY <1>0, <1>1, <2>2, <2>4, <4>1, Heads DEF None
        <5>. QED  BY <5>1 DEF Matches
      <4>2. CASE p # c.q
        <5>1. Owns(t) = {c.q} \ {Nil}
          BY <2>1, <3>4 DEF IInv, Failures
        <5>2. \A u \in Threads : p \notin Owns(u)
          BY <1>3, <3>4, <4>2, <5>1
        <5>. QED  BY <3>3, <3>4, <4>2, <5>2 DEF IInv, Known
      <4>. QED  BY <4>1, <4>2
    <3>5. ASSUME ~failed, NEW u \in Threads, pc'[u] \in Unwritten, call'[u].p # Nil
          PROVE  Matches(call[u].p)' /\ call'[u] = call[u]
      <4>1. u # t
        BY <3>0, <3>5
      <4>2. pc[u] \in Unwritten /\ call'[u] = call[u]
        BY <1>3, <3>5, <4>1
      <4>3. call[u].p \in Addrs \ {c.q} /\ Matches(call[u].p)
        BY <2>5, <3>5, <4>1, <4>2 DEF IInv, Known
      <4>. QED  BY <3>3, <4>2, <4>3
    <3>6. lost' = lost /\ UNCHANGED <<phase, failed, heap>>
      BY <1>1, <1>8
    <3>. QED  BY <3>1, <3>2, <3>4, <3>5, <3>6 DEF Known
  <2>. QED  BY <1>3, <1>4, <2>3, <2>6 DEF IInv
<1>. QED  BY <1>0, <1>6, <1>7, <1>8, WriteIs

(* What libc does for a call c: it takes the block of gone, and gives the one   *)
(* of new, if any.  What the call owns then is new, or, when libc had no room   *)
(* for a realloc, still its old block.                                         *)
Exchange(t, c, gone, new) ==
  /\ gone \subseteq {c.p} \ {Nil} /\ new \subseteq (Addrs \ heap) \cup gone
  /\ heap' = (heap \ gone) \cup new /\ old' = old \ gone
  /\ truth' = [a \in Addrs |-> IF a \in new THEN <<c.size, c.count, c.site>>
                               ELSE IF a \in gone THEN None ELSE truth[a]]
  /\ failed => failed'
  /\ \/ pc'[t] = <<>> /\ c.kind = "free" /\ Done(t, c) /\ gone = {c.p} \ {Nil} /\ new = {}
     \/ /\ pc'[t] = <<"alloc">> /\ c.kind \in {"malloc", "realloc"}
        /\ \E q \in Addrs \cup {Nil} : Done(t, [c EXCEPT !.q = q]) /\ new = {q} \ {Nil}
        /\ ~failed' => gone = {c.p} \ {Nil}
        /\ new = {} /\ c.size # 0 => gone = {}

(* Every answer of libc is such an exchange. *)
LEMMA LibcIs ==
  ASSUME Typed, Parsed, NEW t \in Threads, Libc(t)
  PROVE  /\ UNCHANGED <<phase, enabled, fd, open, parsed, lost>>
         /\ pc[t] \in Asking
         /\ \E gone, new \in SUBSET Addrs : Exchange(t, call[t], gone, new)
<1>. DEFINE c == call[t]
<1>1. /\ UNCHANGED <<phase, enabled, fd, open, parsed, lost>> /\ At(t, "libc")
      /\ __libc_malloc(t, c) \/ __libc_free(t, c) \/ __libc_realloc(t, c)
  BY DEF Libc, globals
<1>2. Shaped(t) /\ c \in Calls /\ heap \subseteq Addrs /\ old \subseteq heap /\ Nil \notin Addrs
  BY NamesOK DEF Typed
<1>3. /\ c.q = Nil
      /\ \/ c.kind = "malloc" /\ c.p = Nil /\ pc[t] = <<"libc", "alloc">>
         \/ c.kind = "free" /\ pc[t] = <<"libc">>
         \/ c.kind = "realloc" /\ pc[t] = <<"libc", "alloc">>
  BY <1>1, <1>2, Heads DEF At, Shaped, Behind
<1>4. truth = [a \in Addrs |-> truth[a]] /\ [c EXCEPT !.q = Nil] = c /\ Tail(pc[t]) \in {<<>>, <<"alloc">>}
  BY <1>2, <1>3, Tails DEF Parsed, Calls
<1>5. /\ c.kind = "free" => Tail(pc[t]) = <<>>
      /\ c.kind # "free" => Tail(pc[t]) = <<"alloc">>
  BY <1>3, Tails
<1>6. pc[t] \in Asking
  BY <1>3 DEF Asking
<1>7. c.p \in Addrs \cup {Nil}
  BY <1>2 DEF Calls
<1>8. CASE c.kind = "free"
  <2>1. Take(c.p) /\ Done(t, c) /\ failed' = failed
    BY <1>1, <1>8 DEF __libc_malloc, __libc_free, __libc_realloc
  <2>2. pc'[t] = <<>>
    BY <1>5, <1>8, <2>1, DoneIs
  <2>3. Exchange(t, c, {c.p} \ {Nil}, {})
    BY <1>2, <1>4, <1>8, <2>1, <2>2 DEF Exchange, Take
  <2>. QED  BY <1>1, <1>6, <1>7, <2>3
<1>9. ASSUME c.kind # "free", Done(t, c), NoRoom, failed => failed', ~failed' => c.p = Nil
      PROVE  Exchange(t, c, {}, {})
  <2>1. pc'[t] = <<"alloc">>
    BY <1>5, <1>9, DoneIs
  <2>2. Done(t, [c EXCEPT !.q = Nil]) /\ c.kind \in {"malloc", "realloc"}
    BY <1>3, <1>4, <1>9
  <2>3. truth' = [a \in Addrs |-> IF a \in {} THEN <<c.size, c.count, c.site>>
                                  ELSE IF a \in {} THEN None ELSE truth[a]]
    BY <1>4, <1>9 DEF NoRoom
  <2>. QED  BY <1>9, <2>1, <2>2, <2>3 DEF Exchange, NoRoom
<1>10. ASSUME c.kind # "free", NEW q \in Addrs, Done(t, [c EXCEPT !.q = q]), Give(c.p, q, c),
              q \in Addrs \ heap \/ q = c.p, failed' = failed
       PROVE  Exchange(t, c, {c.p} \ {Nil}, {q})
  <2>1. pc'[t] = <<"alloc">>
    BY <1>5, <1>10, DoneIs
  <2>2. q # Nil /\ c.kind \in {"malloc", "realloc"} /\ {q} \ {Nil} = {q}
    BY <1>2, <1>3, <1>10
  <2>3. truth' = [a \in Addrs |-> IF a \in {q} THEN <<c.size, c.count, c.site>>
                                  ELSE IF a \in {c.p} \ {Nil} THEN None ELSE truth[a]]
    BY <1>2, <1>10 DEF Give
  <2>4. heap' = (heap \ ({c.p} \ {Nil})) \cup {q} /\ old' = old \ ({c.p} \ {Nil})
    BY <1>2, <1>10 DEF Give
  <2>. QED  BY <1>2, <1>10, <2>1, <2>2, <2>3, <2>4 DEF Exchange
<1>11. CASE c.kind = "malloc"
  <2>1. /\ failed' = failed /\ c.p = Nil
        /\ \/ NoRoom /\ Done(t, c)
           \/ \E q \in Addrs \ heap : Give(c.p, q, c) /\ Done(t, [c EXCEPT !.q = q])
    BY <1>1, <1>3, <1>11 DEF __libc_malloc, __libc_free, __libc_realloc
  <2>. QED  BY <1>1, <1>6, <1>7, <1>9, <1>10, <1>11, <2>1
<1>12. CASE c.kind = "realloc"
  <2>1. CASE c.p # Nil /\ c.size = 0
    <3>1. Take(c.p) /\ Done(t, c) /\ failed' = failed
      BY <1>1, <1>12, <2>1 DEF __libc_malloc, __libc_free, __libc_realloc
    <3>2. pc'[t] = <<"alloc">> /\ Done(t, [c EXCEPT !.q = Nil])
      BY <1>4, <1>5, <1>12, <3>1, DoneIs
    <3>3. /\ heap' = (heap \ ({c.p} \ {Nil})) \cup {} /\ old' = old \ ({c.p} \ {Nil})
          /\ truth' = [a \in Addrs |-> IF a \in {} THEN <<c.size, c.count, c.site>>
                                       ELSE IF a \in {c.p} \ {Nil} THEN None ELSE truth[a]]
      BY <1>2, <2>1, <3>1 DEF Take
    <3>4. \E q \in Addrs \cup {Nil} : Done(t, [c EXCEPT !.q = q]) /\ {} = {q} \ {Nil}
      <4>1. {} = {Nil} \ {Nil} /\ Nil \in Addrs \cup {Nil}
        OBVIOUS
      <4>. QED  BY <3>2, <4>1
    <3>5. Exchange(t, c, {c.p} \ {Nil}, {})
      BY <1>12, <2>1, <3>1, <3>2, <3>3, <3>4 DEF Exchange
    <3>. QED  BY <1>1, <1>6, <1>7, <3>5
  <2>2. CASE ~(c.p # Nil /\ c.size = 0)
    <3>1. \/ NoRoom /\ Done(t, c) /\ failed' = (failed \/ c.p # Nil)
          \/ \E q \in (Addrs \ heap) \cup ({c.p} \ {Nil}) :
               Give(c.p, q, c) /\ Done(t, [c EXCEPT !.q = q]) /\ failed' = failed
      BY <1>1, <1>12, <2>2 DEF __libc_malloc, __libc_free, __libc_realloc
    <3>. QED  BY <1>1, <1>6, <1>7, <1>9, <1>10, <1>12, <3>1
  <2>. QED  BY <2>1, <2>2
<1>. QED  BY <1>3, <1>8, <1>11, <1>12

(* What libc gives out was nobody's, and what it takes was the call's. *)
LEMMA ExchangeStep ==
  ASSUME IInv, NEW t \in Threads, pc[t] \in Asking,
         UNCHANGED <<phase, enabled, fd, open, parsed, lost>>,
         NEW gone \in SUBSET Addrs, NEW new \in SUBSET Addrs, Exchange(t, call[t], gone, new)
  PROVE  IInv'
<1>. DEFINE c == call[t]
<1>0. /\ Typed /\ Nil \notin Addrs /\ c \in Calls /\ Shaped(t)
      /\ \A x \in Behind : x \notin Unwritten \cup Asking
      /\ \A x \in Asking : x \notin Unwritten \cup Behind /\ x # <<>>
      /\ <<>> \notin Unwritten \cup Asking \cup Behind /\ <<"alloc">> \in Behind
  BY NamesOK, Heads DEF IInv, Typed, Unwritten, Asking, Behind
<1>1. /\ gone \subseteq {c.p} \ {Nil} /\ new \subseteq (Addrs \ heap) \cup gone
      /\ heap' = (heap \ gone) \cup new /\ old' = old \ gone /\ (failed => failed')
      /\ \A a \in Addrs : truth'[a] = IF a \in new THEN <<c.size, c.count, c.site>>
                                      ELSE IF a \in gone THEN None ELSE truth[a]
      /\ truth' = [a \in Addrs |-> truth'[a]]
  BY DEF Exchange
<1>2. Owns(t) = {c.p} \ {Nil} /\ Owns(t) \subseteq heap /\ gone \subseteq Owns(t)
  BY <1>0, <1>1 DEF Owns, Typed
<1>3. PICK d : /\ Done(t, d) /\ d \in Calls /\ d.q \in Addrs \cup {Nil} /\ d.kind = c.kind
               /\ d.p = c.p /\ d.size = c.size /\ d.count = c.count /\ d.site = c.site
               /\ \/ pc'[t] = <<>> /\ c.kind = "free" /\ gone = {c.p} \ {Nil} /\ new = {} /\ d.q = Nil
                  \/ /\ pc'[t] = <<"alloc">> /\ c.kind \in {"malloc", "realloc"} /\ new = {d.q} \ {Nil}
                     /\ ~failed' => gone = {c.p} \ {Nil}
                     /\ new = {} /\ c.size # 0 => gone = {}
  <2>1. CASE pc'[t] = <<>> /\ c.kind = "free" /\ Done(t, c) /\ gone = {c.p} \ {Nil} /\ new = {}
    <3>1. c.q = Nil
      BY <1>0, <2>1 DEF Shaped
    <3>. QED  BY <1>0, <2>1, <3>1
  <2>2. ASSUME NEW q \in Addrs \cup {Nil}, Done(t, [c EXCEPT !.q = q]), new = {q} \ {Nil},
               pc'[t] = <<"alloc">>, c.kind \in {"malloc", "realloc"},
               ~failed' => gone = {c.p} \ {Nil}, new = {} /\ c.size # 0 => gone = {}
        PROVE  /\ [c EXCEPT !.q = q] \in Calls /\ [c EXCEPT !.q = q].q = q
               /\ [c EXCEPT !.q = q].kind = c.kind /\ [c EXCEPT !.q = q].p = c.p
               /\ [c EXCEPT !.q = q].size = c.size /\ [c EXCEPT !.q = q].count = c.count
               /\ [c EXCEPT !.q = q].site = c.site
    BY <1>0, <2>2 DEF Calls
  <2>. QED  BY <2>1, <2>2 DEF Exchange
<1>4. /\ pc' = [u \in Threads |-> pc'[u]] /\ call' = [u \in Threads |-> call'[u]]
      /\ \A u \in Threads \ {t} : pc'[u] = pc[u] /\ call'[u] = call[u]
      /\ pc'[t] = <<>> => call'[t] = NoCall /\ held' = held \cup Returned(d)
      /\ pc'[t] # <<>> => call'[t] = d /\ held' = held
  BY <1>0, <1>3, DoneIs
<1>5. \A u \in Threads \ {t} : Owns(u)' = Owns(u) /\ Shaped(u)'
  BY <1>0, <1>4, SameOwner DEF Typed
<1>6. /\ Owns(t)' \subseteq new \cup (Owns(t) \ gone) /\ held' = held /\ (~failed' => Owns(t)' = new)
      /\ pc'[t] \in Behind => /\ pc'[t] = <<"alloc">> /\ call'[t] = d /\ new = {d.q} \ {Nil}
                              /\ d.q # Nil => d.q \in new
      /\ pc'[t] \in {<<>>, <<"alloc">>} /\ Shaped(t)' /\ call'[t] \in Calls
  <2>1. CASE pc'[t] = <<>>
    <3>1. Owns(t)' = {} /\ call'[t] = NoCall /\ NoCall \in Calls /\ pc'[t] \notin Behind
      BY <1>0, <1>4, <2>1 DEF Owns, NoCall, Call, Calls
    <3>2. Returned(d) = {} /\ new = {}
      BY <1>3, <2>1, Heads DEF Returned
    <3>. QED  BY <1>4, <2>1, <3>1, <3>2 DEF Shaped
  <2>2. CASE pc'[t] = <<"alloc">>
    <3>1. /\ pc'[t] # <<>> /\ call'[t] = d /\ held' = held /\ new = {d.q} \ {Nil}
          /\ c.kind \in {"malloc", "realloc"} /\ (~failed' => gone = {c.p} \ {Nil})
          /\ new = {} /\ c.size # 0 => gone = {}
      BY <1>3, <1>4, <2>2, Heads
    <3>2. Owns(t)' = Returned(d)
      <4>1. pc'[t] \in Behind /\ pc'[t] \notin Unwritten \cup Asking
        BY <1>0, <2>2
      <4>. QED  BY <3>1, <4>1 DEF Owns, Returned
    <3>3. Returned(d) = new \cup (IF d.kind = "realloc" /\ d.q = Nil /\ c.size # 0
                                  THEN {c.p} \ {Nil} ELSE {})
      BY <1>3, <3>1 DEF Returned
    <3>4. d.q = Nil => new = {}
      BY <3>1
    <3>5. Shaped(t)'
      <4>1. c.kind = "malloc" => c.p = Nil /\ c.site \in Sites
        BY <1>0, <3>1 DEF Shaped
      <4>2. c.kind = "realloc" => c.site \in Sites
        BY <1>0, <3>1 DEF Shaped
      <4>. QED  BY <1>0, <1>3, <2>2, <3>1, <4>1, <4>2 DEF Shaped
    <3>. QED  BY <1>2, <1>3, <2>2, <3>1, <3>2, <3>3, <3>4, <3>5
  <2>. QED  BY <1>3, <2>1, <2>2
<1>7. \A u \in Threads \ {t} : Owns(u) \cap gone = {} /\ Owns(u) \cap new = {} /\ Owns(u) \subseteq heap
  BY <1>0, <1>1, <1>2 DEF IInv, Owners, Typed
<1>8. held \cap gone = {} /\ held \cap new = {} /\ held \subseteq heap
  BY <1>0, <1>1, <1>2 DEF IInv, Owners, Typed
<1>9. Typed'
  <2>1. heap \subseteq Addrs /\ old \subseteq heap
    BY <1>0 DEF Typed
  <2>2. held' \subseteq heap' /\ old' \subseteq heap' /\ heap' \subseteq Addrs
    BY <1>1, <1>6, <1>8, <2>1
  <2>3. \A u \in Threads : Owns(u)' \subseteq heap'
    BY <1>1, <1>2, <1>5, <1>6, <1>7
  <2>4. call' \in [Threads -> Calls] /\ \A u \in Threads : Shaped(u)'
    BY <1>0, <1>4, <1>5, <1>6 DEF Typed
  <2>. QED  BY <1>4, <2>2, <2>3, <2>4 DEF Typed
<1>10. Owners'
  <2>1. Owns(t)' \cap held' = {}
    BY <1>2, <1>6, <1>8 DEF IInv, Owners
  <2>2. \A u \in Threads \ {t} : Owns(u)' \cap held' = {} /\ Owns(t)' \cap Owns(u)' = {}
    BY <1>2, <1>5, <1>6, <1>7 DEF IInv, Owners
  <2>. QED  BY <1>5, <2>1, <2>2 DEF IInv, Owners
<1>11. /\ \A a \in new : truth'[a] = <<c.size, c.count, c.site>> /\ truth'[a] # None /\ a \in heap' /\ a \notin old'
       /\ \A a \in gone \ new : truth'[a] = None /\ a \notin heap'
       /\ \A a \in Addrs \ (gone \cup new) : truth'[a] = truth[a] /\ (a \in heap' <=> a \in heap)
                                             /\ (a \in old' <=> a \in old)
  <2>1. <<c.size, c.count, c.site>> # None /\ old \subseteq heap
    BY <1>0, Heads DEF None, Typed
  <2>. QED  BY <1>1, <2>1
<1>12. \A u \in Threads \ {t} : /\ pc[u] \in Behind /\ call[u].q # Nil => call[u].q \in Addrs \ (gone \cup new)
                                /\ pc[u] \in Unwritten \cup Asking /\ call[u].p # Nil
                                     => call[u].p \in Addrs \ (gone \cup new)
  BY <1>0, <1>7, OwnPointers
<1>13. Truths'
  <2>1. \A a \in Addrs : (truth'[a] # None) = (a \in heap' \ old')
    BY <1>11 DEF IInv, Truths
  <2>2. \A u \in Threads : pc'[u] \in Behind /\ call'[u].q # Nil =>
          /\ call'[u].q \notin old'
          /\ truth'[call'[u].q] = <<call'[u].size, call'[u].count, call'[u].site>>
    <3>1. ASSUME NEW u \in Threads \ {t}, pc'[u] \in Behind, call'[u].q # Nil
          PROVE  /\ call'[u].q \notin old'
                 /\ truth'[call'[u].q] = <<call'[u].size, call'[u].count, call'[u].site>>
      <4>1. pc'[u] = pc[u] /\ call'[u] = call[u]
        BY <1>4
      <4>2. call[u].q \in Addrs \ (gone \cup new)
        BY <1>12, <3>1, <4>1
      <4>3. call[u].q \notin old /\ truth[call[u].q] = <<call[u].size, call[u].count, call[u].site>>
        BY <3>1, <4>1 DEF IInv, Truths
      <4>4. truth'[call[u].q] = truth[call[u].q] /\ call[u].q \notin old'
        BY <1>11, <4>2, <4>3
      <4>. QED  BY <4>1, <4>3, <4>4
    <3>2. pc'[t] \in Behind /\ call'[t].q # Nil =>
            /\ call'[t].q \notin old'
            /\ truth'[call'[t].q] = <<call'[t].size, call'[t].count, call'[t].site>>
      BY <1>3, <1>6, <1>11
    <3>. QED  BY <3>1, <3>2
  <2>. QED  BY <2>1, <2>2 DEF Truths
<1>14. Failures'
  <2>1. pc'[t] \in Behind /\ ~failed' => Owns(t)' = {call'[t].q} \ {Nil}
    BY <1>6
  <2>. QED  BY <1>1, <1>4, <1>5, <2>1 DEF IInv, Failures
<1>15. Phases' /\ Flags' /\ Parsed'
  BY <1>0, <1>1 DEF IInv, Phases, Flags, Parsed
<1>16. Known'
  <2>. SUFFICES ASSUME phase = "python", ~lost PROVE Known'
    BY <1>0 DEF Known, IInv, Phases
  <2>1. c.p # Nil => parsed[c.p] = None
    BY DEF IInv, Known
  <2>2. \A a \in new \cup gone : parsed[a] = None
    BY <1>1, <2>1 DEF IInv, Known
  <2>3. \A a \in Addrs \ heap' : parsed'[a] = None
    BY <1>1, <2>2 DEF IInv, Known
  <2>4. ASSUME NEW u \in Threads
        PROVE  /\ pc'[u] \in Asking /\ call'[u].p # Nil => parsed'[call'[u].p] = None
               /\ pc'[u] \in Behind /\ call'[u].q # Nil => parsed'[call'[u].q] = None
    <3>1. CASE u = t
      BY <1>0, <1>6, <2>2, <3>1
    <3>2. CASE u # t
      BY <1>4, <3>2 DEF IInv, Known
    <3>. QED  BY <3>1, <3>2
  <2>5. \A a \in Addrs \ (gone \cup new) : Matches(a)' = Matches(a)
    BY <1>11 DEF Matches
  <2>6. ASSUME ~failed', NEW a \in Addrs, \A u \in Threads : a \notin Owns(u)' PROVE Matches(a)'
    <3>1. a \notin new /\ ~failed /\ gone = {c.p} \ {Nil}
      BY <1>1, <1>2, <1>3, <1>6, <2>6
    <3>2. CASE a \in gone
      BY <1>11, <2>2, <3>1, <3>2 DEF Matches
    <3>3. CASE a \notin gone
      <4>1. \A u \in Threads : a \notin Owns(u)
        BY <1>2, <1>5, <2>6, <3>1, <3>3
      <4>. QED  BY <2>5, <3>1, <3>3, <4>1 DEF IInv, Known
    <3>. QED  BY <3>2, <3>3
  <2>7. ASSUME ~failed', NEW u \in Threads, pc'[u] \in Unwritten, call'[u].p # Nil
        PROVE  Matches(call[u].p)' /\ call'[u] = call[u]
    <3>1. u # t
      BY <1>0, <1>6, <2>7
    <3>2. call'[u] = call[u] /\ pc[u] \in Unwritten
      BY <1>4, <2>7, <3>1
    <3>3. call[u].p \in Addrs \ (gone \cup new) /\ Matches(call[u].p)
      BY <1>1, <1>12, <2>7, <3>1, <3>2 DEF IInv, Known
    <3>. QED  BY <2>5, <3>2, <3>3
  <2>. QED  BY <2>3, <2>4, <2>6, <2>7 DEF Known
<1>. QED  BY <1>9, <1>10, <1>13, <1>14, <1>15, <1>16 DEF IInv

(* main() runs no call, and the tracing does not begin a second time. *)
LEMMA MainStep ==
  ASSUME IInv, MainSteps \/ (\E t \in Threads : Abort(t)) \/ UNCHANGED vars
  PROVE  IInv'
<1>1. UNCHANGED <<program, pc, call, parsed, lost>>
  BY DEF MainSteps, malloc_trace_start, Py_Main, malloc_trace_stop, Close, Forget, Main_, Abort, vars
<1>2. /\ \/ phase' = phase /\ enabled' = enabled
         \/ phase = "new" /\ phase' = "opened"
         \/ phase = "opened" /\ phase' = "python" /\ enabled'
         \/ phase' \in {"stopping", "closed", "ended", "aborted"}
      /\ Flags'
  BY DEF IInv, Flags, MainSteps, malloc_trace_start, Py_Main, malloc_trace_stop, Close, Forget,
         Main_, Abort, vars, globals
<1>3. Typed' /\ Owners' /\ Truths' /\ Failures' /\ Parsed'
  BY <1>1 DEF IInv, Typed, Shaped, Owns, Owners, Truths, Failures, Parsed, program
<1>4. Phases'
  BY <1>1, <1>2 DEF IInv, Phases
<1>5. Known'
  BY <1>1, <1>2 DEF IInv, Known, Matches, Owns, program
<1>. QED  BY <1>2, <1>3, <1>4, <1>5 DEF IInv

(* A call that the program makes is well formed. *)
LEMMA CallStep ==
  ASSUME IInv, NEW t \in Threads, malloc(t) \/ free(t) \/ realloc(t)
  PROVE  IInv'
<1>0. held \subseteq Addrs
  BY DEF IInv, Typed
<1>1. CASE malloc(t)
  <2>1. PICK size \in Sizes, count \in Counts, site \in Sites :
          Begin(t, Call("malloc", Nil, size, count, site)) /\ held' = held
    BY <1>1 DEF malloc
  <2>. DEFINE c == Call("malloc", Nil, size, count, site)
  <2>2. c \in Calls /\ c.kind = "malloc" /\ c.p = Nil /\ c.q = Nil /\ c.site \in Sites
    BY DEF Call, Calls
  <2>3. held' = held \ {c.p}
    BY <1>0, <2>1, <2>2, NamesOK
  <2>. HIDE DEF c
  <2>. QED  BY <2>1, <2>2, <2>3, BeginStep DEF c
<1>2. CASE free(t)
  BY <1>0, <1>2, BeginStep DEF free, Call, Calls
<1>3. CASE realloc(t)
  BY <1>0, <1>3, BeginStep DEF realloc, Call, Calls
<1>. QED  BY <1>1, <1>2, <1>3

(* libc exchanges blocks. *)
LEMMA LibcStep == ASSUME IInv, NEW t \in Threads, Libc(t) PROVE IInv'
<1>1. Typed /\ Parsed
  BY DEF IInv
<1>. QED  BY <1>1, LibcIs, ExchangeStep

(* Before the program runs, nobody has a block but the program. *)
LEMMA Initially == Init => IInv
<1>. SUFFICES ASSUME Init PROVE IInv
  OBVIOUS
<1>1. \A t \in Threads : pc[t] = <<>> /\ call[t] = NoCall /\ Owns(t) = {} /\ Shaped(t)
  BY Heads DEF Init, Owns, Shaped, Unwritten, Asking, Behind
<1>2. NoCall \in Calls
  BY DEF NoCall, Call, Calls
<1>3. \A x \in Unwritten \cup Asking \cup Behind : x # <<>>
  BY Heads DEF Unwritten, Asking, Behind
<1>4. Typed /\ Owners
  BY <1>1, <1>2 DEF Init, Typed, Owners
<1>5. Truths /\ Failures
  BY <1>1, <1>3 DEF Init, Truths, Failures
<1>6. Phases /\ Flags
  BY <1>1 DEF Init, Phases, Flags
<1>7. Parsed
  <2>1. parsed = [p \in Addrs \cup {Nil} |-> None] /\ truth = [p \in Addrs |-> None]
    BY DEF Init
  <2>. QED  BY <2>1 DEF Parsed
<1>8. Known
  BY <1>1, <1>3 DEF Init, Known, Matches
<1>. QED  BY <1>4, <1>5, <1>6, <1>7, <1>8 DEF IInv

(* Every step keeps the invariant. *)
LEMMA Inductive == IInv /\ [Next]_vars => IInv'
<1>. SUFFICES ASSUME IInv, [Next]_vars PROVE IInv'
  OBVIOUS
<1>1. CASE MainSteps \/ (\E t \in Threads : Abort(t)) \/ UNCHANGED vars
  BY <1>1, MainStep
<1>2. ASSUME NEW t \in Threads, malloc(t) \/ free(t) \/ realloc(t) PROVE IInv'
  BY <1>2, CallStep
<1>3. ASSUME NEW t \in Threads, Libc(t) PROVE IInv'
  BY <1>3, LibcStep
<1>4. ASSUME NEW t \in Threads, Check(t) PROVE IInv'
  BY <1>4, CheckStep
<1>5. ASSUME NEW t \in Threads, Write(t) PROVE IInv'
  BY <1>5, WriteStep
<1>. QED  BY <1>1, <1>2, <1>3, <1>4, <1>5 DEF Next

(* It holds always. *)
LEMMA Invariant == Spec => []IInv
  BY Initially, Inductive, PTL DEF Spec

-----------------------------------------------------------------------------
(* Every variable has its type, and the program and the calls in progress    *)
(* refer to blocks that libc has given out (py_malloc_trace.cpp:178-275).    *)
THEOREM TypeCorrect == Spec => []TypeOK
<1>1. IInv => TypeOK
  <2>. SUFFICES ASSUME IInv PROVE TypeOK
    OBVIOUS
  <2>1. \A t \in Threads : /\ call[t].p \in Addrs \cup {Nil} /\ call[t].q \in heap \cup {Nil}
                           /\ call[t].size \in Sizes \cup {0}
    <3>. SUFFICES ASSUME NEW t \in Threads
                  PROVE  /\ call[t].p \in Addrs \cup {Nil} /\ call[t].q \in heap \cup {Nil}
                         /\ call[t].size \in Sizes \cup {0}
      OBVIOUS
    <3>1. call[t] \in Calls /\ Shaped(t) /\ Owns(t) \subseteq heap
      BY DEF IInv, Typed
    <3>2. CASE pc[t] \in Behind
      <4>1. call[t].q # Nil => call[t].q \in Owns(t)
        BY <3>2, OwnPointers DEF IInv
      <4>. QED  BY <3>1, <4>1 DEF Calls
    <3>3. CASE pc[t] \notin Behind
      <4>1. call[t].q = Nil
        BY <3>1, <3>3 DEF Shaped, NoCall, Call
      <4>. QED  BY <3>1, <4>1 DEF Calls
    <3>. QED  BY <3>2, <3>3
  <2>. QED  BY <2>1 DEF IInv, Typed, Truths, Flags, Parsed, TypeOK
<1>. QED  BY <1>1, Invariant, PTL

(* What the parser makes of the log is what the program has allocated and not  *)
(* freed, but for the blocks of the calls in progress: any number of threads   *)
(* may log in any order, and libc may give a block out again at once, because  *)
(* a block is logged as freed before libc has it and as allocated after        *)
(* (py_malloc_trace.cpp:178-275, parse_malloc_trace_log.py:203-222).           *)
THEOREM ReportIsTrueHolds == Spec => []ReportIsTrue
<1>1. IInv => ReportIsTrue
  <2>. SUFFICES ASSUME IInv, Complete, NEW p \in Addrs, ~Busy(p) PROVE Matches(p)
    BY DEF ReportIsTrue, Matches
  <2>1. ASSUME NEW t \in Threads PROVE p \notin Owns(t)
    <3>1. Nil \notin Addrs
      BY NamesOK
    <3>2. CASE pc[t] = <<>>
      BY <3>2, Heads DEF Owns, Unwritten, Asking, Behind
    <3>3. CASE pc[t] # <<>>
      <4>1. p # call[t].p /\ p # call[t].q
        BY <3>3 DEF Busy
      <4>. QED  BY <4>1 DEF Owns, Returned
    <3>. QED  BY <3>2, <3>3
  <2>. QED  BY <2>1 DEF IInv, Known, Complete
<1>. QED  BY <1>1, Invariant, PTL

(* The warnings of the parser mean what they say: a block is not known when    *)
(* its allocation is logged, and known, or older than the tracing, when it is  *)
(* logged as freed (parse_malloc_trace_log.py:208-220).                        *)
THEOREM NoFalseAlarmHolds == Spec => []NoFalseAlarm
<1>1. IInv => NoFalseAlarm
  <2>. SUFFICES ASSUME IInv, phase = "python", ~lost, NEW t \in Threads
                PROVE  /\ At(t, "writeAlloc") /\ call[t].q # Nil => parsed[call[t].q] = None
                       /\ At(t, "writeFree") /\ call[t].p # Nil /\ ~failed =>
                            parsed[call[t].p] # None \/ call[t].p \in old
    BY DEF NoFalseAlarm
  <2>1. Shaped(t) /\ call[t] \in Calls /\ Owns(t) \subseteq heap /\ heap \subseteq Addrs
    BY DEF IInv, Typed
  <2>2. ASSUME At(t, "writeAlloc"), call[t].q # Nil PROVE parsed[call[t].q] = None
    <3>1. pc[t] \in Behind
      BY <2>1, <2>2, Heads DEF At, Shaped
    <3>. QED  BY <2>2, <3>1 DEF IInv, Known
  <2>3. ASSUME At(t, "writeFree"), call[t].p # Nil, ~failed
        PROVE  parsed[call[t].p] # None \/ call[t].p \in old
    <3>1. pc[t] \in Unwritten
      BY <2>1, <2>3, Heads DEF At, Shaped, Behind, Unwritten
    <3>2. Matches(call[t].p) /\ call[t].p \in heap /\ call[t].p \in Addrs
      BY <2>1, <2>3, <3>1 DEF IInv, Known, Owns
    <3>3. call[t].p \notin old => truth[call[t].p] # None
      BY <3>2 DEF IInv, Truths
    <3>4. \A a, b : <<a, b>> # None
      BY Heads DEF None
    <3>. QED  BY <3>2, <3>3, <3>4 DEF Matches
  <2>. QED  BY <2>2, <2>3
<1>. QED  BY <1>1, Invariant, PTL

-----------------------------------------------------------------------------
(* Sums over finite sets.                                                  *)

(* Of some subsets of a finite set, one has no other one inside. *)
LEMMA LeastSubset ==
  ASSUME NEW S, IsFiniteSet(S), NEW T \in SUBSET (SUBSET S), T # {}
  PROVE  \E Q \in T : \A P \in T : P \subseteq Q => P = Q
<1>1. IsWellFoundedOn(StrictSubsetOrdering(S), SUBSET S)
  BY FS_StrictSubsetOrderingWellFounded, FS_FiniteSubsetsOfFinite
<1>2. PICK Q \in T : \A P \in T : ~ (<<P, Q>> \in StrictSubsetOrdering(S))
  BY <1>1, WFMin
<1>3. ASSUME NEW P \in T, P \subseteq Q, P # Q PROVE FALSE
  <2>1. <<P, Q>> \in StrictSubsetOrdering(S)
    BY <1>3 DEF StrictSubsetOrdering
  <2>. QED  BY <1>2, <2>1
<1>. QED  BY <1>3

(* If {} is in T, and with a subset the one that has an element more, T has all. *)
LEMMA AllSubsets ==
  ASSUME NEW S, IsFiniteSet(S), NEW T \in SUBSET (SUBSET S), {} \in T,
         \A Q \in T : \A x \in S \ Q : Q \cup {x} \in T
  PROVE  T = SUBSET S
<1>. SUFFICES ASSUME (SUBSET S) \ T # {} PROVE FALSE
  OBVIOUS
<1>. DEFINE U == (SUBSET S) \ T
<1>1. PICK Q \in U : \A P \in U : P \subseteq Q => P = Q
  <2>1. U \in SUBSET (SUBSET S) /\ U # {}
    OBVIOUS
  <2>. HIDE DEF U
  <2>. QED  BY <2>1, LeastSubset
<1>2. PICK x \in Q : TRUE
  BY <1>1
<1>3. /\ Q \ {x} \subseteq Q /\ Q \ {x} # Q /\ Q \ {x} \in SUBSET S
      /\ x \in S \ (Q \ {x}) /\ Q = (Q \ {x}) \cup {x}
  BY <1>1, <1>2
<1>4. Q \ {x} \in T
  BY <1>1, <1>3
<1>5. (Q \ {x}) \cup {x} \in T
  BY <1>3, <1>4
<1>. QED  BY <1>1, <1>3, <1>5

Sum(f, S) == SumFunctionOnSet(f, S)

Any(S) == CHOOSE x \in S : TRUE
Summand(f, g, Q) == IF Q = {} THEN 0 ELSE f[Any(Q)] + g[Q \ {Any(Q)}]
Sums(f, S) == CHOOSE g : g = [Q \in SUBSET S |-> Summand(f, g, Q)]

(* The function that SumFunctionOnSet iterates exists. *)
LEMMA SumsAre ==
  ASSUME NEW S, IsFiniteSet(S), NEW f
  PROVE  \A Q \in SUBSET S : Sums(f, S)[Q] = Summand(f, Sums(f, S), Q)
<1>. DEFINE T == {P \in SUBSET S : \E g : \A Q \in SUBSET S :
                    Cardinality(Q) <= Cardinality(P) => g[Q] = Summand(f, g, Q)}
<1>1. \A Q \in SUBSET S : IsFiniteSet(Q) /\ Cardinality(Q) \in Nat /\ (Cardinality(Q) = 0 <=> Q = {})
  BY FS_Subset, FS_CardinalityType, FS_EmptySet
<1>2. {} \in T
  <2>. DEFINE g == [Q \in SUBSET S |-> 0]
  <2>1. \A Q \in SUBSET S : Cardinality(Q) <= Cardinality({}) => g[Q] = Summand(f, g, Q)
    BY <1>1 DEF Summand
  <2>. QED  BY <2>1
<1>3. ASSUME NEW P \in T, NEW x \in S \ P PROVE P \cup {x} \in T
  <2>1. PICK g : \A Q \in SUBSET S : Cardinality(Q) <= Cardinality(P) => g[Q] = Summand(f, g, Q)
    OBVIOUS
  <2>. DEFINE h == [Q \in SUBSET S |-> Summand(f, g, Q)]
  <2>2. P \in SUBSET S /\ Cardinality(P \cup {x}) = Cardinality(P) + 1
    BY <1>1, FS_AddElement
  <2>3. ASSUME NEW Q \in SUBSET S, Cardinality(Q) <= Cardinality(P) + 1
        PROVE  h[Q] = Summand(f, h, Q)
    <3>1. CASE Q = {}
      BY <3>1 DEF Summand
    <3>2. CASE Q # {}
      <4>. DEFINE R == Q \ {Any(Q)}
      <4>1. Any(Q) \in Q
        BY <3>2 DEF Any
      <4>2. Cardinality(R) = Cardinality(Q) - 1 /\ R \in SUBSET S
        BY <1>1, <4>1, FS_RemoveElement
      <4>3. Cardinality(R) <= Cardinality(P)
        BY <1>1, <2>2, <2>3, <4>2
      <4>. HIDE DEF R
      <4>4. g[R] = h[R]
        BY <2>1, <4>2, <4>3
      <4>. QED  BY <3>2, <4>4 DEF Summand, R
    <3>. QED  BY <3>1, <3>2
  <2>. HIDE DEF h
  <2>4. \A Q \in SUBSET S : Cardinality(Q) <= Cardinality(P \cup {x}) => h[Q] = Summand(f, h, Q)
    BY <2>2, <2>3
  <2>. QED  BY <2>4
<1>4. T = SUBSET S
  <2>1. T \in SUBSET (SUBSET S)
    OBVIOUS
  <2>. HIDE DEF T
  <2>. QED  BY <1>2, <1>3, <2>1, AllSubsets
<1>5. PICK g : \A Q \in SUBSET S : Cardinality(Q) <= Cardinality(S) => g[Q] = Summand(f, g, Q)
  BY <1>4
<1>. DEFINE h == [Q \in SUBSET S |-> g[Q]]
<1>6. ASSUME NEW Q \in SUBSET S PROVE h[Q] = Summand(f, h, Q)
  <2>1. Cardinality(Q) <= Cardinality(S)
    BY FS_Subset
  <2>2. g[Q] = Summand(f, g, Q)
    BY <1>5, <2>1
  <2>. QED  BY <2>2 DEF Summand
<1>7. h = [Q \in SUBSET S |-> Summand(f, h, Q)]
  BY <1>6
<1>. HIDE DEF h
<1>8. Sums(f, S) = [Q \in SUBSET S |-> Summand(f, Sums(f, S), Q)]
  BY <1>7 DEF Sums
<1>. DEFINE k == Sums(f, S)
<1>. HIDE DEF k
<1>9. k = [Q \in SUBSET S |-> Summand(f, k, Q)]
  BY <1>8 DEF k
<1>10. \A Q \in SUBSET S : k[Q] = Summand(f, k, Q)
  BY <1>9
<1>. QED  BY <1>10 DEF k

(* It does not depend on the set that it begins with. *)
LEMMA SumsAgree ==
  ASSUME NEW S, IsFiniteSet(S), NEW f, NEW P \in SUBSET S
  PROVE  \A Q \in SUBSET P : Sums(f, P)[Q] = Sums(f, S)[Q]
<1>. DEFINE T == {Q \in SUBSET P : Sums(f, P)[Q] # Sums(f, S)[Q]}
<1>. SUFFICES ASSUME T # {} PROVE FALSE
  OBVIOUS
<1>1. IsFiniteSet(P) /\ T \in SUBSET (SUBSET P)
  BY FS_Subset
<1>2. PICK Q \in T : \A R \in T : R \subseteq Q => R = Q
  <2>. HIDE DEF T
  <2>. QED  BY <1>1, LeastSubset
<1>3. /\ Sums(f, P)[Q] = Summand(f, Sums(f, P), Q)
      /\ Sums(f, S)[Q] = Summand(f, Sums(f, S), Q)
  BY <1>1, SumsAre
<1>4. Q # {}
  BY <1>2, <1>3 DEF Summand
<1>5. Any(Q) \in Q
  BY <1>4 DEF Any
<1>6. Sums(f, P)[Q \ {Any(Q)}] = Sums(f, S)[Q \ {Any(Q)}]
  BY <1>2, <1>5
<1>. QED  BY <1>2, <1>3, <1>6 DEF Summand

(* A sum is 0, or some element's value and the sum of the others. *)
LEMMA SumIs ==
  ASSUME NEW S, IsFiniteSet(S), NEW f
  PROVE  Sum(f, S) = IF S = {} THEN 0 ELSE f[Any(S)] + Sum(f, S \ {Any(S)})
<1>1. \A R : Sum(f, R) = Sums(f, R)[R]
  BY DEF Sum, SumFunctionOnSet, FoldFunctionOnSet, MapThenFoldSet, Sums, Summand, Any
<1>2. Sums(f, S)[S] = Summand(f, Sums(f, S), S)
  BY SumsAre
<1>3. S # {} => Sums(f, S \ {Any(S)})[S \ {Any(S)}] = Sums(f, S)[S \ {Any(S)}]
  BY SumsAgree
<1>. QED  BY <1>1, <1>2, <1>3 DEF Summand

(* The sum of naturals is one. *)
LEMMA SumNat ==
  ASSUME NEW S, IsFiniteSet(S), NEW f, \A x \in S : f[x] \in Nat
  PROVE  \A Q \in SUBSET S : Sum(f, Q) \in Nat
<1>. DEFINE T == {Q \in SUBSET S : Sum(f, Q) \notin Nat}
<1>. SUFFICES ASSUME T # {} PROVE FALSE
  OBVIOUS
<1>1. PICK Q \in T : \A R \in T : R \subseteq Q => R = Q
  <2>1. T \in SUBSET (SUBSET S)
    OBVIOUS
  <2>. HIDE DEF T
  <2>. QED  BY <2>1, LeastSubset
<1>2. Sum(f, Q) = IF Q = {} THEN 0 ELSE f[Any(Q)] + Sum(f, Q \ {Any(Q)})
  <2>1. IsFiniteSet(Q)
    BY FS_Subset
  <2>. QED  BY <2>1, SumIs
<1>3. CASE Q = {}
  BY <1>1, <1>2, <1>3
<1>4. CASE Q # {}
  <2>1. Any(Q) \in Q
    BY <1>4 DEF Any
  <2>2. Sum(f, Q \ {Any(Q)}) \in Nat
    BY <1>1, <2>1
  <2>. QED  BY <1>1, <1>2, <1>4, <2>1, <2>2
<1>. QED  BY <1>3, <1>4

(* Any element can be taken out of a sum. *)
LEMMA SumWithout ==
  ASSUME NEW S, IsFiniteSet(S), NEW f, \A x \in S : f[x] \in Nat
  PROVE  \A Q \in SUBSET S : \A x \in Q : Sum(f, Q) = f[x] + Sum(f, Q \ {x})
<1>. DEFINE T == {Q \in SUBSET S : \E x \in Q : Sum(f, Q) # f[x] + Sum(f, Q \ {x})}
<1>. SUFFICES ASSUME T # {} PROVE FALSE
  OBVIOUS
<1>1. PICK Q \in T : \A R \in T : R \subseteq Q => R = Q
  <2>1. T \in SUBSET (SUBSET S)
    OBVIOUS
  <2>. HIDE DEF T
  <2>. QED  BY <2>1, LeastSubset
<1>2. PICK x \in Q : Sum(f, Q) # f[x] + Sum(f, Q \ {x})
  BY <1>1
<1>. DEFINE y == Any(Q)
            R == (Q \ {x}) \ {y}
<1>3. y \in Q /\ Sum(f, Q) = f[y] + Sum(f, Q \ {y})
  <2>1. IsFiniteSet(Q) /\ y \in Q
    BY FS_Subset DEF Any
  <2>. QED  BY <2>1, SumIs
<1>. HIDE DEF y
<1>4. x # y
  BY <1>2, <1>3
<1>5. Sum(f, Q \ {y}) = f[x] + Sum(f, R)
  <2>1. Q \ {y} \notin T /\ x \in Q \ {y} /\ R = (Q \ {y}) \ {x}
    BY <1>1, <1>3, <1>4
  <2>. QED  BY <2>1
<1>6. Sum(f, Q \ {x}) = f[y] + Sum(f, R)
  <2>1. Q \ {x} \notin T /\ y \in Q \ {x}
    BY <1>1, <1>3, <1>4
  <2>. QED  BY <2>1
<1>7. f[x] \in Nat /\ f[y] \in Nat /\ Sum(f, R) \in Nat
  <2>1. R \in SUBSET S
    OBVIOUS
  <2>. HIDE DEF R
  <2>. QED  BY <1>3, <2>1, SumNat
<1>. HIDE DEF R
<1>. QED  BY <1>2, <1>3, <1>5, <1>6, <1>7

(* A sum depends on the values of its elements only. *)
LEMMA SumSame ==
  ASSUME NEW S, IsFiniteSet(S), NEW f, NEW g, \A x \in S : f[x] = g[x]
  PROVE  \A Q \in SUBSET S : Sum(f, Q) = Sum(g, Q)
<1>. DEFINE T == {Q \in SUBSET S : Sum(f, Q) # Sum(g, Q)}
<1>. SUFFICES ASSUME T # {} PROVE FALSE
  OBVIOUS
<1>1. PICK Q \in T : \A R \in T : R \subseteq Q => R = Q
  <2>1. T \in SUBSET (SUBSET S)
    OBVIOUS
  <2>. HIDE DEF T
  <2>. QED  BY <2>1, LeastSubset
<1>2. /\ Sum(f, Q) = IF Q = {} THEN 0 ELSE f[Any(Q)] + Sum(f, Q \ {Any(Q)})
      /\ Sum(g, Q) = IF Q = {} THEN 0 ELSE g[Any(Q)] + Sum(g, Q \ {Any(Q)})
  <2>1. IsFiniteSet(Q)
    BY FS_Subset
  <2>. QED  BY <2>1, SumIs
<1>3. CASE Q = {}
  BY <1>1, <1>2, <1>3
<1>4. CASE Q # {}
  <2>1. Any(Q) \in Q
    BY <1>4 DEF Any
  <2>2. Sum(f, Q \ {Any(Q)}) = Sum(g, Q \ {Any(Q)}) /\ f[Any(Q)] = g[Any(Q)]
    BY <1>1, <2>1
  <2>. QED  BY <1>1, <1>2, <1>4, <2>2
<1>. QED  BY <1>3, <1>4

(* The sum of sums of two values is the sum of the two sums. *)
LEMMA SumPlus ==
  ASSUME NEW S, IsFiniteSet(S), NEW f, NEW g, NEW h,
         \A x \in S : f[x] \in Int /\ g[x] \in Int /\ h[x] = f[x] + g[x]
  PROVE  \A Q \in SUBSET S : /\ Sum(f, Q) \in Int /\ Sum(g, Q) \in Int
                             /\ Sum(h, Q) = Sum(f, Q) + Sum(g, Q)
<1>. DEFINE Adds(Q) == /\ Sum(f, Q) \in Int /\ Sum(g, Q) \in Int
                       /\ Sum(h, Q) = Sum(f, Q) + Sum(g, Q)
            T == {Q \in SUBSET S : ~Adds(Q)}
<1>. SUFFICES ASSUME T # {} PROVE FALSE
  OBVIOUS
<1>1. PICK Q \in T : \A R \in T : R \subseteq Q => R = Q
  <2>1. T \in SUBSET (SUBSET S)
    OBVIOUS
  <2>. HIDE DEF T
  <2>. QED  BY <2>1, LeastSubset
<1>2. /\ Sum(f, Q) = IF Q = {} THEN 0 ELSE f[Any(Q)] + Sum(f, Q \ {Any(Q)})
      /\ Sum(g, Q) = IF Q = {} THEN 0 ELSE g[Any(Q)] + Sum(g, Q \ {Any(Q)})
      /\ Sum(h, Q) = IF Q = {} THEN 0 ELSE h[Any(Q)] + Sum(h, Q \ {Any(Q)})
  <2>1. IsFiniteSet(Q)
    BY FS_Subset
  <2>. QED  BY <2>1, SumIs
<1>3. CASE Q = {}
  BY <1>1, <1>2, <1>3
<1>4. CASE Q # {}
  <2>1. Any(Q) \in Q
    BY <1>4 DEF Any
  <2>2. /\ Adds(Q \ {Any(Q)}) /\ f[Any(Q)] \in Int /\ g[Any(Q)] \in Int
        /\ h[Any(Q)] = f[Any(Q)] + g[Any(Q)]
    BY <1>1, <2>1
  <2>. QED  BY <1>1, <1>2, <1>4, <2>2
<1>. QED  BY <1>3, <1>4

(* The elements with key s, and the sum over the keys of the sums per key. *)
Keyed(Q, key, s) == {p \in Q : key[p] = s}
PerKey(w, Q, key, D) == [s \in D |-> Sum(w, Keyed(Q, key, s))]

(* A sum may be made key by key. *)
LEMMA SumByKey ==
  ASSUME NEW S, IsFiniteSet(S), NEW w, \A p \in S : w[p] \in Nat,
         NEW D, IsFiniteSet(D), NEW key, \A p \in S : key[p] \in D
  PROVE  Sum(PerKey(w, S, key, D), D) = Sum(w, S)
<1>. DEFINE g(Q) == PerKey(w, Q, key, D)
            T == {Q \in SUBSET S : Sum(g(Q), D) = Sum(w, Q)}
<1>0. \A Q \in SUBSET S : IsFiniteSet(Q) /\ \A s \in D : g(Q)[s] = Sum(w, Keyed(Q, key, s)) /\ g(Q)[s] \in Nat
  <2>. SUFFICES ASSUME NEW Q \in SUBSET S
                PROVE  IsFiniteSet(Q) /\ \A s \in D : g(Q)[s] = Sum(w, Keyed(Q, key, s)) /\ g(Q)[s] \in Nat
    OBVIOUS
  <2>1. \A s : Keyed(Q, key, s) \in SUBSET S
    BY DEF Keyed
  <2>2. \A s \in D : g(Q)[s] = Sum(w, Keyed(Q, key, s))
    BY DEF PerKey
  <2>. QED  BY <2>1, <2>2, SumNat, FS_Subset
<1>1. {} \in T
  <2>1. Sum(w, {}) = 0
    BY SumIs, FS_EmptySet
  <2>. DEFINE zero == [s \in D |-> 0]
  <2>2. \A s \in D : g({})[s] = zero[s]
    <3>1. \A s : Keyed({}, key, s) = {}
      BY DEF Keyed
    <3>. QED  BY <2>1, <3>1 DEF PerKey
  <2>3. \A Q \in SUBSET D : Sum(zero, Q) = 0
    <3>. DEFINE Z == {Q \in SUBSET D : Sum(zero, Q) # 0}
    <3>. SUFFICES ASSUME Z # {} PROVE FALSE
      OBVIOUS
    <3>1. PICK Q \in Z : \A R \in Z : R \subseteq Q => R = Q
      <4>1. Z \in SUBSET (SUBSET D)
        OBVIOUS
      <4>. HIDE DEF Z
      <4>. QED  BY <4>1, LeastSubset
    <3>2. Sum(zero, Q) = IF Q = {} THEN 0 ELSE zero[Any(Q)] + Sum(zero, Q \ {Any(Q)})
      <4>1. IsFiniteSet(Q)
        BY FS_Subset
      <4>. QED  BY <4>1, SumIs
    <3>3. Q # {}
      BY <3>1, <3>2
    <3>4. Any(Q) \in Q
      BY <3>3 DEF Any
    <3>5. Sum(zero, Q \ {Any(Q)}) = 0 /\ zero[Any(Q)] = 0
      BY <3>1, <3>4
    <3>. QED  BY <3>1, <3>2, <3>5
  <2>4. Sum(g({}), D) = Sum(zero, D)
    <3>. HIDE DEF zero
    <3>. QED  BY <2>2, SumSame
  <2>. QED  BY <2>1, <2>3, <2>4
<1>2. ASSUME NEW Q \in T, NEW x \in S \ Q PROVE Q \cup {x} \in T
  <2>. DEFINE P == Q \cup {x}
              s == key[x]
  <2>1. s \in D /\ P \in SUBSET S /\ Q \in SUBSET S /\ x \in P /\ P \ {x} = Q
    OBVIOUS
  <2>2. Sum(w, P) = w[x] + Sum(w, Q)
    BY <2>1, SumWithout
  <2>3. g(P)[s] = w[x] + g(Q)[s]
    <3>1. Keyed(P, key, s) \in SUBSET S /\ x \in Keyed(P, key, s)
          /\ Keyed(P, key, s) \ {x} = Keyed(Q, key, s)
      BY <2>1 DEF Keyed
    <3>2. Sum(w, Keyed(P, key, s)) = w[x] + Sum(w, Keyed(Q, key, s))
      <4>. DEFINE K == Keyed(P, key, s)
                  L == Keyed(Q, key, s)
      <4>. HIDE DEF K, L, P, s, T, g
      <4>1. K \in SUBSET S /\ x \in K /\ K \ {x} = L
        BY <3>1 DEF K, L
      <4>. QED  BY <4>1, SumWithout DEF K, L
    <3>. QED  BY <1>0, <2>1, <3>2
  <2>4. \A t \in D \ {s} : g(P)[t] = g(Q)[t]
    <3>1. \A t \in D \ {s} : Keyed(P, key, t) = Keyed(Q, key, t)
      BY DEF Keyed
    <3>. QED  BY <1>0, <2>1, <3>1
  <2>5. Sum(g(Q), D) = Sum(w, Q)
    OBVIOUS
  <2>. HIDE DEF g, P, T, s
  <2>6. IsFiniteSet(D \ {s})
    BY FS_RemoveElement
  <2>7. Sum(g(P), D \ {s}) = Sum(g(Q), D \ {s})
    BY <2>4, <2>6, SumSame
  <2>8. /\ Sum(g(P), D) = g(P)[s] + Sum(g(P), D \ {s})
        /\ Sum(g(Q), D) = g(Q)[s] + Sum(g(Q), D \ {s})
        /\ Sum(g(Q), D \ {s}) \in Nat /\ g(Q)[s] \in Nat /\ w[x] \in Nat
    BY <1>0, <2>1, SumWithout, SumNat
  <2>9. Sum(g(P), D) = Sum(w, P)
    BY <2>2, <2>3, <2>5, <2>7, <2>8
  <2>. QED  BY <2>1, <2>9 DEF T, P
<1>3. T = SUBSET S
  <2>1. T \in SUBSET (SUBSET S)
    OBVIOUS
  <2>. HIDE DEF T
  <2>. QED  BY <1>1, <1>2, <2>1, AllSubsets
<1>. QED  BY <1>3

(* The cardinality of a set is the sum of ones. *)
LEMMA SumOfOnes ==
  ASSUME NEW S, IsFiniteSet(S), NEW one, \A p \in S : one[p] = 1
  PROVE  \A Q \in SUBSET S : Sum(one, Q) = Cardinality(Q)
<1>. DEFINE T == {Q \in SUBSET S : Sum(one, Q) = Cardinality(Q)}
<1>1. {} \in T
  BY SumIs, FS_EmptySet
<1>2. ASSUME NEW Q \in T, NEW x \in S \ Q PROVE Q \cup {x} \in T
  <2>. DEFINE P == Q \cup {x}
  <2>1. P \in SUBSET S /\ Q \in SUBSET S /\ x \in P /\ P \ {x} = Q /\ \A p \in S : one[p] \in Nat
    OBVIOUS
  <2>2. Sum(one, P) = 1 + Sum(one, Q) /\ Sum(one, Q) \in Nat
    <3>1. one[x] = 1
      OBVIOUS
    <3>. QED  BY <2>1, <3>1, SumWithout, SumNat
  <2>3. Cardinality(P) = Cardinality(Q) + 1
    <3>1. IsFiniteSet(Q) /\ x \notin Q
      BY <2>1, FS_Subset
    <3>. QED  BY <3>1, FS_AddElement
  <2>. QED  BY <2>1, <2>2, <2>3
<1>3. T = SUBSET S
  <2>1. T \in SUBSET (SUBSET S)
    OBVIOUS
  <2>. HIDE DEF T
  <2>. QED  BY <1>1, <1>2, <2>1, AllSubsets
<1>. QED  BY <1>3

-----------------------------------------------------------------------------
(* The sum of a function is that over its domain. *)
LEMMA SumOfFunction == \A f : SumFunction(f) = Sum(f, DOMAIN f)
  BY DEF SumFunction, Sum

(* What the log says of a block: a size and a caller. *)
LEMMA RecordIs ==
  ASSUME NEW r \in (Sizes \cup {0}) \X Sites
  PROVE  r[1] \in Nat /\ r[2] \in Sites
<1>1. r[1] \in Sizes \cup {0} /\ r[2] \in Sites
  OBVIOUS
<1>2. \A n \in Sizes \cup {0} : n \in Nat
  BY ArgumentsOK
<1>. QED  BY <1>1, <1>2, Zenon

(* The first part of a pair. *)
LEMMA PairIs == \A x, y : <<x, y>>[1] = x
  OBVIOUS

(* Between calls the report has the blocks of the program, each with its size *)
(* and a caller.                                                              *)
LEMMA RestReported ==
  ASSUME IInv, Complete, \A t \in Threads : pc[t] = <<>>, parsed[Nil] = None
  PROVE  /\ \A p \in heap \ old : /\ parsed[p][1] \in Nat /\ parsed[p][1] = truth[p][1]
                                  /\ parsed[p][2] \in Sites
         /\ \A s \in Sites : Remaining(s) = {p \in heap \ old : parsed[p][2] = s}
<1>1. \A t \in Threads : Owns(t) = {}
  BY Heads DEF Owns, Unwritten, Asking, Behind
<1>2. \A p \in Addrs : Matches(p) /\ (truth[p] # None) = (p \in heap \ old)
  BY <1>1 DEF IInv, Known, Complete, Truths
<1>3. \A a, b : <<a, b>> # None
  BY Heads DEF None
<1>4. \A p \in Addrs : (parsed[p] # None) = (p \in heap \ old)
  BY <1>2, <1>3 DEF Matches
<1>5. heap \subseteq Addrs /\ DOMAIN parsed = Addrs \cup {Nil}
  BY DEF IInv, Typed, Parsed
<1>6. ASSUME NEW p \in heap \ old
      PROVE  parsed[p][1] \in Nat /\ parsed[p][1] = truth[p][1] /\ parsed[p][2] \in Sites
  <2>1. parsed[p] \in (Sizes \cup {0}) \X Sites
    BY <1>4, <1>5 DEF IInv, Parsed
  <2>2. parsed[p] = <<truth[p][1], truth[p][3]>>
    BY <1>2, <1>5 DEF Matches
  <2>3. parsed[p][1] \in Nat /\ parsed[p][2] \in Sites
    BY <2>1, RecordIs
  <2>4. parsed[p][1] = truth[p][1]
    BY <2>2, PairIs
  <2>. QED  BY <2>3, <2>4
<1>7. \A s \in Sites : Remaining(s) = {p \in heap \ old : parsed[p][2] = s}
  BY <1>4, <1>5 DEF Remaining
<1>. QED  BY <1>6, <1>7

(* How many elements the program asked for. *)
Counted == \A p \in Addrs : truth[p] # None => truth[p][2] \in Nat

(* Only the beginning of an allocation sets it. *)
LEMMA CountedStep == IInv /\ Counted /\ [Next]_vars => Counted'
<1>. SUFFICES ASSUME IInv, Counted, [Next]_vars PROVE Counted'
  OBVIOUS
<1>1. ASSUME truth' = truth PROVE Counted'
  BY <1>1 DEF Counted
<1>2. CASE UNCHANGED vars
  BY <1>1, <1>2 DEF vars, program
<1>3. CASE MainSteps
  BY <1>1, <1>3 DEF MainSteps, malloc_trace_start, Py_Main, malloc_trace_stop, Close, Forget,
                    Main_, program
<1>4. ASSUME NEW t \in Threads, Libc(t) PROVE Counted'
  <2>1. PICK gone \in SUBSET Addrs, new \in SUBSET Addrs : Exchange(t, call[t], gone, new)
    BY <1>4, LibcIs DEF IInv
  <2>. DEFINE c == call[t]
  <2>2. c.count \in Nat
    <3>1. c \in Calls
      BY DEF IInv, Typed
    <3>2. c.count \in Counts \cup {1}
      BY <3>1 DEF Calls
    <3>3. \A n \in Counts \cup {1} : n \in Nat
      BY ArgumentsOK
    <3>. HIDE DEF c
    <3>. QED  BY <3>2, <3>3, Zenon
  <2>3. truth' = [a \in Addrs |-> IF a \in new THEN <<c.size, c.count, c.site>>
                                  ELSE IF a \in gone THEN None ELSE truth[a]]
    BY <2>1 DEF Exchange
  <2>4. <<c.size, c.count, c.site>>[2] = c.count
    OBVIOUS
  <2>. HIDE DEF c
  <2>. QED  BY <2>2, <2>3, <2>4 DEF Counted
<1>5. ASSUME NEW t \in Threads,
             \/ malloc(t) \/ free(t) \/ realloc(t) \/ Abort(t) \/ Check(t) \/ Write(t)
      PROVE  Counted'
  BY <1>1, <1>5 DEF malloc, free, realloc, Begin, Abort, Check, Write, Logging, program
<1>. QED  BY <1>2, <1>3, <1>4, <1>5 DEF Next

(* So the number of elements of a block is a natural number. *)
LEMMA CountedHolds == Spec => []Counted
<1>1. Init => Counted
  BY DEF Init, Counted
<1>. QED  BY <1>1, Invariant, CountedStep, PTL DEF Spec

(* The report has what the program has allocated and not freed, each block once *)
(* and for one caller; of the bytes it lacks those that calloc does not log     *)
(* (parse_malloc_trace_log.py:227-246, py_malloc_trace.cpp:200-206).            *)
THEOREM TotalsHolds == Spec => []Totals
<1>1. IInv /\ Counted => Totals
  <2>. DEFINE B == heap \ old
              w == [p \in B |-> parsed[p][1]]
              one == [p \in B |-> 1]
              key == [p \in B |-> parsed[p][2]]
              blocks == [s \in Sites |-> stats(s)[1]]
              bytes == [s \in Sites |-> stats(s)[2]]
              left == [p \in B |-> LeftOut(p)]
              real == [p \in B |-> Bytes(p)]
  <2>. SUFFICES ASSUME IInv, Counted, Complete, \A t \in Threads : pc[t] = <<>>,
                       parsed[Nil] = None
                PROVE  /\ SumFunction(blocks) = Cardinality(B)
                       /\ SumFunction(bytes) + SumFunction(left) = SumFunction(real)
    BY DEF Totals
  <2>1. IsFiniteSet(B) /\ IsFiniteSet(Sites)
    <3>1. B \in SUBSET Addrs
      BY DEF IInv, Typed
    <3>. QED  BY <3>1, FiniteOK, FS_Subset
  <2>2. /\ DOMAIN w = B /\ DOMAIN one = B /\ DOMAIN key = B /\ DOMAIN real = B
        /\ DOMAIN blocks = Sites /\ DOMAIN bytes = Sites
        /\ DOMAIN left = B
        /\ \A p \in B : /\ w[p] \in Nat /\ w[p] = truth[p][1] /\ w[p] = parsed[p][1]
                        /\ one[p] = 1 /\ key[p] \in Sites
    BY RestReported
  <2>10. \A p \in B : left[p] \in Int /\ real[p] = w[p] + left[p]
    <3>. SUFFICES ASSUME NEW p \in B PROVE left[p] \in Int /\ real[p] = w[p] + left[p]
      OBVIOUS
    <3>1. w[p] \in Nat /\ w[p] = truth[p][1]
      BY <2>2
    <3>2. truth[p][2] \in Nat
      BY DEF IInv, Typed, Truths, Counted
    <3>3. \A a, b \in Nat : a * (b - 1) \in Int /\ a * b = a + a * (b - 1)
      OBVIOUS
    <3>4. left[p] = truth[p][1] * (truth[p][2] - 1) /\ real[p] = truth[p][1] * truth[p][2]
      BY DEF LeftOut, Bytes
    <3>. HIDE DEF B, w, left, real
    <3>. QED  BY <3>1, <3>2, <3>3, <3>4
  <2>3. \A s \in Sites : Remaining(s) = Keyed(B, key, s) /\ Keyed(B, key, s) \in SUBSET B
    BY RestReported DEF Keyed
  <2>4. ASSUME NEW s \in Sites
        PROVE  blocks[s] = Sum(one, Keyed(B, key, s)) /\ bytes[s] = Sum(w, Keyed(B, key, s))
    <3>. DEFINE R == Keyed(B, key, s)
                v == [p \in R |-> parsed[p][1]]
    <3>1. blocks[s] = Cardinality(R) /\ bytes[s] = SumFunction(v)
      BY <2>3 DEF stats
    <3>2. R \in SUBSET B /\ IsFiniteSet(R)
      BY <2>1, <2>3, FS_Subset
    <3>3. DOMAIN v = R /\ \A p \in R : v[p] = w[p]
      BY <3>2
    <3>. HIDE DEF B, w, one, key, R, v, blocks, bytes
    <3>4. Sum(one, R) = Cardinality(R)
      BY <2>1, <2>2, <3>2, SumOfOnes
    <3>5. SumFunction(v) = Sum(w, R)
      BY <3>2, <3>3, SumSame, SumOfFunction
    <3>. QED  BY <3>1, <3>4, <3>5 DEF R
  <2>. HIDE DEF B, w, one, key, blocks, bytes, left, real
  <2>5. /\ \A s \in Sites : blocks[s] = PerKey(one, B, key, Sites)[s]
        /\ \A s \in Sites : bytes[s] = PerKey(w, B, key, Sites)[s]
    BY <2>4 DEF PerKey
  <2>6. /\ Sum(blocks, Sites) = Sum(PerKey(one, B, key, Sites), Sites)
        /\ Sum(bytes, Sites) = Sum(PerKey(w, B, key, Sites), Sites)
    BY <2>1, <2>5, SumSame
  <2>7. /\ Sum(PerKey(one, B, key, Sites), Sites) = Sum(one, B)
        /\ Sum(PerKey(w, B, key, Sites), Sites) = Sum(w, B)
    BY <2>1, <2>2, SumByKey
  <2>8. Sum(one, B) = Cardinality(B)
    BY <2>1, <2>2, SumOfOnes
  <2>9. Sum(w, B) + Sum(left, B) = Sum(real, B)
    <3>1. \A p \in B : w[p] \in Int
      BY <2>2
    <3>. QED  BY <2>1, <2>10, <3>1, SumPlus
  <2>. QED  BY <2>2, <2>6, <2>7, <2>8, <2>9, SumOfFunction
<1>. QED  BY <1>1, Invariant, CountedHolds, PTL
===============================================================================
