----------------------------- MODULE S3ImportProofs -----------------------------
(***************************************************************************)
(* Proofs about S3Import, for any folders, number of runs and of uploads.  *)
(***************************************************************************)
EXTENDS S3Import, SequenceTheorems, TLAPS

Versions == 1..MaxEdits + 1
Frames == [kind : {"import", "reload"}, mod : Modules, at : Nat \ {0},
           phase : {"find", "get", "body"}]

(* An import is nested in the code of foo only, which imports bar. *)
Typed == /\ store \in [Folders -> [Modules -> 0..MaxEdits + 1]] /\ edits \in 0..MaxEdits
         /\ metaPath \in Seq(Folders) /\ Len(metaPath) <= MaxRuns
         /\ loaded \in [Modules -> (Folders \X Versions) \cup {<<>>}]
         /\ step \in 1..6 /\ edited \in BOOLEAN
         /\ stack \in Seq(Frames) /\ Len(stack) <= 2
         /\ Len(stack) = 2 => /\ stack[1].mod = "foo" /\ stack[1].phase = "body"
                              /\ stack[2].mod = "bar" /\ stack[2].kind = "import"
         /\ \A i \in 1..Len(stack) :
              stack[i].at <= Len(metaPath) \/ stack[i].phase = "find"

(* The run: its finder is the last one, and the outer frame is that of its    *)
(* latest statement.                                                         *)
Running == /\ entry = <<>> => stack = <<>>
           /\ entry # <<>> => /\ step <= 5 /\ Len(metaPath) > 0
                              /\ entry = <<metaPath[Len(metaPath)]>>
           /\ stack # <<>> => /\ step > 1
                              /\ stack[1].kind = Program[step - 1][1]
                              /\ stack[1].mod = Program[step - 1][2]

Importing(m) == \E i \in 1..Len(stack) : stack[i].mod = m /\ stack[i].kind = "import"

(* The statements before the current one have been executed. *)
Executed == /\ entry # <<>> /\ step >= 2 => loaded["foo"] # <<>> \/ Importing("foo")
            /\ entry # <<>> /\ step >= 3 => loaded["bar"] # <<>> \/ Importing("bar")
            /\ \A i \in 1..Len(stack) :
                 stack[i].kind = "reload" \/ stack[i].phase = "body" => loaded[stack[i].mod] # <<>>

(* When bar is not there for good, foo is still being imported. *)
Halves == loaded["foo"] # <<>> /\ (loaded["bar"] = <<>> \/ Importing("bar")) => Importing("foo")

(* The run can only take modules from its own folder, as they were when it began. *)
Quiet == entry # <<>> /\ ~edited /\ \A i \in 1..Len(metaPath) : metaPath[i] = entry[1]
Current(m) == loaded[m] = <<entry[1], store[entry[1]][m]>>

Fresh == Quiet => /\ \A i \in 1..Len(stack) : stack[i].phase = "body" => Current(stack[i].mod)
                  /\ step >= 4 /\ ~(step = 4 /\ stack # <<>>) => Current("foo")
                  /\ step >= 5 /\ stack = <<>> => Current("bar")

(* The finders that were passed over do not have the file. *)
Asked == \A i \in 1..Len(stack) : ~edited =>
           \A j \in 1..(stack[i].at - 1) : store[metaPath[j]][stack[i].mod] = 0

IInv == Typed /\ Running /\ Executed /\ Halves /\ Fresh /\ Asked

-----------------------------------------------------------------------------
(* The stack of imports.                                                   *)

(* The innermost frame, and those around it. *)
LEMMA TopIs ==
  ASSUME Typed, stack # <<>>
  PROVE  /\ Len(stack) \in 1..2 /\ Top = stack[Len(stack)] /\ Top \in Frames
         /\ Outer \in Seq(Frames) /\ Len(Outer) = Len(stack) - 1
         /\ \A i \in 1..Len(Outer) : Outer[i] = stack[i]
<1>1. stack \in Seq(Frames) /\ Len(stack) \in 1..2
  <2>1. stack \in Seq(Frames) /\ Len(stack) <= 2
    BY DEF Typed
  <2>2. Len(stack) \in Nat \ {0}
    BY <2>1, EmptySeq
  <2>3. \A k \in Nat \ {0} : k <= 2 => k \in 1..2
    OBVIOUS
  <2>. QED  BY <2>1, <2>2, <2>3, Zenon
<1>2. Top = stack[Len(stack)] /\ Top \in Frames
  BY <1>1 DEF Top
<1>. QED  BY <1>1, <1>2 DEF Outer

(* A step of the innermost frame changes its position and phase only. *)
LEMMA SetTopIs ==
  ASSUME Typed, stack # <<>>, NEW at \in Nat \ {0}, NEW ph \in {"find", "get", "body"},
         SetTop(at, ph)
  PROVE  /\ stack' \in Seq(Frames) /\ Len(stack') = Len(stack) /\ stack' # <<>>
         /\ \A i \in 1..Len(stack) : stack'[i].kind = stack[i].kind /\ stack'[i].mod = stack[i].mod
         /\ \A i \in 1..Len(stack) - 1 : stack'[i] = stack[i]
         /\ stack'[Len(stack)].at = at /\ stack'[Len(stack)].phase = ph
<1>1. stack \in Seq(Frames) /\ Len(stack) \in 1..2
  BY TopIs DEF Typed
<1>. DEFINE n == Len(stack)
            a == [stack EXCEPT ![n].at = at]
            x == [stack[n] EXCEPT !.at = at]
            y == [x EXCEPT !.phase = ph]
<1>2. stack[n] \in Frames /\ x \in Frames /\ y \in Frames /\ n \in 1..Len(stack)
  <2>1. n \in 1..Len(stack)
    BY <1>1
  <2>2. stack[n] \in Frames
    BY <1>1, <2>1
  <2>. QED  BY <2>1, <2>2 DEF Frames
<1>3. a \in Seq(Frames) /\ Len(a) = n /\ a[n] = x /\ \A i \in 1..n - 1 : a[i] = stack[i]
  <2>1. a = [stack EXCEPT ![n] = x]
    OBVIOUS
  <2>. QED  BY <1>1, <1>2, <2>1, ExceptSeq
<1>4. stack' = [a EXCEPT ![n].phase = ph]
  BY DEF SetTop
<1>5. /\ stack' \in Seq(Frames) /\ Len(stack') = n /\ stack'[n] = y
      /\ \A i \in 1..n - 1 : stack'[i] = stack[i]
  <2>1. stack' = [a EXCEPT ![n] = y] /\ n \in 1..Len(a)
    BY <1>2, <1>3, <1>4
  <2>. HIDE DEF a, y
  <2>. QED  BY <1>1, <1>2, <1>3, <2>1, ExceptSeq
<1>6. /\ stack'[n].kind = stack[n].kind /\ stack'[n].mod = stack[n].mod
      /\ stack'[n].at = at /\ stack'[n].phase = ph
  BY <1>2, <1>5 DEF Frames
<1>7. stack' # <<>>
  BY <1>1, <1>5, EmptySeq
<1>8. \A i \in 1..n : i = n \/ i \in 1..n - 1
  BY <1>1
<1>. HIDE DEF n
<1>. QED  BY <1>1, <1>5, <1>6, <1>7, <1>8 DEF n

(* The statements of the application. *)
LEMMA ProgramIs ==
  /\ Len(Program) = 5
  /\ Program[1][1] = "import" /\ Program[1][2] = "foo"
  /\ Program[2][1] = "import" /\ Program[2][2] = "bar"
  /\ Program[3][1] = "reload" /\ Program[3][2] = "foo"
  /\ Program[4][1] = "reload" /\ Program[4][2] = "bar"
  /\ Program[5][1] = "use" /\ Program[5][2] = "foo"
  BY DEF Program

-----------------------------------------------------------------------------
(* The actions.                                                            *)

(* The developer changes no module that was loaded. *)
LEMMA EditStep == ASSUME IInv, Edit PROVE IInv'
<1>1. UNCHANGED <<metaPath, loaded, entry, step, stack>> /\ edited'
  BY DEF Edit
<1>2. Typed'
  <2>1. PICK f \in Folders, m \in Modules, v \in {0, edits + 2} :
          store' = [store EXCEPT ![f][m] = v]
    BY DEF Edit
  <2>2. v \in 0..MaxEdits + 1 /\ edits' \in 0..MaxEdits
    BY BoundsOK DEF Edit, IInv, Typed
  <2>3. store' \in [Folders -> [Modules -> 0..MaxEdits + 1]]
    BY <2>1, <2>2 DEF IInv, Typed
  <2>. QED  BY <1>1, <2>2, <2>3 DEF IInv, Typed, Edit
<1>3. Running' /\ Executed' /\ Halves'
  BY <1>1 DEF IInv, Running, Executed, Halves, Importing
<1>4. Fresh' /\ Asked'
  BY <1>1 DEF Fresh, Quiet, Asked
<1>. QED  BY <1>2, <1>3, <1>4 DEF IInv

(* A run begins with its finder last. *)
LEMMA RunStep == ASSUME IInv, command_Run PROVE IInv'
<1>1. PICK f \in Folders : entry' = <<f>> /\ metaPath' = Append(metaPath, f)
  BY DEF command_Run, AddFinder
<1>2. /\ step' = 1 /\ stack = <<>> /\ stack' = <<>> /\ edited' = FALSE
      /\ UNCHANGED <<store, edits, loaded>> /\ Len(metaPath) < MaxRuns
  BY DEF command_Run, IInv, Running
<1>3. /\ metaPath' \in Seq(Folders) /\ Len(metaPath') = Len(metaPath) + 1
      /\ metaPath'[Len(metaPath')] = f
  BY <1>1 DEF IInv, Typed
<1>4. Len(stack) = 0 /\ Len(stack') = 0
  BY <1>2
<1>5. Typed'
  <2>1. Len(metaPath') <= MaxRuns
    BY <1>2, <1>3, BoundsOK DEF IInv, Typed
  <2>2. stack' \in Seq(Frames)
    BY <1>2, EmptySeq
  <2>3. 1 \in 1..6 /\ FALSE \in BOOLEAN /\ ~(0 = 2) /\ 0 <= 2 /\ 1..0 = {}
    OBVIOUS
  <2>. QED  BY <1>2, <1>3, <1>4, <2>1, <2>2, <2>3 DEF IInv, Typed
<1>6. Running'
  BY <1>1, <1>2, <1>3 DEF IInv, Typed, Running
<1>7. Executed' /\ Halves'
  BY <1>2, <1>4 DEF IInv, Executed, Halves, Importing
<1>8. Fresh' /\ Asked'
  BY <1>2, <1>4 DEF Fresh, Asked
<1>. QED  BY <1>5, <1>6, <1>7, <1>8 DEF IInv

(* An import of what is missing, a reload, or nothing. *)
LEMMA StatementStep == ASSUME IInv, Statement PROVE IInv'
<1>. DEFINE kind == Program[step][1]
            m == Program[step][2]
<1>1. /\ entry # <<>> /\ stack = <<>> /\ step' = step + 1 /\ Len(stack) = 0
      /\ UNCHANGED <<loaded, store, edits, metaPath, edited>>
      /\ entry' = IF kind = "use" THEN <<>> ELSE entry
      /\ stack' = IF kind = "use" \/ (kind = "import" /\ loaded[m] # <<>>)
                  THEN <<>> ELSE <<Frame(kind, m)>>
  BY DEF Statement, AppOnly
<1>2. step \in 1..5 /\ m \in Modules
  BY <1>1, ProgramIs DEF IInv, Typed, Running, Modules
<1>3. \/ step = 5 /\ kind = "use"
      \/ step \in {1, 2} /\ kind = "import" /\ m = (IF step = 1 THEN "foo" ELSE "bar")
      \/ step \in {3, 4} /\ kind = "reload" /\ m = (IF step = 3 THEN "foo" ELSE "bar")
  BY <1>2, ProgramIs
<1>4. \/ kind = "use" /\ step = 5 /\ stack' = <<>> /\ Len(stack') = 0 /\ entry' = <<>>
      \/ /\ kind = "import" /\ step \in {1, 2} /\ loaded[m] # <<>> /\ stack' = <<>> /\ Len(stack') = 0
         /\ entry' = entry
      \/ /\ kind \in {"import", "reload"} /\ step \in 1..4 /\ entry' = entry
         /\ kind = "import" => loaded[m] = <<>>
         /\ Len(stack') = 1 /\ stack' \in Seq(Frames)
         /\ stack'[1].kind = kind /\ stack'[1].mod = m /\ stack'[1].at = 1
         /\ stack'[1].phase = "find"
  <2>. DEFINE fr == Frame(kind, m)
  <2>1. kind \in {"import", "reload"} => fr \in Frames
    BY <1>2 DEF Frame, Frames
  <2>2. fr.kind = kind /\ fr.mod = m /\ fr.at = 1 /\ fr.phase = "find"
    BY DEF Frame
  <2>. HIDE DEF fr
  <2>3. Len(<<fr>>) = 1 /\ <<fr>>[1] = fr /\ (fr \in Frames => <<fr>> \in Seq(Frames))
    OBVIOUS
  <2>4. Len(<<>>) = 0
    OBVIOUS
  <2>5. \/ stack' = <<>> /\ (kind = "use" \/ (kind = "import" /\ loaded[m] # <<>>))
        \/ stack' = <<fr>> /\ ~(kind = "use" \/ (kind = "import" /\ loaded[m] # <<>>))
    BY <1>1 DEF fr
  <2>6. /\ kind = "use" => entry' = <<>>
        /\ kind # "use" => entry' = entry
    BY <1>1
  <2>. HIDE DEF kind, m
  <2>7. CASE stack' = <<fr>>
    BY <1>2, <1>3, <2>1, <2>2, <2>3, <2>5, <2>6, <2>7
  <2>8. CASE stack' = <<>>
    <3>1. Len(stack') = 0
      BY <2>4, <2>8
    <3>. QED  BY <1>2, <1>3, <2>5, <2>6, <2>8, <3>1
  <2>. QED  BY <2>5, <2>7, <2>8
<1>. HIDE DEF kind, m
<1>5. Typed'
  BY <1>1, <1>2, <1>4, EmptySeq DEF IInv, Typed
<1>6. Running'
  <2>1. kind = Program[step' - 1][1] /\ m = Program[step' - 1][2]
    BY <1>1, <1>2 DEF kind, m
  <2>. QED  BY <1>1, <1>2, <1>4, <2>1 DEF IInv, Running
<1>7. ~Importing("foo") /\ ~Importing("bar")
  BY <1>1 DEF Importing
<1>8. Executed'
  BY <1>1, <1>2, <1>3, <1>4, <1>7 DEF IInv, Executed, Importing
<1>9. Halves'
  BY <1>1, <1>3, <1>4, <1>7 DEF IInv, Halves, Importing
<1>10. Fresh'
  BY <1>1, <1>2, <1>3, <1>4 DEF IInv, Fresh, Quiet, Current
<1>11. Asked'
  BY <1>4 DEF Asked
<1>. QED  BY <1>5, <1>6, <1>8, <1>9, <1>10, <1>11 DEF IInv

(* An exception: what was being imported leaves sys.modules with it. *)
LEMMA RaiseStep == ASSUME IInv, Raise PROVE IInv'
<1>1. /\ entry' = <<>> /\ stack' = <<>> /\ Len(stack') = 0
      /\ UNCHANGED <<step, store, edits, metaPath, edited>>
      /\ loaded' = [m \in Modules |-> IF Importing(m) THEN <<>> ELSE loaded[m]]
  BY DEF Raise, AppOnly, Importing
<1>2. Typed'
  BY <1>1, EmptySeq DEF IInv, Typed
<1>3. Running' /\ Executed' /\ Fresh' /\ Asked'
  BY <1>1 DEF Running, Executed, Fresh, Quiet, Asked
<1>4. loaded'["foo"] # <<>> => loaded'["bar"] # <<>>
  BY <1>1 DEF IInv, Halves, Modules
<1>5. Halves'
  BY <1>1, <1>4 DEF Halves, Importing
<1>. QED  BY <1>2, <1>3, <1>5 DEF IInv

(* A finder that has the file is kept, else the next is asked. *)
LEMMA FindStep == ASSUME IInv, FindSpec PROVE IInv'
<1>. DEFINE n == Len(stack)
<1>1. /\ stack # <<>> /\ Top.phase = "find" /\ Top.at <= Len(metaPath)
      /\ UNCHANGED <<loaded, entry, step, store, edits, metaPath, edited>>
  BY DEF FindSpec, AppOnly
<1>2. /\ n \in 1..2 /\ Top = stack[n] /\ Top \in Frames /\ Top.at \in Nat \ {0} /\ Typed
      /\ metaPath \in Seq(Folders)
  BY <1>1, TopIs DEF IInv, Typed, Frames
<1>3. /\ stack' \in Seq(Frames) /\ Len(stack') = n /\ stack' # <<>>
      /\ \A i \in 1..n : stack'[i].kind = stack[i].kind /\ stack'[i].mod = stack[i].mod
      /\ \A i \in 1..n - 1 : stack'[i] = stack[i]
      /\ \/ stack'[n].at = Top.at /\ stack'[n].phase = "get"
         \/ /\ stack'[n].at = Top.at + 1 /\ stack'[n].phase = "find"
            /\ store[metaPath[Top.at]][Top.mod] = 0
  <2>1. CASE store[metaPath[Top.at]][Top.mod] # 0
    <3>1. SetTop(Top.at, "get")
      BY <2>1 DEF FindSpec, FolderOf
    <3>. QED  BY <1>1, <1>2, <3>1, SetTopIs
  <2>2. CASE store[metaPath[Top.at]][Top.mod] = 0
    <3>1. SetTop(Top.at + 1, "find") /\ Top.at + 1 \in Nat \ {0}
      BY <1>2, <2>2 DEF FindSpec, FolderOf
    <3>. QED  BY <1>1, <1>2, <2>2, <3>1, SetTopIs
  <2>. QED  BY <2>1, <2>2
<1>4. \A i \in 1..n : stack'[i].phase = "body" => i < n /\ stack'[i] = stack[i]
  BY <1>2, <1>3
<1>5. Typed'
  BY <1>1, <1>2, <1>3, <1>4 DEF Typed
<1>6. \A m : Importing(m)' = Importing(m)
  BY <1>3 DEF Importing
<1>7. Running' /\ Halves'
  BY <1>1, <1>2, <1>3, <1>6 DEF IInv, Running, Halves
<1>8. Executed'
  BY <1>1, <1>2, <1>3, <1>4, <1>6 DEF IInv, Executed
<1>9. Fresh'
  BY <1>1, <1>2, <1>3, <1>4 DEF IInv, Fresh, Quiet, Current
<1>10. Asked'
  <2>. SUFFICES ASSUME NEW i \in 1..n, ~edited, NEW j \in 1..(stack'[i].at - 1)
                PROVE  store[metaPath[j]][stack'[i].mod] = 0
    BY <1>1, <1>3 DEF Asked
  <2>1. CASE j \in 1..(stack[i].at - 1)
    BY <1>3, <2>1 DEF IInv, Asked
  <2>2. CASE j \notin 1..(stack[i].at - 1)
    <3>1. i = n /\ j = Top.at /\ store[metaPath[Top.at]][Top.mod] = 0
      BY <1>2, <1>3, <2>2
    <3>. QED  BY <1>2, <1>3, <3>1
  <2>. QED  BY <2>1, <2>2
<1>. QED  BY <1>5, <1>7, <1>8, <1>9, <1>10 DEF IInv

(* The code that was found is there now, or an exception is raised. *)
LEMMA ExecStep == ASSUME IInv, ExecModule PROVE IInv'
<1>. DEFINE n == Len(stack)
            m == Top.mod
            v == store[FolderOf(Top)][m]
<1>1. stack # <<>> /\ Top.phase = "get"
  BY DEF ExecModule
<1>2. CASE v = 0
  BY <1>2, RaiseStep DEF ExecModule
<1>3. CASE v # 0
  <2>1. /\ n \in 1..2 /\ Top = stack[n] /\ Top \in Frames /\ Top.at \in Nat \ {0} /\ Typed
        /\ metaPath \in Seq(Folders) /\ m \in Modules /\ Top.at <= Len(metaPath)
    BY <1>1, TopIs DEF IInv, Typed, Frames
  <2>2. /\ loaded' = [loaded EXCEPT ![m] = <<FolderOf(Top), v>>]
        /\ SetTop(Top.at, "body")
        /\ UNCHANGED <<entry, step, store, edits, metaPath, edited>>
    BY <1>3 DEF ExecModule, AppOnly
  <2>3. /\ stack' \in Seq(Frames) /\ Len(stack') = n /\ stack' # <<>>
        /\ \A i \in 1..n : stack'[i].kind = stack[i].kind /\ stack'[i].mod = stack[i].mod
        /\ \A i \in 1..n - 1 : stack'[i] = stack[i]
        /\ stack'[n].at = Top.at /\ stack'[n].phase = "body"
    BY <1>1, <2>1, <2>2, SetTopIs
  <2>4. FolderOf(Top) \in Folders /\ FolderOf(Top) = metaPath[Top.at] /\ v \in Versions
    BY <1>3, <2>1, BoundsOK DEF FolderOf, Typed, Versions
  <2>5. /\ loaded' \in [Modules -> (Folders \X Versions) \cup {<<>>}]
        /\ loaded'[m] = <<FolderOf(Top), v>> /\ loaded'[m] # <<>>
        /\ \A k \in Modules \ {m} : loaded'[k] = loaded[k]
    BY <2>1, <2>2, <2>4 DEF Typed
  <2>. HIDE DEF m, v
  <2>6. Typed'
    BY <2>1, <2>2, <2>3, <2>5 DEF Typed
  <2>7. \A k : Importing(k)' = Importing(k)
    BY <2>3 DEF Importing
  <2>8. Running'
    BY <1>1, <2>1, <2>2, <2>3 DEF IInv, Running
  <2>9. Executed'
    <3>1. \A k \in Modules : loaded[k] # <<>> => loaded'[k] # <<>>
      BY <2>5
    <3>2. \A i \in 1..n : stack[i].mod \in Modules /\ (i = n => stack[i].mod = m)
      <4>1. \A i \in 1..n : stack[i] \in Frames
        BY <2>1 DEF Typed
      <4>. QED  BY <2>1, <4>1 DEF Frames, m
    <3>3. \A i \in 1..n : stack'[i].kind = "reload" \/ stack'[i].phase = "body"
                           => loaded'[stack'[i].mod] # <<>>
      <4>. SUFFICES ASSUME NEW i \in 1..n, stack'[i].kind = "reload" \/ stack'[i].phase = "body"
                    PROVE  loaded'[stack[i].mod] # <<>>
        BY <2>3
      <4>1. CASE i = n
        BY <2>5, <3>2, <4>1
      <4>2. CASE i # n
        <5>1. stack'[i] = stack[i]
          BY <2>1, <2>3, <4>2
        <5>. QED  BY <3>1, <3>2, <5>1 DEF IInv, Executed
      <4>. QED  BY <4>1, <4>2
    <3>. QED  BY <2>2, <2>3, <2>7, <3>1, <3>3 DEF IInv, Executed, Modules
  <2>10. Halves'
    <3>1. loaded["foo"] = <<>> /\ m = "foo" => Importing("foo")
      <4>. SUFFICES ASSUME loaded["foo"] = <<>>, m = "foo" PROVE stack[n].kind = "import"
        BY <2>1 DEF m, Importing
      <4>. QED  BY <2>1 DEF IInv, Executed, m, Frames
    <3>. QED  BY <2>1, <2>5, <2>7, <3>1 DEF IInv, Halves, Modules
  <2>11. Fresh'
    <3>. SUFFICES ASSUME Quiet PROVE Fresh'
      BY <2>2 DEF Fresh, Quiet
    <3>1. loaded'[m] = <<entry[1], store[entry[1]][m]>>
      BY <2>1, <2>4, <2>5 DEF Quiet, v
    <3>2. \A k \in Modules : k = m \/ Current(k) => Current(k)'
      BY <2>2, <2>5, <3>1 DEF Current
    <3>3. \A i \in 1..n : stack[i].mod \in Modules /\ (i = n => stack[i].mod = m)
      <4>1. \A i \in 1..n : stack[i] \in Frames
        BY <2>1 DEF Typed
      <4>. QED  BY <2>1, <4>1 DEF Frames, m
    <3>4. \A i \in 1..n : stack'[i].phase = "body" => stack[i].mod = m \/ Current(stack[i].mod)
      <4>. SUFFICES ASSUME NEW i \in 1..n, i # n, stack'[i].phase = "body" PROVE Current(stack[i].mod)
        BY <3>3
      <4>1. stack'[i] = stack[i]
        BY <2>1, <2>3
      <4>. QED  BY <4>1 DEF IInv, Fresh
    <3>5. \A i \in 1..n, k \in Modules : stack'[i].phase = "body" /\ k = stack'[i].mod => Current(k)'
      BY <2>3, <3>2, <3>3, <3>4
    <3>6. \A i \in 1..n : stack'[i].mod \in Modules
      BY <2>3, <3>3
    <3>7. step' >= 4 /\ ~(step' = 4 /\ stack' # <<>>) => Current("foo")'
      BY <1>1, <2>2, <2>3, <3>2 DEF IInv, Fresh, Modules
    <3>8. n = Len(stack')
      BY <2>3
    <3>. QED  BY <2>3, <3>5, <3>6, <3>7, <3>8 DEF Fresh, Current
  <2>12. Asked'
    <3>. SUFFICES ASSUME NEW i \in 1..n, ~edited, NEW j \in 1..(stack'[i].at - 1)
                  PROVE  store[metaPath[j]][stack'[i].mod] = 0
      BY <2>2, <2>3 DEF Asked
    <3>1. stack'[i].at = stack[i].at /\ stack'[i].mod = stack[i].mod
      BY <2>1, <2>3
    <3>. QED  BY <3>1 DEF IInv, Asked
  <2>. QED  BY <2>6, <2>8, <2>9, <2>10, <2>11, <2>12 DEF IInv
<1>. QED  BY <1>2, <1>3

(* The code of a module returns, or imports what it needs. *)
LEMMA BodyStep == ASSUME IInv, Body PROVE IInv'
<1>. DEFINE n == Len(stack)
            missing == {m \in Imports(Top.mod) : loaded[m] = <<>>}
<1>1. /\ stack # <<>> /\ Top.phase = "body"
      /\ UNCHANGED <<loaded, entry, step, store, edits, metaPath, edited>>
  BY DEF Body, AppOnly
<1>2. /\ n \in 1..2 /\ Top = stack[n] /\ Top \in Frames /\ Typed /\ stack \in Seq(Frames)
      /\ Outer \in Seq(Frames) /\ Len(Outer) = n - 1
      /\ \A i \in 1..n - 1 : Outer[i] = stack[i]
  BY <1>1, TopIs DEF IInv, Typed
<1>3. CASE missing = {}
  <2>1. stack' = Outer
    BY <1>3 DEF Body
  <2>2. /\ stack' \in Seq(Frames) /\ Len(stack') = n - 1 /\ \A i \in 1..n - 1 : stack'[i] = stack[i]
        /\ stack' # <<>> <=> n = 2
    BY <1>2, <2>1
  <2>3. Top.mod = "foo" => loaded["bar"] # <<>>
    BY <1>3 DEF Imports
  <2>4. loaded[Top.mod] # <<>> /\ Top.mod \in {"foo", "bar"}
    BY <1>1, <1>2 DEF IInv, Executed, Frames, Modules
  <2>5. Typed'
    BY <1>1, <1>2, <2>2 DEF Typed
  <2>6. Running'
    BY <1>1, <1>2, <2>2 DEF IInv, Running
  <2>7. \A m : Importing(m) => Importing(m)' \/ m = Top.mod
    BY <1>2, <2>2 DEF Importing
  <2>8. \A m : Importing(m)' => Importing(m)
    BY <1>2, <2>2 DEF Importing
  <2>9. Executed'
    BY <1>1, <1>2, <2>2, <2>4, <2>7 DEF IInv, Executed
  <2>10. Halves'
    <3>1. Importing("bar")' => n = 2 /\ stack[1].mod = "bar" /\ Top.mod = "bar"
      BY <1>2, <2>2 DEF Importing, Typed
    <3>2. ~Importing("bar")'
      BY <1>2, <3>1 DEF Typed
    <3>3. Top.mod = "bar" => (Importing("foo") => Importing("foo")')
      BY <2>7
    <3>. QED  BY <1>1, <2>3, <2>4, <2>8, <3>2, <3>3 DEF IInv, Halves
  <2>11. Fresh'
    <3>. SUFFICES ASSUME Quiet PROVE Fresh'
      BY <1>1 DEF Fresh, Quiet
    <3>1. Current(Top.mod)
      BY <1>1, <1>2 DEF IInv, Fresh
    <3>2. \A m : Current(m)' = Current(m)
      BY <1>1 DEF Current
    <3>3. n = 1 => Top.mod = Program[step - 1][2]
      BY <1>1, <1>2 DEF IInv, Running
    <3>4. /\ n = 1 /\ step = 4 => Top.mod = "foo"
          /\ n = 1 /\ step = 5 => Top.mod = "bar"
      BY <3>3, ProgramIs
    <3>5. step \in 1..5
      BY <1>1 DEF IInv, Typed, Running
    <3>6. \A i \in 1..Len(stack') : stack'[i].phase = "body" => Current(stack'[i].mod)
      BY <1>2, <2>2 DEF IInv, Fresh
    <3>7. step' >= 4 /\ ~(step' = 4 /\ stack' # <<>>) => Current("foo")
      BY <1>1, <1>2, <2>2, <3>1, <3>4, <3>5 DEF IInv, Fresh
    <3>8. step' >= 5 /\ stack' = <<>> => Current("bar")
      BY <1>1, <1>2, <2>2, <3>1, <3>4, <3>5
    <3>. QED  BY <3>2, <3>6, <3>7, <3>8 DEF Fresh
  <2>12. Asked'
    BY <1>1, <1>2, <2>2 DEF IInv, Asked
  <2>. QED  BY <2>5, <2>6, <2>9, <2>10, <2>11, <2>12 DEF IInv
<1>4. CASE missing # {}
  <2>1. Top.mod = "foo" /\ loaded["bar"] = <<>> /\ n = 1 /\ stack' = Append(stack, Frame("import", "bar"))
    <3>1. PICK m \in missing : stack' = Append(stack, Frame("import", m))
      BY <1>4 DEF Body
    <3>2. Top.mod = "foo" /\ m = "bar" /\ loaded["bar"] = <<>>
      BY <3>1 DEF Imports
    <3>. QED  BY <1>2, <3>1, <3>2 DEF Typed
  <2>2. /\ stack' \in Seq(Frames) /\ Len(stack') = 2 /\ stack' # <<>> /\ stack'[1] = stack[1]
        /\ stack'[2].kind = "import" /\ stack'[2].mod = "bar" /\ stack'[2].at = 1
        /\ stack'[2].phase = "find"
    <3>1. Frame("import", "bar") \in Frames
      BY DEF Frame, Frames, Modules
    <3>2. /\ stack' \in Seq(Frames) /\ Len(stack') = 2
          /\ stack'[1] = stack[1] /\ stack'[2] = Frame("import", "bar")
      <4>. DEFINE fr == Frame("import", "bar")
      <4>1. n = 1 /\ stack \in Seq(Frames) /\ fr \in Frames /\ stack' = Append(stack, fr)
        BY <1>2, <2>1, <3>1
      <4>. HIDE DEF fr
      <4>2. /\ Append(stack, fr) \in Seq(Frames) /\ Len(Append(stack, fr)) = n + 1
            /\ \A i \in 1..n : Append(stack, fr)[i] = stack[i]
            /\ Append(stack, fr)[n + 1] = fr
        BY <4>1, AppendProperties
      <4>3. 1 \in 1..n /\ n + 1 = 2
        BY <4>1
      <4>. QED  BY <4>1, <4>2, <4>3 DEF fr
    <3>. QED  BY <3>2 DEF Frame
  <2>3. Typed'
    BY <1>1, <1>2, <2>1, <2>2 DEF Typed
  <2>4. Running'
    BY <1>1, <1>2, <2>2 DEF IInv, Running
  <2>5. \A m : Importing(m) => Importing(m)'
    BY <1>2, <2>1, <2>2 DEF Importing
  <2>6. Executed'
    BY <1>1, <1>2, <2>1, <2>2, <2>5 DEF IInv, Executed
  <2>7. Halves'
    BY <1>1, <2>1, <2>5 DEF IInv, Halves
  <2>8. Fresh'
    BY <1>1, <1>2, <2>1, <2>2 DEF IInv, Fresh, Quiet, Current
  <2>9. Asked'
    BY <1>1, <1>2, <2>1, <2>2 DEF IInv, Asked
  <2>. QED  BY <2>3, <2>4, <2>6, <2>7, <2>8, <2>9 DEF IInv
<1>. QED  BY <1>3, <1>4

(* Every step keeps the invariant. *)
LEMMA Inductive == IInv /\ [Next]_vars => IInv'
<1>. SUFFICES ASSUME IInv, [Next]_vars PROVE IInv'
  OBVIOUS
<1>1. CASE NotFound \/ Broken
  BY <1>1, RaiseStep DEF NotFound, Broken
<1>2. CASE UNCHANGED vars
  BY <1>2 DEF vars, IInv, Typed, Running, Executed, Halves, Importing, Fresh, Quiet, Current,
              Asked
<1>. QED  BY <1>1, <1>2, EditStep, RunStep, StatementStep, FindStep, ExecStep, BodyStep DEF Next

(* Nothing is loaded and nothing runs in the beginning. *)
LEMMA Initially == Init => IInv
<1>. SUFFICES ASSUME Init PROVE IInv
  OBVIOUS
<1>1. stack = <<>> /\ Len(stack) = 0 /\ metaPath = <<>> /\ Len(metaPath) = 0 /\ entry = <<>>
  BY DEF Init
<1>2. Typed
  <2>1. store \in [Folders -> [Modules -> 0..MaxEdits + 1]] /\ edits \in 0..MaxEdits
    BY BoundsOK DEF Init
  <2>2. loaded \in [Modules -> (Folders \X Versions) \cup {<<>>}]
    BY DEF Init
  <2>3. metaPath \in Seq(Folders) /\ stack \in Seq(Frames)
    BY <1>1, EmptySeq
  <2>4. 1 \in 1..6 /\ FALSE \in BOOLEAN /\ ~(0 = 2) /\ 0 <= 2 /\ 1..0 = {} /\ 0 <= MaxRuns
    BY BoundsOK
  <2>. QED  BY <1>1, <2>1, <2>2, <2>3, <2>4 DEF Init, Typed
<1>3. Running /\ Executed /\ Halves /\ Fresh /\ Asked
  BY <1>1 DEF Init, Running, Executed, Halves, Importing, Fresh, Quiet, Asked, Modules
<1>. QED  BY <1>2, <1>3 DEF IInv

(* It holds always. *)
LEMMA Invariant == Spec => []IInv
  BY Initially, Inductive, PTL DEF Spec

-----------------------------------------------------------------------------
(* Where the modules of sys.modules come from: the finders are the runs. *)
Origin == metaPath = runs /\ (edits = 0 => ~edited) /\ FirstRunWins

(* A run adds its finder behind the others, and a module is asked for in their order. *)
LEMMA OriginStep == IInv /\ Origin /\ [Next]_vars => Origin'
<1>. SUFFICES ASSUME IInv, Origin, [Next]_vars PROVE Origin'
  OBVIOUS
<1>1. CASE Edit
  <2>1. edits' # 0 /\ metaPath' = runs'
    BY <1>1, BoundsOK DEF Edit, Origin, IInv, Typed
  <2>. QED  BY <2>1 DEF Origin, FirstRunWins
<1>2. CASE command_Run
  <2>1. PICK f \in Folders : metaPath' = Append(metaPath, f) /\ runs' = Append(runs, f)
    BY <1>2 DEF command_Run, AddFinder
  <2>2. ~edited' /\ UNCHANGED <<edits, loaded, store>>
    BY <1>2 DEF command_Run
  <2>3. runs \in Seq(Folders)
    BY DEF Origin, IInv, Typed
  <2>4. /\ Len(runs') = Len(runs) + 1 /\ Len(runs) \in Nat
        /\ \A j \in 1..Len(runs) : runs'[j] = runs[j]
    BY <2>1, <2>3, AppendProperties
  <2>5. FirstRunWins'
    <3>. SUFFICES ASSUME edits = 0, NEW m \in Modules, loaded[m] # <<>>
                  PROVE  \E k \in 1..Len(runs') :
                           /\ loaded[m][1] = runs'[k] /\ store[runs'[k]][m] # 0
                           /\ \A j \in 1..(k - 1) : store[runs'[j]][m] = 0
      BY <2>2 DEF FirstRunWins
    <3>1. PICK k \in 1..Len(runs) :
            /\ loaded[m][1] = runs[k] /\ store[runs[k]][m] # 0
            /\ \A j \in 1..(k - 1) : store[runs[j]][m] = 0
      BY DEF Origin, FirstRunWins
    <3>2. k \in 1..Len(runs') /\ \A j \in 1..(k - 1) : j \in 1..Len(runs)
      BY <2>4
    <3>. QED  BY <2>4, <3>1, <3>2
  <2>. QED  BY <2>1, <2>2, <2>5 DEF Origin
<1>3. CASE NotFound \/ Broken \/ (ExecModule /\ Raise)
  <2>1. Raise
    BY <1>3 DEF NotFound, Broken
  <2>2. UNCHANGED <<metaPath, runs, edits, edited, store>>
    BY <2>1 DEF Raise, AppOnly
  <2>3. \A m \in Modules : loaded'[m] \in {loaded[m], <<>>}
    BY <2>1 DEF Raise
  <2>. QED  BY <2>2, <2>3 DEF Origin, FirstRunWins
<1>4. CASE ExecModule /\ ~Raise
  <2>. DEFINE m == Top.mod
              at == Top.at
  <2>1. /\ stack # <<>> /\ Top.phase = "get" /\ store[FolderOf(Top)][m] # 0
        /\ loaded' = [loaded EXCEPT ![m] = <<FolderOf(Top), store[FolderOf(Top)][m]>>]
        /\ UNCHANGED <<metaPath, runs, edits, edited, store>>
    BY <1>4 DEF ExecModule, AppOnly
  <2>2. /\ Len(stack) \in 1..2 /\ Top = stack[Len(stack)] /\ Top \in Frames
    BY <2>1, TopIs DEF IInv
  <2>3. at \in 1..Len(runs) /\ m \in Modules
    BY <2>1, <2>2 DEF IInv, Typed, Frames, Origin
  <2>4. loaded'[m][1] = runs[at] /\ store[runs[at]][m] # 0
    BY <2>1, <2>3 DEF FolderOf, Origin, IInv, Typed
  <2>5. edits = 0 => \A j \in 1..(at - 1) : store[runs[j]][m] = 0
    <3>. SUFFICES ASSUME edits = 0, NEW j \in 1..(at - 1) PROVE store[metaPath[j]][m] = 0
      BY DEF Origin
    <3>0. \A n \in 1..2 : n \in 1..n
      OBVIOUS
    <3>1. Len(stack) \in 1..Len(stack)
      BY <2>2, <3>0, Zenon
    <3>2. ~edited /\ j \in 1..(stack[Len(stack)].at - 1) /\ stack[Len(stack)].mod = m
      BY <2>2 DEF Origin
    <3>. HIDE DEF m, at
    <3>. QED  BY <3>1, <3>2 DEF IInv, Asked
  <2>6. \A n \in Modules : n # m => loaded'[n] = loaded[n]
    BY <2>1 DEF IInv, Typed
  <2>. HIDE DEF m, at
  <2>7. FirstRunWins'
    BY <2>1, <2>3, <2>4, <2>5, <2>6 DEF Origin, FirstRunWins
  <2>. QED  BY <2>1, <2>7 DEF Origin
<1>5. CASE Statement \/ FindSpec \/ Body \/ UNCHANGED vars
  BY <1>5 DEF Statement, FindSpec, Body, AppOnly, vars, Origin, FirstRunWins
<1>. QED  BY <1>1, <1>2, <1>3, <1>4, <1>5 DEF Next

(* Every state satisfies it. *)
LEMMA OriginHolds == Spec => []Origin
<1>1. Init => Origin
  BY DEF Init, Origin, FirstRunWins
<1>. QED  BY <1>1, Invariant, OriginStep, PTL DEF Spec

-----------------------------------------------------------------------------
(* Every variable has its type, a reload is never nested, and the newest     *)
(* finder is the one of the run (app.py:198-206).                            *)
THEOREM TypeCorrect == Spec => []TypeOK
<1>1. IInv /\ Origin => TypeOK
  <2>. SUFFICES ASSUME IInv, Origin PROVE TypeOK
    OBVIOUS
  <2>1. \A m \in Modules : loaded[m] = <<>> \/ loaded[m] \in Folders \X (1..MaxEdits + 1)
    BY DEF IInv, Typed, Versions
  <2>2. entry = <<>> \/ (entry[1] \in Folders /\ entry[1] = metaPath[Len(metaPath)])
    <3>. SUFFICES ASSUME entry # <<>>
                  PROVE  entry[1] \in Folders /\ entry[1] = metaPath[Len(metaPath)]
      OBVIOUS
    <3>1. entry = <<metaPath[Len(metaPath)]>> /\ Len(metaPath) > 0 /\ metaPath \in Seq(Folders)
      BY DEF IInv, Running, Typed
    <3>2. Len(metaPath) \in 1..Len(metaPath)
      BY <3>1
    <3>. QED  BY <3>1, <3>2
  <2>3. \A i \in 1..Len(stack) : stack[i].kind = "reload" => i = 1
    <3>1. /\ stack \in Seq(Frames) /\ Len(stack) <= 2
          /\ Len(stack) = 2 => stack[2].kind = "import"
      BY DEF IInv, Typed
    <3>2. \A i \in 1..Len(stack) : i = 1 \/ (i = 2 /\ Len(stack) = 2)
      BY <3>1
    <3>. QED  BY <3>1, <3>2
  <2>4. Len(Program) + 1 = 6
    BY ProgramIs
  <2>. QED  BY <2>1, <2>2, <2>3, <2>4 DEF IInv, Typed, TypeOK, Origin
<1>. QED  BY <1>1, Invariant, OriginHolds, PTL

(* The import and the exceptions keep sys.modules consistent: foo is there     *)
(* without bar only while it is being imported, and an exception takes both    *)
(* away then (app.py:161-170).                                                 *)
THEOREM ImportsCompleteHolds == Spec => []ImportsComplete
<1>1. IInv => ImportsComplete
  <2>. SUFFICES ASSUME IInv, stack = <<>>, loaded["foo"] # <<>> PROVE loaded["bar"] # <<>>
    BY DEF ImportsComplete, Imports, Modules
  <2>1. ~Importing("foo")
    BY DEF Importing
  <2>. QED  BY <2>1 DEF IInv, Halves
<1>. QED  BY <1>1, Invariant, PTL

(* No finder is ever removed and every run appends its own, so sys.modules     *)
(* keeps to the run that came first (app.py:181-206).                          *)
THEOREM FirstRunWinsHolds == Spec => []FirstRunWins
<1>1. Origin => FirstRunWins
  BY DEF Origin
<1>. QED  BY <1>1, OriginHolds, PTL

(* With the finders of one folder, an application that reloads its modules     *)
(* uses them as they are on S3 now: a reload executes the code again, and what *)
(* the last reload imports is reloaded or imported in this run                 *)
(* (app.py:161-170, 181-206; README.md:19; test/test.py:127-135).              *)
THEOREM UsesCurrentHolds == Spec => []UsesCurrent
<1>1. IInv => UsesCurrent
  <2>. SUFFICES ASSUME IInv, Quiet, stack = <<>>, Program[step][1] = "use", NEW m \in Modules
                PROVE  Current(m)
    BY DEF UsesCurrent, Quiet, Current
  <2>1. step = 5
    BY ProgramIs DEF IInv, Typed, Running, Quiet
  <2>. QED  BY <2>1 DEF IInv, Fresh, Modules
<1>. QED  BY <1>1, Invariant, PTL
===============================================================================
