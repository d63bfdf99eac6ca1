---------------------------- MODULE AppWizardProofs ----------------------------
(***************************************************************************)
(* Proofs about AppWizard, for every set of answers and number of runs.    *)
(***************************************************************************)
EXTENDS AppWizard, SequenceTheorems, TLAPS

InRange == c \in Answers /\ step \in 0..(NSteps + 1)
Count == runs \in 0..MaxRuns

(* A run has the place for itself: behind its first step, the files below its *)
(* top directory are those it has written itself, and they are whole.         *)
Rooted == \A p \in DOMAIN files : <<p[1]>> \in dirs
Made == step > 1 => <<c.application_name>> \in dirs
OwnFiles == step > 1 => \A p \in DOMAIN files : p[1] = c.application_name =>
                          \E k \in 1..(step - NDirs - 1) : p = Paths(c)[k]
Wrote == step > 1 => \A k \in 1..(step - NDirs - 1) :
           Paths(c)[k] \in DOMAIN files /\ files[Paths(c)[k]] = Contents(c)[k]

(* What is below a top directory is the work of one run: the first k files of its *)
(* answer, whole, and perhaps the next one, torn.                                 *)
WrittenBy(a, k) ==
  /\ \A i \in 1..k : Paths(a)[i] \in DOMAIN files /\ files[Paths(a)[i]] = Contents(a)[i]
  /\ \A p \in DOMAIN files : p[1] = a.application_name =>
       \/ \E i \in 1..k : p = Paths(a)[i]
       \/ k < 6 /\ p = Paths(a)[k + 1] /\ files[p] = Torn
OneRun == \A d \in dirs : \E a \in Answers, k \in 0..6 :
            d[1] = a.application_name /\ WrittenBy(a, k)

(* Each file is in a directory, which its run made before it. *)
PackageDir(a) == <<a.application_name, "packages", a.code_package_name>>
Parents(a) == << Dirs(a)[2], Dirs(a)[3], Dirs(a)[4], PackageDir(a), PackageDir(a), PackageDir(a) >>
Housed == \A a \in Answers, i \in 1..6 : Paths(a)[i] \in DOMAIN files => Parents(a)[i] \in dirs
ToHouse == /\ \A j \in 2..NDirs : step > j => Dirs(c)[j] \in dirs
           /\ step > NDirs => PackageDir(c) \in dirs

IInv == InRange /\ Count /\ Rooted /\ Made /\ OwnFiles /\ Wrote /\ OneRun /\ ToHouse /\ Housed

-----------------------------------------------------------------------------
Folder(p) == SubSeq(p, 1, Len(p) - 1)

(* The beginning of a sequence. *)
LEMMA PrefixIs ==
  ASSUME NEW S, NEW s \in Seq(S), NEW t \in Seq(S), Len(t) <= Len(s),
         \A i \in 1..Len(t) : t[i] = s[i]
  PROVE  SubSeq(s, 1, Len(t)) = t
<1>. DEFINE n == Len(t)
            u == SubSeq(s, 1, n)
<1>1. n \in Nat /\ Len(s) \in Nat
  BY LenProperties
<1>2. \A i \in 1..n : s[i] \in S
  BY <1>1, ElementOfSeq
<1>. HIDE DEF n
<1>3. 1 \in Int /\ n \in Int
  BY <1>1
<1>4. u \in Seq(S) /\ Len(u) = (IF 1 <= n THEN n - 1 + 1 ELSE 0) /\ \A i \in 1..(n - 1 + 1) : u[i] = s[1 + i - 1]
  BY <1>2, <1>3, SubSeqProperties
<1>. HIDE DEF u
<1>5. Len(u) = n /\ \A i \in 1..n : u[i] = s[i]
  BY <1>1, <1>4
<1>6. u = t
  BY <1>4, <1>5, SeqEqual DEF n
<1>. QED  BY <1>6 DEF u, n

(* The directory of a path: the path without its last part. *)
LEMMA Folders ==
  ASSUME NEW x, NEW y, NEW z, NEW u, NEW v
  PROVE  /\ Folder(<<x, y, z>>) = <<x, y>>
         /\ Folder(<<x, y, z, u>>) = <<x, y, z>>
         /\ Folder(<<x, y, z, u, v>>) = <<x, y, z, u>>
<1>. DEFINE S == {x, y, z, u, v}
            a == <<x, y>>
            b == <<x, y, z>>
            d == <<x, y, z, u>>
            e == <<x, y, z, u, v>>
<1>1. a \in Seq(S) /\ b \in Seq(S) /\ d \in Seq(S) /\ e \in Seq(S)
  OBVIOUS
<1>2. Len(a) = 2 /\ Len(b) = 3 /\ Len(d) = 4 /\ Len(e) = 5
  OBVIOUS
<1>3. \A i \in 1..2 : a[i] = b[i]
  OBVIOUS
<1>4. \A i \in 1..3 : b[i] = d[i]
  OBVIOUS
<1>5. \A i \in 1..4 : d[i] = e[i]
  OBVIOUS
<1>. HIDE DEF S, a, b, d, e
<1>6. SubSeq(b, 1, Len(a)) = a
  BY <1>1, <1>2, <1>3, PrefixIs
<1>7. SubSeq(d, 1, Len(b)) = b
  BY <1>1, <1>2, <1>4, PrefixIs
<1>8. SubSeq(e, 1, Len(d)) = d
  BY <1>1, <1>2, <1>5, PrefixIs
<1>9. Len(a) = Len(b) - 1 /\ Len(b) = Len(d) - 1 /\ Len(d) = Len(e) - 1
  BY <1>2
<1>10. Folder(b) = a /\ Folder(d) = b /\ Folder(e) = d
  BY <1>6, <1>7, <1>8, <1>9, Zenon DEF Folder
<1>. QED  BY <1>10 DEF a, b, d, e
(* The paths of an application are below its top directory and distinct, and   *)
(* package.json is the last of them.                                           *)
LEMMA PathsBelowTop ==
  ASSUME NEW a \in Answers, NEW i \in 1..6, NEW j \in 1..6
  PROVE  /\ Paths(a)[i][1] = a.application_name
         /\ Paths(a)[i] = Paths(a)[j] => i = j
         /\ \A b : Paths(a)[i] = InPackage(b, "package.json") => i = 6
         /\ Paths(a)[6] = InPackage(a, "package.json")
<1>. DEFINE n == a.application_name
            code == a.code_package_name
<1>1. /\ Paths(a)[1] = <<n, "assets", ".keepme">>
      /\ Paths(a)[2] = <<n, "graphs", n, "graph.json">>
      /\ Paths(a)[3] = <<n, "packages", code, "src", a.py_file_name>>
      /\ Paths(a)[4] = <<n, "packages", code, "Dockerfile">>
      /\ Paths(a)[5] = <<n, "packages", code, "descriptor.json">>
      /\ Paths(a)[6] = <<n, "packages", code, "package.json">>
  BY DEF Paths, Graph, Source, InPackage
<1>. HIDE DEF n, code
<1>2. Paths(a)[i][1] = n /\ (Paths(a)[i] = Paths(a)[j] => i = j)
  BY <1>1
<1>3. ASSUME NEW x, NEW y, Paths(a)[i] = <<x, "packages", y, "package.json">> PROVE i = 6
  BY <1>1, <1>3
<1>4. \A b : Paths(a)[i] = InPackage(b, "package.json") => i = 6
  BY <1>3, Zenon DEF InPackage
<1>5. Paths(a)[6] = InPackage(a, "package.json")
  BY <1>1 DEF InPackage, n, code
<1>. QED  BY <1>2, <1>4, <1>5 DEF n

(* Where the files of an application are. *)
LEMMA ParentIs ==
  ASSUME NEW a \in Answers, NEW i \in 1..6
  PROVE  /\ Folder(Paths(a)[i]) = Parents(a)[i]
         /\ Parents(a)[i][1] = a.application_name
<1>. DEFINE n == a.application_name
            code == a.code_package_name
<1>1. /\ Paths(a)[1] = <<n, "assets", ".keepme">> /\ Parents(a)[1] = <<n, "assets">>
      /\ Paths(a)[2] = <<n, "graphs", n, "graph.json">> /\ Parents(a)[2] = <<n, "graphs", n>>
      /\ Paths(a)[3] = <<n, "packages", code, "src", a.py_file_name>>
      /\ Parents(a)[3] = <<n, "packages", code, "src">>
      /\ Paths(a)[4] = <<n, "packages", code, "Dockerfile">>
      /\ Paths(a)[5] = <<n, "packages", code, "descriptor.json">>
      /\ Paths(a)[6] = <<n, "packages", code, "package.json">>
      /\ \A k \in 4..6 : Parents(a)[k] = <<n, "packages", code>>
  BY DEF Paths, Graph, Source, InPackage, Parents, Dirs, PackageDir
<1>2. Parents(a)[i][1] = n
  BY <1>1
<1>. HIDE DEF n, code
<1>3. Folder(Paths(a)[1]) = Parents(a)[1]
  <2>1. Folder(<<n, "assets", ".keepme">>) = <<n, "assets">>
    BY Folders
  <2>. QED  BY <1>1, <2>1, Zenon
<1>4. Folder(Paths(a)[2]) = Parents(a)[2]
  <2>1. Folder(<<n, "graphs", n, "graph.json">>) = <<n, "graphs", n>>
    BY Folders
  <2>. QED  BY <1>1, <2>1, Zenon
<1>5. Folder(Paths(a)[3]) = Parents(a)[3]
  <2>1. Folder(<<n, "packages", code, "src", a.py_file_name>>) = <<n, "packages", code, "src">>
    BY Folders
  <2>. QED  BY <1>1, <2>1, Zenon
<1>6. \A m : /\ Folder(<<n, "packages", code, m>>) = <<n, "packages", code>>
  BY Folders, Zenon
<1>7. 4 \in 4..6 /\ 5 \in 4..6 /\ 6 \in 4..6
  OBVIOUS
<1>8. /\ Folder(Paths(a)[4]) = Parents(a)[4] /\ Folder(Paths(a)[5]) = Parents(a)[5]
      /\ Folder(Paths(a)[6]) = Parents(a)[6]
  BY <1>1, <1>6, <1>7, Zenon
<1>9. i = 1 \/ i = 2 \/ i = 3 \/ i = 4 \/ i = 5 \/ i = 6
  OBVIOUS
<1>10. Folder(Paths(a)[i]) = Parents(a)[i]
  BY <1>3, <1>4, <1>5, <1>8, <1>9, Zenon
<1>. QED  BY <1>2, <1>10 DEF n

(* What makedirs makes for a directory: it and those above it. *)
LEMMA Ancestors ==
  ASSUME NEW a \in Answers, NEW j \in 1..4
  PROVE  LET d == Dirs(a)[j]
             D == WithParents(d)
         IN  /\ \A e \in D : e[1] = a.application_name
             /\ d \in D
             /\ j = 4 => PackageDir(a) \in D
             /\ j = 1 => d = <<a.application_name>>
             /\ d[1] = a.application_name
<1>. DEFINE app == a.application_name
            code == a.code_package_name
            d == Dirs(a)[j]
            D == WithParents(d)
            S == {app, "assets", "graphs", "packages", code, "src"}
<1>1. /\ Dirs(a)[1] = <<app>> /\ Dirs(a)[2] = <<app, "assets">>
      /\ Dirs(a)[3] = <<app, "graphs", app>> /\ Dirs(a)[4] = <<app, "packages", code, "src">>
  BY DEF Dirs, InPackage
<1>2. /\ <<app>> \in Seq(S) /\ <<app, "assets">> \in Seq(S)
      /\ <<app, "graphs", app>> \in Seq(S) /\ <<app, "packages", code, "src">> \in Seq(S)
  OBVIOUS
<1>3. d \in Seq(S) /\ Len(d) \in 1..4 /\ d[1] = app
  <2>1. /\ Len(<<app>>) = 1 /\ Len(<<app, "assets">>) = 2 /\ Len(<<app, "graphs", app>>) = 3
        /\ Len(<<app, "packages", code, "src">>) = 4
    OBVIOUS
  <2>2. /\ <<app>>[1] = app /\ <<app, "assets">>[1] = app /\ <<app, "graphs", app>>[1] = app
        /\ <<app, "packages", code, "src">>[1] = app
    OBVIOUS
  <2>3. (j = 1 \/ j = 2 \/ j = 3 \/ j = 4) /\ 1 \in 1..4 /\ 2 \in 1..4 /\ 3 \in 1..4 /\ 4 \in 1..4
    OBVIOUS
  <2>. QED  BY <1>1, <1>2, <2>1, <2>2, <2>3, Zenon
<1>. HIDE DEF S, d
<1>4. ASSUME NEW n \in 1..Len(d) PROVE SubSeq(d, 1, n)[1] = app
  <2>1. \A i \in 1..n : d[i] \in S
    BY <1>3, ElementOfSeq
  <2>2. 1 \in Int /\ n \in Int
    OBVIOUS
  <2>3. \A i \in 1..(n - 1 + 1) : SubSeq(d, 1, n)[i] = d[1 + i - 1]
    BY <2>1, <2>2, SubSeqProperties
  <2>4. SubSeq(d, 1, n)[1] = d[1]
    BY <1>3, <2>3
  <2>. QED  BY <1>3, <2>4
<1>5. d \in D
  <2>1. SubSeq(d, 1, Len(d)) = d
    BY <1>3, SubSeqFull
  <2>2. Len(d) \in 1..Len(d)
    BY <1>3
  <2>. QED  BY <2>1, <2>2 DEF WithParents
<1>6. j = 4 => PackageDir(a) \in D
  <2>. HAVE j = 4
  <2>1. d = <<app, "packages", code, "src">>
    BY <1>1 DEF d
  <2>2. Folder(d) = <<app, "packages", code>>
    BY <2>1, Folders, Zenon
  <2>3. Len(d) - 1 \in 1..Len(d)
    <3>1. Len(d) = 4
      BY <2>1
    <3>. QED  BY <3>1
  <2>4. Folder(d) \in D
    BY <2>3 DEF Folder, WithParents
  <2>. QED  BY <2>2, <2>4, Zenon DEF PackageDir
<1>7. j = 1 => d = <<app>>
  BY <1>1 DEF d
<1>. QED  BY <1>3, <1>4, <1>5, <1>6, <1>7 DEF d, WithParents

(* Whole files are not torn. *)
LEMMA WholeIsNotTorn ==
  ASSUME NEW a \in Answers, NEW i \in 1..6
  PROVE  Contents(a)[i] # Torn
<1>1. /\ [size |-> 0] # Torn /\ py_file # Torn /\ [copies |-> "src"] # Torn
      /\ Manifest(a) # Torn /\ Descriptor(a) # Torn /\ CodePackage(a) # Torn
  <2>1. [size |-> 0] # Torn
    BY DEF Torn
  <2>2. py_file # Torn
    BY DEF Torn, py_file
  <2>3. [copies |-> "src"] # Torn
    BY DEF Torn
  <2>4. Manifest(a) # Torn
    BY DEF Torn, Manifest
  <2>5. Descriptor(a) # Torn
    BY DEF Torn, Descriptor
  <2>6. CodePackage(a) # Torn
    BY DEF Torn, CodePackage
  <2>. QED  BY <2>1, <2>2, <2>3, <2>4, <2>5, <2>6
<1>. HIDE DEF Torn, Manifest, Descriptor, CodePackage, py_file
<1>. QED  BY <1>1 DEF Contents

(* An application whose files are not touched stays the work of its run. *)
LEMMA Untouched ==
  ASSUME NEW a \in Answers, NEW k \in 0..6, WrittenBy(a, k),
         \A p \in DOMAIN files : p[1] = a.application_name =>
            p \in DOMAIN files' /\ files'[p] = files[p],
         \A p \in DOMAIN files' : p[1] = a.application_name => p \in DOMAIN files
  PROVE  WrittenBy(a, k)'
<1>1. \A i \in 1..k : Paths(a)[i][1] = a.application_name
  BY PathsBelowTop
<1>2. \A i \in 1..k : Paths(a)[i] \in DOMAIN files' /\ files'[Paths(a)[i]] = Contents(a)[i]
  BY <1>1 DEF WrittenBy
<1>3. ASSUME NEW p \in DOMAIN files', p[1] = a.application_name
      PROVE  \/ \E i \in 1..k : p = Paths(a)[i]
             \/ k < 6 /\ p = Paths(a)[k + 1] /\ files'[p] = Torn
  BY <1>3 DEF WrittenBy
<1>. QED  BY <1>2, <1>3 DEF WrittenBy

(* The invariant holds before the first step of the wizard. *)
LEMMA Initially == Init => IInv
<1>. SUFFICES ASSUME Init PROVE IInv
  OBVIOUS
<1>1. c \in Answers /\ step = 0 /\ dirs = {} /\ DOMAIN files = {} /\ runs = 0
  BY DEF Init
<1>2. InRange /\ Count /\ Rooted /\ Made /\ OwnFiles /\ Wrote /\ OneRun /\ ToHouse
  BY <1>1, AnswersOK DEF InRange, Count, Rooted, Made, OwnFiles, Wrote, OneRun, ToHouse, NSteps, NDirs
<1>3. Housed
  BY <1>1 DEF Housed
<1>. QED  BY <1>2, <1>3 DEF IInv

(* When all directories are made, each file has one. *)
LEMMA AllHoused ==
  ASSUME IInv, step > 4, NEW i \in 1..6
  PROVE  Parents(c)[i] \in dirs
<1>1. /\ Dirs(c)[2] \in dirs /\ Dirs(c)[3] \in dirs /\ Dirs(c)[4] \in dirs
      /\ PackageDir(c) \in dirs
  BY DEF IInv, InRange, ToHouse, NSteps, NDirs
<1>2. /\ Parents(c)[1] = Dirs(c)[2] /\ Parents(c)[2] = Dirs(c)[3] /\ Parents(c)[3] = Dirs(c)[4]
      /\ Parents(c)[4] = PackageDir(c) /\ Parents(c)[5] = PackageDir(c)
      /\ Parents(c)[6] = PackageDir(c)
  BY DEF Parents
<1>3. i = 1 \/ i = 2 \/ i = 3 \/ i = 4 \/ i = 5 \/ i = 6
  OBVIOUS
<1>. QED  BY <1>1, <1>2, <1>3, Zenon

(* A run that writes its next file, or tears it, leaves its other files and the *)
(* other applications alone.                                                    *)
LEMMA WriteNext ==
  ASSUME IInv, step \in 5..10, NEW contents,
         files' = With(Paths(c)[step - NDirs], contents), dirs' = dirs
  PROVE  /\ Rooted' /\ Housed'
         /\ \A i \in 1..(step - NDirs - 1) :
              Paths(c)[i] \in DOMAIN files' /\ files'[Paths(c)[i]] = Contents(c)[i]
         /\ DOMAIN files' = DOMAIN files \cup {Paths(c)[step - NDirs]}
         /\ files'[Paths(c)[step - NDirs]] = contents
         /\ \A d \in dirs : d[1] # c.application_name =>
              \E a \in Answers, k \in 0..6 : d[1] = a.application_name /\ WrittenBy(a, k)'
<1>. DEFINE k == step - NDirs
            P == Paths(c)[k]
<1>. USE DEF NDirs, NSteps
<1>1. k \in 1..6 /\ c \in Answers /\ P[1] = c.application_name
  BY PathsBelowTop DEF IInv, InRange
<1>2. /\ DOMAIN files' = DOMAIN files \cup {P} /\ files'[P] = contents
      /\ \A p \in DOMAIN files : p # P => files'[p] = files[p]
  BY DEF With
<1>3. Rooted'
  <2>1. <<P[1]>> \in dirs
    BY <1>1 DEF IInv, Made
  <2>. QED  BY <1>2, <2>1 DEF IInv, Rooted
<1>4. Housed'
  <2>. SUFFICES ASSUME NEW a \in Answers, NEW i \in 1..6, Paths(a)[i] \in DOMAIN files'
                PROVE  Parents(a)[i] \in dirs
    BY DEF Housed, Parents, Dirs, PackageDir, Paths
  <2>1. CASE Paths(a)[i] \in DOMAIN files
    BY <2>1 DEF IInv, Housed
  <2>2. CASE Paths(a)[i] = P
    <3>1. Parents(a)[i] = Parents(c)[k]
      BY <1>1, <2>2, ParentIs, Zenon
    <3>2. Parents(c)[k] \in dirs
      BY <1>1, AllHoused
    <3>. QED  BY <3>1, <3>2
  <2>. QED  BY <1>2, <2>1, <2>2
<1>5. ASSUME NEW i \in 1..(k - 1)
      PROVE  Paths(c)[i] \in DOMAIN files' /\ files'[Paths(c)[i]] = Contents(c)[i]
  <2>1. Paths(c)[i] \in DOMAIN files /\ files[Paths(c)[i]] = Contents(c)[i]
    BY DEF IInv, Wrote
  <2>2. Paths(c)[i] # P
    <3>1. i \in 1..6 /\ i # k
      BY <1>1
    <3>. QED  BY <1>1, <3>1, PathsBelowTop
  <2>. QED  BY <1>2, <2>1, <2>2
<1>6. ASSUME NEW d \in dirs, d[1] # c.application_name
      PROVE  \E a \in Answers, n \in 0..6 : d[1] = a.application_name /\ WrittenBy(a, n)'
  <2>1. PICK a \in Answers, n \in 0..6 : d[1] = a.application_name /\ WrittenBy(a, n)
    BY DEF IInv, OneRun
  <2>2. WrittenBy(a, n)'
    <3>. HIDE DEF P
    <3>1. \A p \in DOMAIN files : p[1] = a.application_name =>
            p \in DOMAIN files' /\ files'[p] = files[p]
      BY <1>1, <1>2, <1>6, <2>1
    <3>2. \A p \in DOMAIN files' : p[1] = a.application_name => p \in DOMAIN files
      BY <1>1, <1>2, <1>6, <2>1
    <3>. QED  BY <2>1, <3>1, <3>2, Untouched
  <2>. QED  BY <2>1, <2>2
<1>. QED  BY <1>2, <1>3, <1>4, <1>5, <1>6

(* A step that changes no directory and no file, and starts or ends a run. *)
LEMMA Between ==
  ASSUME IInv, step' \in {0, 1}, c' \in Answers, runs' \in 0..MaxRuns, dirs' = dirs, files' = files
  PROVE  IInv'
<1>1. InRange' /\ Count' /\ Made' /\ OwnFiles' /\ Wrote' /\ ToHouse'
  <2>1. step' \in 0..(NSteps + 1) /\ ~(step' > 1) /\ ~(step' > NDirs)
        /\ \A j \in 2..NDirs : ~(step' > j)
    BY DEF NSteps, NDirs
  <2>2. NDirs' = NDirs /\ NSteps' = NSteps
    BY DEF NDirs, NSteps
  <2>. QED  BY <2>1, <2>2 DEF InRange, Count, Made, OwnFiles, Wrote, ToHouse
<1>2. Rooted' /\ Housed'
  BY DEF IInv, Rooted, Housed
<1>3. OneRun'
  BY DEF IInv, OneRun, WrittenBy
<1>. QED  BY <1>1, <1>2, <1>3 DEF IInv

(* Every step keeps it. *)
LEMMA Inductive == IInv /\ [Next]_vars => IInv'
<1>. SUFFICES ASSUME IInv, [Next]_vars PROVE IInv'
  OBVIOUS
<1>. USE DEF NDirs, NSteps
<1>0. c \in Answers /\ step \in 0..11 /\ runs \in 0..MaxRuns /\ MaxRuns \in Nat
  BY AnswersOK DEF IInv, InRange, Count
<1>1. CASE gather_configuration
  <2>1. runs' \in 0..MaxRuns
    BY <1>0, <1>1 DEF gather_configuration
  <2>. QED  BY <1>1, <2>1, Between DEF gather_configuration
<1>2. CASE makedirs
  <2>. DEFINE n == c.application_name
              d == Dirs(c)[step]
              D == WithParents(d)
  <2>1. step \in 1..4 /\ files' = files /\ c' = c /\ runs' = runs
    BY <1>2 DEF makedirs, End, Continue
  <2>2. CASE step' = 0 /\ dirs' = dirs
    BY <1>0, <2>1, <2>2, Between
  <2>3. CASE step' = step + 1 /\ d \notin dirs /\ dirs' = dirs \cup D
    <3>1. /\ \A e \in D : e[1] = n
          /\ d \in D
          /\ step = 4 => PackageDir(c) \in D
          /\ step = 1 => d = <<n>>
      BY <1>0, <2>1, Ancestors
    <3>. HIDE DEF D, d
    <3>2. \A p \in DOMAIN files : p[1] # n
      <4>1. CASE step = 1
        BY <2>3, <3>1, <4>1 DEF IInv, Rooted
      <4>2. CASE step > 1
        BY <2>1, <4>2 DEF IInv, OwnFiles
      <4>. QED  BY <2>1, <4>1, <4>2
    <3>3. InRange' /\ Count' /\ Rooted' /\ Housed'
      BY <2>1, <2>3 DEF IInv, InRange, Count, Rooted, Housed
    <3>4. Made'
      <4>1. step = 1 => <<n>> \in dirs'
        BY <2>3, <3>1
      <4>2. step > 1 => <<n>> \in dirs'
        BY <2>3 DEF IInv, Made
      <4>. QED  BY <2>1, <4>1, <4>2 DEF Made
    <3>5. OwnFiles' /\ Wrote'
      BY <2>1, <2>3, <3>2 DEF OwnFiles, Wrote
    <3>6. ToHouse'
      <4>1. ASSUME NEW j \in 2..4, step' > j PROVE Dirs(c)[j] \in dirs'
        <5>1. j = step \/ step > j
          BY <2>1, <2>3, <4>1
        <5>. QED  BY <2>3, <3>1, <5>1 DEF IInv, ToHouse, d
      <4>2. step' > 4 => PackageDir(c) \in dirs'
        BY <2>1, <2>3, <3>1
      <4>. QED  BY <2>1, <4>1, <4>2 DEF ToHouse
    <3>7. OneRun'
      <4>1. PICK own \in Answers : own = c
        BY <1>0
      <4>4. WrittenBy(own, 0)'
        BY <2>1, <3>2, <4>1 DEF WrittenBy
      <4>2. ASSUME NEW e \in dirs
            PROVE  \E a \in Answers, k \in 0..6 : e[1] = a.application_name /\ WrittenBy(a, k)'
        BY <2>1 DEF IInv, OneRun, WrittenBy
      <4>3. ASSUME NEW e \in D
            PROVE  \E a \in Answers, k \in 0..6 : e[1] = a.application_name /\ WrittenBy(a, k)'
        <5>1. e[1] = own.application_name /\ 0 \in 0..6 /\ WrittenBy(own, 0)'
          BY <3>1, <4>1, <4>4
        <5>. QED  BY <5>1
      <4>. QED  BY <2>3, <4>2, <4>3 DEF OneRun
    <3>. QED  BY <3>3, <3>4, <3>5, <3>6, <3>7 DEF IInv
  <2>. QED  BY <1>2, <2>1, <2>2, <2>3 DEF makedirs, End, Continue
<1>3. CASE create_text_file
  <2>. DEFINE k == step - NDirs
              P == Paths(c)[k]
  <2>1. /\ step \in 5..10 /\ step' = step + 1 /\ c' = c /\ runs' = runs /\ dirs' = dirs
        /\ files' = With(P, Contents(c)[k])
    BY <1>3 DEF create_text_file, Continue
  <2>2. /\ Rooted' /\ Housed'
        /\ \A i \in 1..(k - 1) : Paths(c)[i] \in DOMAIN files' /\ files'[Paths(c)[i]] = Contents(c)[i]
        /\ DOMAIN files' = DOMAIN files \cup {P} /\ files'[P] = Contents(c)[k]
        /\ \A d \in dirs : d[1] # c.application_name =>
             \E a \in Answers, n \in 0..6 : d[1] = a.application_name /\ WrittenBy(a, n)'
    BY <2>1, WriteNext
  <2>3. k \in 1..6 /\ step' - NDirs - 1 = k
    BY <2>1
  <2>4. InRange' /\ Count' /\ Made' /\ ToHouse'
    BY <2>1 DEF IInv, InRange, Count, Made, ToHouse
  <2>5. \A i \in 1..k : Paths(c)[i] \in DOMAIN files' /\ files'[Paths(c)[i]] = Contents(c)[i]
    <3>1. \A i \in 1..k : i \in 1..(k - 1) \/ i = k
      BY <2>3
    <3>. HIDE DEF k
    <3>. QED  BY <2>2, <3>1
  <2>6. \A p \in DOMAIN files' : p[1] = c.application_name => \E i \in 1..k : p = Paths(c)[i]
    <3>1. \A p \in DOMAIN files : p[1] = c.application_name => \E i \in 1..(k - 1) : p = Paths(c)[i]
      BY <2>1 DEF IInv, OwnFiles
    <3>2. k \in 1..k /\ \A i \in 1..(k - 1) : i \in 1..k
      BY <2>3
    <3>. HIDE DEF k
    <3>. QED  BY <2>2, <3>1, <3>2
  <2>7. OwnFiles' /\ Wrote'
    <3>. HIDE DEF k
    <3>1. 1..(step' - NDirs - 1) = 1..k
      BY <2>3
    <3>. QED  BY <2>1, <2>5, <2>6, <3>1 DEF OwnFiles, Wrote
  <2>8. OneRun'
    <3>1. PICK own \in Answers, n \in 0..6 : own = c /\ n = k
      BY <1>0, <2>3
    <3>. HIDE DEF k
    <3>2. WrittenBy(own, n)'
      BY <2>5, <2>6, <3>1 DEF WrittenBy
    <3>. QED  BY <2>1, <2>2, <3>1, <3>2 DEF OneRun
  <2>. QED  BY <2>2, <2>4, <2>7, <2>8 DEF IInv
<1>4. CASE Success
  BY <1>0, <1>4, Between DEF Success, End
<1>5. CASE Stop
  <2>1. step' = 0 /\ c' = c /\ dirs' = dirs /\ runs' = runs
    BY <1>5 DEF Stop, End
  <2>2. CASE files' = files
    BY <1>0, <2>1, <2>2, Between
  <2>3. CASE step \in 5..10 /\ files' = With(Paths(c)[step - NDirs], Torn)
    <3>. DEFINE k == step - NDirs
                P == Paths(c)[k]
    <3>1. /\ Rooted' /\ Housed'
          /\ \A i \in 1..(k - 1) : Paths(c)[i] \in DOMAIN files' /\ files'[Paths(c)[i]] = Contents(c)[i]
          /\ DOMAIN files' = DOMAIN files \cup {P} /\ files'[P] = Torn
          /\ \A d \in dirs : d[1] # c.application_name =>
               \E a \in Answers, n \in 0..6 : d[1] = a.application_name /\ WrittenBy(a, n)'
      BY <2>1, <2>3, WriteNext
    <3>2. InRange' /\ Count' /\ Made' /\ ToHouse' /\ OwnFiles' /\ Wrote'
      BY <1>0, <2>1 DEF InRange, Count, Made, ToHouse, OwnFiles, Wrote
    <3>3. \A p \in DOMAIN files : p[1] = c.application_name => \E i \in 1..(k - 1) : p = Paths(c)[i]
      BY <2>3 DEF IInv, OwnFiles
    <3>4. PICK own \in Answers, n \in 0..6 : own = c /\ n = k - 1 /\ n < 6 /\ n + 1 = k
      BY <1>0, <2>3
    <3>. HIDE DEF k
    <3>5. WrittenBy(own, n)'
      <4>1. ASSUME NEW p \in DOMAIN files', p[1] = own.application_name
            PROVE  \/ \E i \in 1..n : p = Paths(own)[i]
                   \/ n < 6 /\ p = Paths(own)[n + 1] /\ files'[p] = Torn
        BY <3>1, <3>3, <3>4, <4>1
      <4>2. \A i \in 1..n : Paths(own)[i] \in DOMAIN files' /\ files'[Paths(own)[i]] = Contents(own)[i]
        BY <3>1, <3>4
      <4>. QED  BY <4>1, <4>2 DEF WrittenBy
    <3>6. OneRun'
      BY <2>1, <3>1, <3>4, <3>5 DEF OneRun
    <3>. QED  BY <3>1, <3>2, <3>6 DEF IInv
  <2>. QED  BY <1>5, <2>2, <2>3 DEF Stop
<1>6. CASE Remove
  <2>1. PICK d \in dirs : /\ step = 0 /\ Len(d) = 1
                          /\ dirs' = {e \in dirs : e[1] # d[1]}
                          /\ files' = [p \in {q \in DOMAIN files : q[1] # d[1]} |-> files[p]]
                          /\ UNCHANGED <<c, step, runs>>
    BY <1>6 DEF Remove
  <2>2. /\ DOMAIN files' = {q \in DOMAIN files : q[1] # d[1]}
        /\ \A p \in DOMAIN files' : files'[p] = files[p]
    BY <2>1
  <2>3. InRange' /\ Count' /\ Made' /\ OwnFiles' /\ Wrote' /\ ToHouse'
    BY <1>0, <2>1 DEF InRange, Count, Made, OwnFiles, Wrote, ToHouse
  <2>4. Rooted'
    <3>1. \A x : <<x>>[1] = x
      OBVIOUS
    <3>. QED  BY <2>1, <2>2, <3>1 DEF IInv, Rooted
  <2>5. Housed'
    <3>. SUFFICES ASSUME NEW a \in Answers, NEW i \in 1..6, Paths(a)[i] \in DOMAIN files'
                  PROVE  Parents(a)[i] \in dirs'
      BY DEF Housed, Parents, Dirs, PackageDir, Paths
    <3>1. Parents(a)[i] \in dirs
      BY <2>2 DEF IInv, Housed
    <3>2. Parents(a)[i][1] = Paths(a)[i][1]
      BY ParentIs, PathsBelowTop
    <3>. QED  BY <2>1, <2>2, <3>1, <3>2
  <2>6. OneRun'
    <3>1. ASSUME NEW e \in dirs'
          PROVE  \E a \in Answers, k \in 0..6 : e[1] = a.application_name /\ WrittenBy(a, k)'
      <4>1. e \in dirs /\ e[1] # d[1]
        BY <2>1
      <4>2. PICK a \in Answers, k \in 0..6 : e[1] = a.application_name /\ WrittenBy(a, k)
        BY <4>1 DEF IInv, OneRun
      <4>3. /\ \A p \in DOMAIN files : p[1] = a.application_name =>
                 p \in DOMAIN files' /\ files'[p] = files[p]
            /\ \A p \in DOMAIN files' : p[1] = a.application_name => p \in DOMAIN files
        BY <2>2, <4>1, <4>2
      <4>4. WrittenBy(a, k)'
        BY <4>2, <4>3, Untouched
      <4>. QED  BY <4>2, <4>4
    <3>. QED  BY <3>1 DEF OneRun
  <2>. QED  BY <2>3, <2>4, <2>5, <2>6 DEF IInv
<1>7. CASE UNCHANGED vars
  BY <1>7 DEF vars, IInv, InRange, Count, Rooted, Made, OwnFiles, Wrote, OneRun, WrittenBy, ToHouse, Housed
<1>. QED  BY <1>1, <1>2, <1>3, <1>4, <1>5, <1>6, <1>7 DEF Next

(* Every state of the wizard satisfies the invariant. *)
LEMMA Invariant == Spec => []IInv
  BY Initially, Inductive, PTL DEF Spec

-----------------------------------------------------------------------------
(* A file is one of those of an answer, with its contents or torn. *)
LEMMA WhoseFile ==
  ASSUME IInv, NEW p \in DOMAIN files
  PROVE  \E a \in Answers, i \in 1..6 : p = Paths(a)[i] /\ files[p] \in {Torn, Contents(a)[i]}
<1>1. \A x : <<x>>[1] = x
  OBVIOUS
<1>2. PICK a \in Answers, k \in 0..6 : p[1] = a.application_name /\ WrittenBy(a, k)
  BY <1>1 DEF IInv, Rooted, OneRun
<1>3. \/ \E i \in 1..k : p = Paths(a)[i] /\ files[p] = Contents(a)[i]
      \/ k < 6 /\ p = Paths(a)[k + 1] /\ files[p] = Torn
  BY <1>2 DEF WrittenBy
<1>4. (\A i \in 1..k : i \in 1..6) /\ (k < 6 => k + 1 \in 1..6)
  OBVIOUS
<1>. QED  BY <1>3, <1>4

(* Graph and package of one answer fit together, whatever its names are. *)
LEMMA FitsTogether ==
  ASSUME NEW a \in Answers
  PROVE  Resolves(Manifest(a), CodePackage(a))
<1>. DEFINE g == Manifest(a)
            code == Node(CodeNode, Own(a.code_package_name))
            camera == Node(a.camera_node_name, Rtsp)
            screen == Node(Hdmi, HdmiSink)
            in == Edge(a.camera_node_name, "video_out", CodeNode, "video_in")
            out == Edge(CodeNode, "video_out", Hdmi, "video_in")
            puts == CodePackage(a).outputs
<1>1. /\ CodePackage(a).name = a.code_package_name /\ CodePackage(a).inputs = {"video_in"}
      /\ puts = IF a.hdmi THEN {"video_out"} ELSE {}
  BY DEF CodePackage
<1>2. /\ g.packages = {Own(a.code_package_name), Rtsp} \cup (IF a.hdmi THEN {HdmiSink} ELSE {})
      /\ g.nodes = {code, camera} \cup (IF a.hdmi THEN {screen} ELSE {})
      /\ g.edges = {in} \cup (IF a.hdmi THEN {out} ELSE {})
  BY DEF Manifest
<1>3. /\ code.name = CodeNode /\ code.package = Own(a.code_package_name)
      /\ camera.name = a.camera_node_name /\ camera.package = Rtsp
      /\ screen.name = Hdmi /\ screen.package = HdmiSink
  BY DEF Node
<1>4. /\ in.producer[1] = a.camera_node_name /\ in.consumer[1] = CodeNode /\ in.consumer[2] = "video_in"
      /\ out.producer[1] = CodeNode /\ out.producer[2] = "video_out" /\ out.consumer[1] = Hdmi
      /\ out.producer = <<CodeNode, "video_out">>
  BY DEF Edge
<1>5. Rtsp # Own(a.code_package_name) /\ HdmiSink # Own(a.code_package_name)
  BY DEF Own, Rtsp, HdmiSink
<1>. HIDE DEF g, code, camera, screen, in, out, puts
<1>6. Own(CodePackage(a).name) \in g.packages /\ \A n \in g.nodes : n.package \in g.packages
  BY <1>1, <1>2, <1>3
<1>7. ASSUME NEW e \in g.edges
      PROVE  /\ \E n \in g.nodes : n.name = e.producer[1]
                   /\ (n.package = Own(CodePackage(a).name) => e.producer[2] \in puts)
             /\ \E n \in g.nodes : n.name = e.consumer[1]
                   /\ (n.package = Own(CodePackage(a).name) => e.consumer[2] \in CodePackage(a).inputs)
  <2>1. CASE e = in
    BY <1>1, <1>2, <1>3, <1>4, <1>5, <2>1
  <2>2. CASE a.hdmi /\ e = out
    BY <1>1, <1>2, <1>3, <1>4, <1>5, <2>2
  <2>. QED  BY <1>2, <2>1, <2>2
<1>8. \A port \in puts : \E e \in g.edges : e.producer = <<CodeNode, port>>
  BY <1>1, <1>2, <1>4
<1>. QED  BY <1>6, <1>7, <1>8 DEF Resolves, g, puts

(* The script and the package of one answer agree on ports, with HDMI. *)
LEMMA ScriptFits ==
  ASSUME NEW a \in Answers
  PROVE  PortsFit(Manifest(a), py_file, CodePackage(a))
<1>1. /\ py_file.gets = {"video_in"} /\ py_file.puts = {"video_out"}
      /\ CodePackage(a).inputs = {"video_in"}
      /\ CodePackage(a).outputs = IF a.hdmi THEN {"video_out"} ELSE {}
  BY DEF py_file, CodePackage
<1>2. Node(Hdmi, HdmiSink) \in Manifest(a).nodes <=> a.hdmi
  <2>1. /\ Node(Hdmi, HdmiSink) # Node(CodeNode, Own(a.code_package_name))
        /\ Node(Hdmi, HdmiSink) # Node(a.camera_node_name, Rtsp)
    BY DEF Node, Own, HdmiSink, Rtsp
  <2>2. Manifest(a).nodes = {Node(CodeNode, Own(a.code_package_name)), Node(a.camera_node_name, Rtsp)}
                              \cup (IF a.hdmi THEN {Node(Hdmi, HdmiSink)} ELSE {})
    BY DEF Manifest
  <2>. QED  BY <2>1, <2>2
<1>3. py_file.puts \subseteq CodePackage(a).outputs <=> a.hdmi
  BY <1>1
<1>. QED  BY <1>1, <1>2, <1>3 DEF PortsFit

(* A directory is that of an application some user has answered, and each file    *)
(* has its directory and the contents of that place of some answer, or is torn,   *)
(* however the runs ended.                                                        *)
THEOREM TypeCorrect == Spec => []TypeOK
<1>1. IInv => TypeOK
  <2>. SUFFICES ASSUME IInv PROVE TypeOK
    OBVIOUS
  <2>1. \A d \in dirs : \E a \in Answers : d[1] = a.application_name
    BY DEF IInv, OneRun
  <2>2. ASSUME NEW p \in DOMAIN files
        PROVE  /\ SubSeq(p, 1, Len(p) - 1) \in dirs
               /\ \E a \in Answers : \E i \in DOMAIN Paths(a) :
                    p = Paths(a)[i] /\ files[p] \in {Torn, Contents(a)[i]}
    <3>1. PICK a \in Answers, i \in 1..6 : p = Paths(a)[i] /\ files[p] \in {Torn, Contents(a)[i]}
      BY WhoseFile
    <3>2. Parents(a)[i] \in dirs
      BY <3>1 DEF IInv, Housed
    <3>3. DOMAIN Paths(a) = 1..6
      BY DEF Paths
    <3>4. SubSeq(p, 1, Len(p) - 1) \in dirs
      BY <3>1, <3>2, ParentIs DEF Folder
    <3>. QED  BY <3>1, <3>3, <3>4, Zenon
  <2>. QED  BY <2>1, <2>2 DEF TypeOK, IInv, InRange, Count
<1>. QED  BY <1>1, Invariant, PTL

(* A package.json that is not torn means an application that is complete and fits *)
(* together, but for the output of its script when it has no HDMI node, whatever  *)
(* users answer, how often the wizard runs and how runs end.                      *)
THEOREM CompleteAndConsistentHolds == Spec => []CompleteAndConsistent
<1>1. IInv => CompleteAndConsistent
  <2>. SUFFICES ASSUME IInv, NEW b \in Answers, InPackage(b, "package.json") \in DOMAIN files,
                       files[InPackage(b, "package.json")] # Torn
                PROVE  \E a \in Answers :
                         /\ InPackage(b, "package.json") = InPackage(a, "package.json")
                         /\ \A i \in DOMAIN Paths(a) :
                              Paths(a)[i] \in DOMAIN files /\ files[Paths(a)[i]] # Torn
                         /\ Resolves(files[Graph(a)], files[InPackage(b, "package.json")])
                         /\ files[InPackage(a, "descriptor.json")].name = a.py_file_name
                         /\ PortsFit(files[Graph(a)], files[Source(a)],
                                     files[InPackage(b, "package.json")])
    BY DEF CompleteAndConsistent
  <2>. DEFINE p == InPackage(b, "package.json")
  <2>1. PICK a \in Answers, k \in 0..6 : p[1] = a.application_name /\ WrittenBy(a, k)
    BY DEF IInv, Rooted, OneRun
  <2>2. k = 6 /\ p = Paths(a)[6]
    <3>1. PICK i \in 1..k : p = Paths(a)[i]
      BY <2>1 DEF WrittenBy
    <3>2. i \in 1..6
      BY <3>1
    <3>3. i = 6
      BY <3>1, <3>2, PathsBelowTop
    <3>. QED  BY <3>1, <3>3
  <2>3. \A i \in 1..6 : Paths(a)[i] \in DOMAIN files /\ files[Paths(a)[i]] = Contents(a)[i]
    BY <2>1, <2>2 DEF WrittenBy
  <2>4. /\ Paths(a)[2] = Graph(a) /\ Contents(a)[2] = Manifest(a)
        /\ Paths(a)[3] = Source(a) /\ Contents(a)[3] = py_file
        /\ Paths(a)[5] = InPackage(a, "descriptor.json") /\ Contents(a)[5] = Descriptor(a)
        /\ Paths(a)[6] = InPackage(a, "package.json") /\ Contents(a)[6] = CodePackage(a)
        /\ DOMAIN Paths(a) = 1..6
    BY DEF Paths, Contents
  <2>5. /\ files[Graph(a)] = Manifest(a) /\ files[p] = CodePackage(a)
        /\ files[Source(a)] = py_file
        /\ files[InPackage(a, "descriptor.json")] = Descriptor(a)
        /\ p = InPackage(a, "package.json")
    <3>1. 2 \in 1..6 /\ 3 \in 1..6 /\ 5 \in 1..6 /\ 6 \in 1..6
      OBVIOUS
    <3>. HIDE DEF p
    <3>. QED  BY <2>2, <2>3, <2>4, <3>1, Zenon
  <2>6. \A i \in DOMAIN Paths(a) : Paths(a)[i] \in DOMAIN files /\ files[Paths(a)[i]] # Torn
    BY <2>3, <2>4, WholeIsNotTorn
  <2>7. Resolves(Manifest(a), CodePackage(a))
    BY FitsTogether
  <2>8. Descriptor(a).name = a.py_file_name /\ PortsFit(Manifest(a), py_file, CodePackage(a))
    BY ScriptFits DEF Descriptor
  <2>. HIDE DEF p
  <2>9. /\ p = InPackage(a, "package.json") /\ Resolves(files[Graph(a)], files[p])
        /\ files[InPackage(a, "descriptor.json")].name = a.py_file_name
        /\ PortsFit(files[Graph(a)], files[Source(a)], files[p])
    BY <2>5, <2>7, <2>8, Zenon
  <2>. QED  BY <2>6, <2>9 DEF p
<1>. QED  BY <1>1, Invariant, PTL

(* No run changes or removes a file that is there: the files it writes are new,  *)
(* since it made their top directory itself (create_application_files).          *)
THEOREM NothingOverwrittenHolds == Spec => NothingOverwritten
<1>1. IInv /\ [Next]_vars => [KeepsFiles]_vars
  <2>. SUFFICES ASSUME IInv, Next PROVE KeepsFiles
    BY DEF KeepsFiles, vars
  <2>. USE DEF NDirs, NSteps
  <2>1. ASSUME NEW contents, step \in 5..10, files' = With(Paths(c)[step - NDirs], contents)
        PROVE  KeepsFiles
    <3>1. Paths(c)[step - NDirs] \notin DOMAIN files
      <4>. SUFFICES ASSUME Paths(c)[step - NDirs] \in DOMAIN files PROVE FALSE
        OBVIOUS
      <4>1. step - NDirs \in 1..6 /\ Paths(c)[step - NDirs][1] = c.application_name
        BY <2>1, PathsBelowTop DEF IInv, InRange
      <4>2. PICK k \in 1..(step - NDirs - 1) : Paths(c)[step - NDirs] = Paths(c)[k]
        BY <2>1, <4>1 DEF IInv, OwnFiles
      <4>. QED  BY <2>1, <4>1, <4>2, PathsBelowTop DEF IInv, InRange
    <3>. QED  BY <2>1, <3>1 DEF With, KeepsFiles
  <2>2. files' = files => KeepsFiles
    BY DEF KeepsFiles
  <2>3. CASE create_text_file
    BY <2>1, <2>3 DEF create_text_file
  <2>4. CASE Stop
    BY <2>1, <2>2, <2>4 DEF Stop
  <2>5. CASE gather_configuration \/ makedirs \/ Success \/ Remove
    BY <2>2, <2>5 DEF gather_configuration, makedirs, Success, KeepsFiles
  <2>. QED  BY <2>3, <2>4, <2>5 DEF Next
<1>. QED  BY <1>1, Invariant, PTL DEF Spec, NothingOverwritten
===============================================================================
