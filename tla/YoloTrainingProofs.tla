--------------------------- MODULE YoloTrainingProofs ---------------------------
(***************************************************************************)
(* Proofs about YoloTraining, for any number of submissions, files of the  *)
(* configuration, manifests and conversions.                               *)
(***************************************************************************)
EXTENDS YoloTraining, SequenceTheorems, TLAPS

-----------------------------------------------------------------------------
(* The conversions, alone: what a step of one does to labels and images.   *)

Current == manifest[line]
Name == Label(Current)

GtTyped == /\ tool \in Tools /\ manifest \in Manifests \cup {<<>>}
           /\ line \in 1..(Len(manifest) + 1)
           /\ labels = [p \in Places |-> labels[p]]

(* The label file that is open has the first annotations of its line. *)
Opened == step = "boxes" =>
  /\ tool = "kitti" /\ line <= Len(manifest) /\ Annotated(line)
  /\ Name \in DOMAIN labels["dir"]
  /\ labels["dir"][Name] \in Seq(Nat) /\ Written(Current) <= Len(Current.boxes)
  /\ \A i \in 1..Written(Current) : labels["dir"][Name][i] = Current.boxes[i]

(* The part of WholeLabels that is about label files. *)
WholeS3 == \A n \in DOMAIN labels["s3"] : labels["s3"][n] \in WholeBoxes(n)
WholeDir == \A n \in DOMAIN labels["dir"] :
  \/ n \in stopped
  \/ step = "boxes" /\ n = Name
  \/ labels["dir"][n] \in WholeBoxes(n) /\ \E i \in images : i[1] = n

GtInv == GtTyped /\ Opened /\ WholeS3 /\ WholeDir /\ Converted

-----------------------------------------------------------------------------

(* The manifest being converted has lines 1..Len(manifest), each an entry. *)
LEMMA ManifestIs ==
  ASSUME GtTyped
  PROVE  /\ manifest \in Seq(Entry) /\ Len(manifest) \in Nat
         /\ DOMAIN manifest = 1..Len(manifest)
         /\ \A i \in 1..Len(manifest) : manifest[i] \in Entry
<1>1. manifest \in Seq(Entry)
  BY ManifestsOK, EmptySeq DEF GtTyped
<1>. QED  BY <1>1, LenProperties, ElementOfSeq

(* The annotations of a line that is handled are those of a whole label. *)
LEMMA WholeLine ==
  ASSUME GtTyped, line <= Len(manifest), Annotated(line)
  PROVE  Current \in Entry /\ Current.boxes \in WholeBoxes(Name)
<1>1. line \in DOMAIN manifest /\ Current \in Entry
  BY ManifestIs DEF GtTyped, Current
<1>2. manifest \in Manifests
  BY <1>1, ManifestIs DEF GtTyped
<1>3. Current.source # <<>>
  BY DEF Annotated, Refused, Skipped, Incomplete, Current
<1>. QED  BY <1>1, <1>2, <1>3 DEF WholeBoxes, Name, Current

(* A label file is written, and all others are as before. *)
LEMMA Writes ==
  ASSUME GtTyped, NEW p \in Places, NEW d, NEW boxes, Write(p, d, boxes)
  PROVE  /\ labels' = [q \in Places |-> labels'[q]]
         /\ \A q \in Places \ {p} : labels'[q] = labels[q]
         /\ DOMAIN labels'[p] = DOMAIN labels[p] \cup {Label(d)}
         /\ labels'[p][Label(d)] = boxes
         /\ \A n \in DOMAIN labels[p] \ {Label(d)} : labels'[p][n] = labels[p][n]
<1>1. labels' = [labels EXCEPT ![p] = With(labels[p], Label(d), boxes)]
  BY DEF Write
<1>2. /\ labels' = [q \in Places |-> labels'[q]]
      /\ \A q \in Places \ {p} : labels'[q] = labels[q]
      /\ labels'[p] = With(labels[p], Label(d), boxes)
  BY <1>1 DEF GtTyped
<1>. QED  BY <1>2 DEF With

(* The invariant holds before the first conversion. *)
LEMMA GtInitially == GtInit => GtInv
  BY EmptySeq DEF GtInit, GtInv, GtTyped, Tools, Opened, WholeS3, WholeDir, Converted, NoFiles, Places

-----------------------------------------------------------------------------
(* The steps.                                                              *)

(* A conversion starts: no label is open. *)
LEMMA ConvertStep == GtInv /\ Convert => GtInv'
<1>. SUFFICES ASSUME GtInv, Convert PROVE GtInv'
  OBVIOUS
<1>1. /\ step = "idle" /\ step' = "line" /\ line' = 1
      /\ tool' \in Tools /\ manifest' \in Manifests /\ UNCHANGED <<labels, images, stopped>>
  BY DEF Convert
<1>2. manifest' \in Seq(Entry) /\ Len(manifest') \in Nat
  BY <1>1, ManifestsOK
<1>3. GtTyped' /\ Opened'
  BY <1>1, <1>2 DEF GtInv, GtTyped, Opened
<1>4. WholeS3' /\ WholeDir'
  BY <1>1 DEF GtInv, WholeS3, WholeDir
<1>5. Converted'
  BY <1>1 DEF Converted
<1>. QED  BY <1>3, <1>4, <1>5 DEF GtInv

(* The conversion ends: an open label is remembered. *)
LEMMA EndStep == GtInv /\ (End \/ Finish) => GtInv'
<1>. SUFFICES ASSUME GtInv, End \/ Finish PROVE GtInv'
  OBVIOUS
<1>1. /\ step' = "idle" /\ UNCHANGED <<tool, manifest, line, labels, images>>
      /\ stopped \subseteq stopped'
      /\ step = "boxes" => Name \in stopped'
  BY DEF End, Finish, Running, Name, Current
<1>2. GtTyped' /\ Opened' /\ WholeS3'
  BY <1>1 DEF GtInv, GtTyped, Opened, WholeS3
<1>4. WholeDir'
  BY <1>1 DEF GtInv, WholeDir
<1>3. Converted'
  BY <1>1 DEF GtInv, Converted, Annotated, Refused, Incomplete, InWork, Place
<1>. QED  BY <1>2, <1>3, <1>4 DEF GtInv

(* A line without an annotation, or one the tool passes over, is behind. *)
LEMMA SkipStep == GtInv /\ Skip => GtInv'
<1>. SUFFICES ASSUME GtInv, Skip PROVE GtInv'
  OBVIOUS
<1>1. /\ step = "line" /\ step' = "line" /\ line' = line + 1 /\ line <= Len(manifest)
      /\ ~Annotated(line)
      /\ UNCHANGED <<tool, manifest, labels, images, stopped>>
  BY DEF Skip, AtLine, NextLine, Running, Annotated
<1>0. line \in Nat /\ line > 0 /\ Len(manifest) \in Nat
  BY ManifestIs DEF GtInv, GtTyped
<1>2. GtTyped' /\ Opened'
  BY <1>0, <1>1 DEF GtInv, GtTyped, Opened
<1>4. WholeS3' /\ WholeDir'
  BY <1>1 DEF GtInv, WholeS3, WholeDir
<1>3. Converted'
  <2>1. \A i \in 1..(line' - 1) : i = line \/ i \in 1..(line - 1)
    BY <1>0, <1>1
  <2>2. \A i : Annotated(i)' <=> Annotated(i)
    BY <1>1 DEF Annotated, Refused, Incomplete
  <2>3. (\A n : ~InWork(n)) /\ Place' = Place
    BY <1>1 DEF InWork, Place
  <2>. SUFFICES ASSUME NEW i \in 1..(line' - 1), Annotated(i)'
                PROVE  /\ tool = "kitti" => Image(manifest[i]) \in images
                       /\ \/ \E j \in (i + 1)..(line' - 1) :
                               Annotated(j)' /\ Label(manifest[j]) = Label(manifest[i])
                          \/ /\ Label(manifest[i]) \in DOMAIN labels[Place]
                             /\ labels[Place][Label(manifest[i])] = manifest[i].boxes
    BY <1>1, <2>3 DEF Converted
  <2>4. i \in 1..(line - 1) /\ Annotated(i)
    BY <1>1, <2>1, <2>2
  <2>5. (i + 1)..(line - 1) \subseteq (i + 1)..(line' - 1)
    BY <1>0, <1>1, <2>4
  <2>. QED  BY <2>2, <2>3, <2>4, <2>5 DEF GtInv, Converted
<1>. QED  BY <1>2, <1>3, <1>4 DEF GtInv

(* A YOLO label is put on S3 whole. *)
LEMMA PutLabelStep == GtInv /\ line \in DOMAIN manifest /\ PutLabel(Current) => GtInv'
<1>. SUFFICES ASSUME GtInv, line \in DOMAIN manifest, PutLabel(Current) PROVE GtInv'
  OBVIOUS
<1>1. /\ tool = "yolo" /\ step = "line" /\ step' = "line" /\ line' = line + 1
      /\ line <= Len(manifest) /\ Annotated(line) /\ Write("s3", Current, Current.boxes)
      /\ UNCHANGED <<tool, manifest, images, stopped>>
  BY DEF PutLabel, Handles, AtLine, NextLine, Running, Annotated, Current
<1>2. /\ labels' = [q \in Places |-> labels'[q]] /\ labels'["dir"] = labels["dir"]
      /\ DOMAIN labels'["s3"] = DOMAIN labels["s3"] \cup {Name}
      /\ labels'["s3"][Name] = Current.boxes
      /\ \A n \in DOMAIN labels["s3"] \ {Name} : labels'["s3"][n] = labels["s3"][n]
  BY <1>1, Writes DEF GtInv, Places, Name
<1>0. line \in Nat /\ line > 0 /\ Len(manifest) \in Nat
  BY ManifestIs DEF GtInv, GtTyped
<1>3. GtTyped' /\ Opened'
  BY <1>1, <1>2, ManifestIs DEF GtInv, GtTyped, Opened
<1>4. Current.boxes \in WholeBoxes(Name)
  BY <1>1, WholeLine DEF GtInv
<1>5. WholeS3' /\ WholeDir'
  BY <1>1, <1>2, <1>4 DEF GtInv, WholeS3, WholeDir
<1>6. Converted'
  <2>1. \A i \in 1..(line' - 1) : i = line \/ (i \in 1..(line - 1) /\ line \in (i + 1)..(line' - 1))
    BY <1>0, <1>1
  <2>2. \A i : Annotated(i)' <=> Annotated(i)
    BY <1>1 DEF Annotated, Refused, Incomplete
  <2>3. (\A n : ~InWork(n)) /\ Place = "s3" /\ Place' = "s3"
    BY <1>1 DEF InWork, Place
  <2>. SUFFICES ASSUME NEW i \in 1..(line' - 1), Annotated(i)'
                PROVE  \/ \E j \in (i + 1)..(line' - 1) :
                            Annotated(j)' /\ Label(manifest[j]) = Label(manifest[i])
                       \/ /\ Label(manifest[i]) \in DOMAIN labels'["s3"]
                          /\ labels'["s3"][Label(manifest[i])] = manifest[i].boxes
    BY <1>1, <2>3 DEF Converted
  <2>4. CASE i = line
    BY <1>2, <2>4 DEF Name, Current
  <2>5. CASE i \in 1..(line - 1) /\ Label(manifest[i]) = Name
    <3>1. PICK k \in Nat : k = line
      BY <1>0
    <3>2. k \in (i + 1)..(line' - 1) /\ Annotated(k)'
      BY <1>0, <1>1, <2>2, <2>5, <3>1
    <3>3. Label(manifest[k]) = Label(manifest[i])
      BY <2>5, <3>1 DEF Name, Current
    <3>. QED  BY <3>2, <3>3
  <2>6. CASE i \in 1..(line - 1) /\ Label(manifest[i]) # Name
    <3>1. (i + 1)..(line - 1) \subseteq (i + 1)..(line' - 1)
      BY <1>0, <1>1, <2>6
    <3>2. Annotated(i)
      BY <2>2
    <3>. QED  BY <1>2, <2>2, <2>3, <2>6, <3>1, <3>2 DEF GtInv, Converted
  <2>. QED  BY <2>1, <2>4, <2>5, <2>6
<1>. QED  BY <1>3, <1>5, <1>6 DEF GtInv

(* A step within the lines before it, for a KITTI label that is open or opened. *)
LEMMA OpenKeepsConverted ==
  ASSUME GtInv, tool = "kitti", line <= Len(manifest), Annotated(line),
         UNCHANGED <<tool, manifest, line, images>>,
         \A n \in DOMAIN labels["dir"] \ {Name} :
           n \in DOMAIN labels'["dir"] /\ labels'["dir"][n] = labels["dir"][n]
  PROVE  Converted'
<1>1. \A i : Annotated(i)' <=> Annotated(i)
  BY DEF Annotated, Refused, Incomplete
<1>2. Place = "dir" /\ Place' = "dir"
  BY DEF Place
<1>. SUFFICES ASSUME NEW i \in 1..(line - 1), Annotated(i)'
              PROVE  /\ Image(manifest[i]) \in images
                     /\ \/ \E j \in (i + 1)..(line - 1) :
                             Annotated(j)' /\ Label(manifest[j]) = Label(manifest[i])
                        \/ InWork(Label(manifest[i]))'
                        \/ /\ Label(manifest[i]) \in DOMAIN labels'["dir"]
                           /\ labels'["dir"][Label(manifest[i])] = manifest[i].boxes
  BY <1>2 DEF Converted
<1>3. CASE Label(manifest[i]) = Name
  <2>1. InWork(Label(manifest[i]))'
    BY <1>3 DEF InWork, Name, Current, Annotated, Refused, Incomplete
  <2>. QED  BY <1>1, <2>1 DEF GtInv, Converted
<1>4. CASE Label(manifest[i]) # Name
  BY <1>1, <1>2, <1>4 DEF GtInv, Converted, InWork, Name, Current
<1>. QED  BY <1>3, <1>4

(* A KITTI label is opened and empty. *)
LEMMA OpenLabelStep == GtInv /\ line \in DOMAIN manifest /\ OpenLabel(Current) => GtInv'
<1>. SUFFICES ASSUME GtInv, line \in DOMAIN manifest, OpenLabel(Current) PROVE GtInv'
  OBVIOUS
<1>1. /\ tool = "kitti" /\ step = "line" /\ step' = "boxes"
      /\ line <= Len(manifest) /\ Annotated(line) /\ Write("dir", Current, <<>>)
      /\ UNCHANGED <<tool, manifest, line, images, stopped>>
  BY DEF OpenLabel, Handles, AtLine, Running, Annotated, Current
<1>2. /\ labels' = [q \in Places |-> labels'[q]] /\ labels'["s3"] = labels["s3"]
      /\ DOMAIN labels'["dir"] = DOMAIN labels["dir"] \cup {Name}
      /\ labels'["dir"][Name] = <<>>
      /\ \A n \in DOMAIN labels["dir"] \ {Name} : labels'["dir"][n] = labels["dir"][n]
  BY <1>1, Writes DEF GtInv, Places, Name
<1>3. Current' = Current /\ Name' = Name
  BY <1>1 DEF Current, Name
<1>4. Converted'
  BY <1>1, <1>2, OpenKeepsConverted
<1>5. GtTyped'
  BY <1>1, <1>2 DEF GtInv, GtTyped
<1>6. Opened'
  <2>1. Annotated(line)'
    BY <1>1 DEF Annotated, Refused, Incomplete
  <2>2. Current \in Entry /\ Len(Current.boxes) \in Nat
    BY <1>1, WholeLine, LenProperties DEF GtInv, Entry
  <2>3. Written(Current)' = 0
    BY <1>2, <1>3, EmptySeq DEF Written, Name
  <2>4. <<>> \in Seq(Nat)
    BY EmptySeq
  <2>5. Written(Current)' <= Len(Current.boxes)' /\ 1..Written(Current)' = {}
    BY <1>3, <2>2, <2>3
  <2>6. labels'["dir"][Name'] \in Seq(Nat) /\ Name' \in DOMAIN labels'["dir"]
    BY <1>2, <1>3, <2>4
  <2>. QED  BY <1>1, <2>1, <2>5, <2>6 DEF Opened
<1>7. WholeS3' /\ WholeDir'
  BY <1>1, <1>2, <1>3 DEF GtInv, WholeS3, WholeDir
<1>. QED  BY <1>4, <1>5, <1>6, <1>7 DEF GtInv

(* A box is added to the open label, which stays a prefix of the line's. *)
LEMMA WriteBoxStep == GtInv /\ WriteBox(Current) => GtInv'
<1>. SUFFICES ASSUME GtInv, WriteBox(Current) PROVE GtInv'
  OBVIOUS
<1>. DEFINE old == labels["dir"][Name]
            class == Current.boxes[Written(Current) + 1]
<1>1. CASE End
  BY <1>1, EndStep
<1>2. CASE /\ Write("dir", Current, Append(old, class))
           /\ Running /\ UNCHANGED <<line, step, images, stopped>>
  <2>1. /\ step = "boxes" /\ step' = "boxes" /\ Written(Current) < Len(Current.boxes)
        /\ tool = "kitti" /\ line <= Len(manifest) /\ Annotated(line)
        /\ UNCHANGED <<tool, manifest, line, images, stopped>>
    BY <1>2 DEF WriteBox, GtInv, Opened, Running
  <2>2. /\ labels' = [q \in Places |-> labels'[q]] /\ labels'["s3"] = labels["s3"]
        /\ DOMAIN labels'["dir"] = DOMAIN labels["dir"] \cup {Name}
        /\ labels'["dir"][Name] = Append(old, class)
        /\ \A n \in DOMAIN labels["dir"] \ {Name} : labels'["dir"][n] = labels["dir"][n]
    BY <1>2, Writes DEF GtInv, Places, Name
  <2>3. Current' = Current /\ Name' = Name
    BY <2>1 DEF Current, Name
  <2>4. Converted'
    BY <2>1, <2>2, OpenKeepsConverted
  <2>5. GtTyped'
    BY <2>1, <2>2 DEF GtInv, GtTyped
  <2>6. WholeS3' /\ WholeDir'
    BY <2>1, <2>2, <2>3 DEF GtInv, WholeS3, WholeDir
  <2>7. Opened'
    <3>1. Annotated(line)'
      BY <2>1 DEF Annotated, Refused, Incomplete
    <3>2. Current.boxes \in Seq(Nat) /\ Len(Current.boxes) \in Nat
      BY <2>1, WholeLine, LenProperties DEF GtInv, Entry
    <3>3. old \in Seq(Nat) /\ Written(Current) = Len(old) /\ Len(old) \in Nat
      BY <2>1, LenProperties DEF GtInv, Opened, Written, Name
    <3>4. class \in Nat
      BY <2>1, <3>2, <3>3, ElementOfSeq
    <3>5. /\ Append(old, class) \in Seq(Nat) /\ Len(Append(old, class)) = Len(old) + 1
          /\ \A i \in 1..Len(old) : Append(old, class)[i] = old[i]
          /\ Append(old, class)[Len(old) + 1] = class
      BY <3>3, <3>4, AppendProperties
    <3>6. Written(Current)' = Len(old) + 1
      BY <2>2, <2>3, <3>5 DEF Written, Name
    <3>7. \A i \in 1..(Len(old) + 1) : Append(old, class)[i] = Current.boxes[i]
      <4>1. \A i \in 1..(Len(old) + 1) : i \in 1..Len(old) \/ i = Len(old) + 1
        BY <3>3
      <4>2. \A i \in 1..Len(old) : old[i] = Current.boxes[i]
        BY <2>1, <3>3 DEF GtInv, Opened
      <4>. QED  BY <3>3, <3>5, <4>1, <4>2
    <3>8. Written(Current)' <= Len(Current.boxes)
      BY <2>1, <3>2, <3>3, <3>6
    <3>9. labels'["dir"][Name'] = Append(old, class) /\ Name' \in DOMAIN labels'["dir"]
      BY <2>2, <2>3
    <3>. QED  BY <2>1, <2>3, <3>1, <3>5, <3>6, <3>7, <3>8, <3>9 DEF Opened
  <2>. QED  BY <2>4, <2>5, <2>6, <2>7 DEF GtInv
<1>. QED  BY <1>1, <1>2 DEF WriteBox, Name

(* The image is copied, and the open label is whole. *)
LEMMA CopyImageStep == GtInv /\ CopyImage(Current) => GtInv'
<1>. SUFFICES ASSUME GtInv, CopyImage(Current) PROVE GtInv'
  OBVIOUS
<1>1. /\ tool = "kitti" /\ step = "boxes" /\ step' = "line" /\ line' = line + 1
      /\ line <= Len(manifest) /\ Annotated(line) /\ Written(Current) = Len(Current.boxes)
      /\ images' = images \cup {Image(Current)} /\ stopped' = stopped \ {Name}
      /\ UNCHANGED <<tool, manifest, labels>>
  BY DEF CopyImage, NextLine, Running, GtInv, Opened, Name
<1>2. line \in Nat /\ line > 0 /\ Len(manifest) \in Nat
  BY ManifestIs DEF GtInv, GtTyped
<1>3. GtTyped' /\ Opened'
  BY <1>1, <1>2 DEF GtInv, GtTyped, Opened
<1>4. Current \in Entry /\ Current.boxes \in WholeBoxes(Name)
  BY <1>1, WholeLine DEF GtInv
<1>5. Name \in DOMAIN labels["dir"] /\ labels["dir"][Name] = Current.boxes
  <2>1. Current.boxes \in Seq(Nat)
    BY <1>4 DEF Entry
  <2>2. /\ Name \in DOMAIN labels["dir"] /\ labels["dir"][Name] \in Seq(Nat)
        /\ Len(labels["dir"][Name]) = Len(Current.boxes)
        /\ \A i \in 1..Len(labels["dir"][Name]) : labels["dir"][Name][i] = Current.boxes[i]
    BY <1>1 DEF GtInv, Opened, Written, Name
  <2>. QED  BY <2>1, <2>2, SeqEqual
<1>6. Image(Current) \in images' /\ Image(Current)[1] = Name
  BY <1>1 DEF Image, Name, Label
<1>7. WholeS3' /\ WholeDir'
  BY <1>1, <1>4, <1>5, <1>6 DEF GtInv, WholeS3, WholeDir
<1>8. Converted'
  <2>1. \A i : Annotated(i)' <=> Annotated(i)
    BY <1>1 DEF Annotated, Refused, Incomplete
  <2>2. Place = "dir" /\ Place' = "dir"
    BY <1>1 DEF Place
  <2>. SUFFICES ASSUME NEW i \in 1..(line' - 1), Annotated(i)'
                PROVE  /\ Image(manifest[i]) \in images'
                       /\ \/ \E j \in (i + 1)..(line' - 1) :
                               Annotated(j)' /\ Label(manifest[j]) = Label(manifest[i])
                          \/ /\ Label(manifest[i]) \in DOMAIN labels["dir"]
                             /\ labels["dir"][Label(manifest[i])] = manifest[i].boxes
    BY <1>1, <2>2 DEF Converted
  <2>3. i = line \/ i \in 1..(line - 1)
    BY <1>1, <1>2
  <2>4. CASE i = line
    BY <1>5, <1>6, <2>4 DEF Name, Current
  <2>5. CASE i \in 1..(line - 1)
    <3>1. /\ Image(manifest[i]) \in images'
          /\ \/ \E j \in (i + 1)..(line - 1) :
                  Annotated(j) /\ Label(manifest[j]) = Label(manifest[i])
             \/ Label(manifest[i]) = Name
             \/ /\ Label(manifest[i]) \in DOMAIN labels["dir"]
                /\ labels["dir"][Label(manifest[i])] = manifest[i].boxes
      BY <1>1, <2>1, <2>2, <2>5 DEF GtInv, Converted, InWork, Name, Current
    <3>2. (i + 1)..(line - 1) \subseteq (i + 1)..(line' - 1)
      BY <1>1, <1>2, <2>5
    <3>3. CASE Label(manifest[i]) = Name
      <4>1. PICK k \in Nat : k = line
        BY <1>2
      <4>2. k \in (i + 1)..(line' - 1) /\ Annotated(k)'
        BY <1>1, <1>2, <2>1, <2>5, <4>1
      <4>. QED  BY <3>1, <3>3, <4>1, <4>2 DEF Name, Current
    <3>. QED  BY <2>1, <3>1, <3>2, <3>3
  <2>. QED  BY <2>3, <2>4, <2>5
<1>. QED  BY <1>3, <1>7, <1>8 DEF GtInv

(* Every step of a conversion keeps the invariant. *)
LEMMA GtStep == GtInv /\ GtNext => GtInv'
<1>. SUFFICES ASSUME GtInv, GtNext PROVE GtInv'
  OBVIOUS
<1>1. CASE Convert \/ Finish \/ Refuse \/ Skip \/ Stop
  BY <1>1, ConvertStep, EndStep, SkipStep DEF Refuse, Stop
<1>2. CASE /\ line \in DOMAIN manifest
           /\ PutLabel(Current) \/ OpenLabel(Current) \/ WriteBox(Current) \/ CopyImage(Current)
  BY <1>2, PutLabelStep, OpenLabelStep, WriteBoxStep, CopyImageStep
<1>. QED  BY <1>1, <1>2 DEF GtNext, Current

(* So does every step of a submission. *)
LEMMA GtStutter == GtInv /\ UNCHANGED gtVars => GtInv'
<1>. SUFFICES ASSUME GtInv, UNCHANGED gtVars PROVE GtInv'
  OBVIOUS
<1>1. GtTyped' /\ Opened'
  BY DEF GtInv, gtVars, GtTyped, Opened, Annotated, Refused, Incomplete, Written, Name, Current
<1>2. WholeS3' /\ WholeDir'
  BY DEF GtInv, gtVars, WholeS3, WholeDir, Name, Current
<1>3. Converted'
  BY DEF GtInv, gtVars, Converted, Annotated, Refused, Incomplete, InWork, Place
<1>. QED  BY <1>1, <1>2, <1>3 DEF GtInv

(* Types: an open label is in the directory before a conversion can end at it. *)
LEMMA GtTypeStep == GtInv /\ GtTypeOK /\ GtNext => GtTypeOK'
<1>. SUFFICES ASSUME GtInv, GtTypeOK, GtNext PROVE GtTypeOK'
  OBVIOUS
<1>1. GtTyped' /\ Opened'
  BY GtStep DEF GtInv
<1>2. /\ tool' \in Tools /\ manifest' \in Manifests \cup {<<>>}
      /\ line' \in 1..(Len(manifest') + 1) /\ DOMAIN labels' = Places
  BY <1>1 DEF GtTyped
<1>3. step' = "boxes" => tool' = "kitti" /\ line' \in DOMAIN manifest'
  <2>. SUFFICES ASSUME step' = "boxes"
                PROVE  tool' = "kitti" /\ line' \in DOMAIN manifest'
    OBVIOUS
  <2>1. tool' = "kitti" /\ line' <= Len(manifest')
    BY <1>1 DEF Opened
  <2>2. DOMAIN manifest' = 1..Len(manifest') /\ Len(manifest') \in Nat
    <3>1. manifest' \in Seq(Entry)
      BY <1>2, ManifestsOK, EmptySeq
    <3>. QED  BY <3>1, LenProperties
  <2>. QED  BY <1>2, <2>1, <2>2
<1>4. step' \in {"idle", "line", "boxes"} /\ conversions' \in 0..MaxConversions
  BY ConversionsOK DEF GtTypeOK, GtNext, Convert, Finish, Refuse, Skip, Stop, End, Running,
     NextLine, PutLabel, OpenLabel, WriteBox, CopyImage
<1>5. stopped' \subseteq DOMAIN labels'["dir"]
  <2>1. CASE /\ stopped' \subseteq stopped
             /\ \/ UNCHANGED labels
                \/ \E p \in Places : \E boxes : Write(p, Current, boxes)
    <3>1. DOMAIN labels["dir"] \subseteq DOMAIN labels'["dir"]
      BY <2>1, Writes DEF GtInv, Places
    <3>. QED  BY <2>1, <3>1 DEF GtTypeOK
  <2>2. CASE End
    BY <2>2 DEF End, GtTypeOK, GtInv, Opened, Name, Current
  <2>3. CASE Convert \/ Finish \/ Skip
    BY <2>1, <2>3 DEF Convert, Finish, Skip
  <2>4. CASE PutLabel(Current) \/ OpenLabel(Current) \/ CopyImage(Current)
    BY <2>1, <2>4 DEF PutLabel, OpenLabel, CopyImage, Places
  <2>5. CASE WriteBox(Current)
    BY <2>1, <2>2, <2>5 DEF WriteBox, Places
  <2>. QED  BY <2>2, <2>3, <2>4, <2>5 DEF GtNext, Refuse, Stop, Current
<1>. QED  BY <1>2, <1>3, <1>4, <1>5 DEF GtTypeOK

-----------------------------------------------------------------------------
(* The submissions.                                                        *)

States == {"new", "prepare", "sync", "fit", "train", "completed", "failed"}

Indexed == /\ at = [s \in Submissions |-> at[s]] /\ dir = [s \in Submissions |-> dir[s]]
           /\ next = [s \in Submissions |-> next[s]] /\ clean = [s \in Submissions |-> clean[s]]
           /\ job = [s \in Submissions |-> job[s]]

Typed(s) == /\ at[s] \in States /\ dir[s] \in Stamps \cup {"notebook"}
            /\ next[s] \in 1..Len(Files) /\ clean[s] \in BOOLEAN
            /\ at[s] = "new" => next[s] = 1 /\ dir[s] = "notebook"

(* The configuration of s, as far as its first n files go. *)
Own(s, files) == [f \in files |-> s]
Made(n) == {Files[i] : i \in 1..n}

(* What s has in its directory, and on S3 while nobody else uploads. *)
OwnFiles(s) == dir[s] # "notebook" =>
  /\ dir[s] \in DOMAIN local
  /\ at[s] = "prepare" => local[dir[s]] = Own(s, Made(next[s] - 1))
  /\ at[s] = "sync" => local[dir[s]] = Own(s, AllFiles)
OwnUpload(s) == dir[s] # "notebook" /\ clean[s] =>
  /\ at[s] = "sync" => \A f \in Made(next[s] - 1) : f \in DOMAIN s3config /\ s3config[f] = s
  /\ at[s] = "fit" => s3config = Own(s, AllFiles)
OwnJob(s) == /\ at[s] \in {"train", "completed"} /\ dir[s] # "notebook" /\ clean[s] =>
                  job[s].config = Own(s, AllFiles)
             /\ at[s] \in {"train", "completed"} => job[s].labels # NoFiles

Good(s) == Typed(s) /\ OwnFiles(s) /\ OwnUpload(s) /\ OwnJob(s)

(* Two submissions of the script never have the same directory. *)
OwnDir == \A s, t \in Submissions : dir[s] = dir[t] /\ dir[s] # "notebook" => s = t

OnS3 == DOMAIN s3config \subseteq AllFiles
IInv == Indexed /\ OwnDir /\ OnS3 /\ \A s \in Submissions : Good(s)

-----------------------------------------------------------------------------
(* The files of the configuration.                                         *)

(* There is a file of the configuration, and Files lists them all. *)
LEMMA FilesAre == /\ Len(Files) \in Nat /\ Len(Files) > 0 /\ DOMAIN Files = 1..Len(Files)
                  /\ \A i \in 1..Len(Files) : Files[i] \in AllFiles
  BY FilesOK, EmptySeq, LenProperties DEF AllFiles

(* After the last one, all are made. *)
LEMMA AllMade == Made(Len(Files)) = AllFiles
  BY FilesAre DEF AllFiles, Made

(* Before the first one, none is. *)
LEMMA NoneMade == Made(1 - 1) = {} /\ \A s : NoFiles = Own(s, {})
  BY DEF NoFiles, Own, Made

(* The file that is written next joins those that are made. *)
LEMMA OneMore ==
  ASSUME NEW k \in 1..Len(Files)
  PROVE  /\ Made(k) = Made(k - 1) \cup {Files[k]}
         /\ \A s : With(Own(s, Made(k - 1)), Files[k], s) = Own(s, Made(k))
<1>1. Made(k) = Made(k - 1) \cup {Files[k]}
  BY FilesAre DEF Made
<1>. QED  BY <1>1 DEF With, Own

-----------------------------------------------------------------------------
(* A step of one submission leaves the others alone.                       *)

Unmoved(t) == /\ at'[t] = at[t] /\ dir'[t] = dir[t] /\ next'[t] = next[t] /\ job'[t] = job[t]
              /\ clean'[t] \in {clean[t], FALSE}

(* A submission that does not move keeps what it relies on, as long as its *)
(* directory stays, and the shared folder where it still needs that.       *)
LEMMA Others ==
  ASSUME NEW t \in Submissions, Good(t), Unmoved(t),
         dir[t] # "notebook" => dir[t] \in DOMAIN local' /\ local'[dir[t]] = local[dir[t]],
         clean'[t] /\ at[t] \in {"sync", "fit"} => s3config' = s3config
  PROVE  Good(t)'
<1>. USE DEF Unmoved
<1>1. Typed(t)'
  BY DEF Good, Typed
<1>2. OwnFiles(t)'
  BY DEF Good, OwnFiles
<1>3. OwnUpload(t)'
  BY DEF Good, OwnUpload, Typed
<1>4. OwnJob(t)'
  BY DEF Good, OwnJob, Typed
<1>. QED  BY <1>1, <1>2, <1>3, <1>4 DEF Good

(* The invariant holds before the first submission. *)
LEMMA Initially == Init => IInv
<1>. SUFFICES ASSUME Init PROVE IInv
  OBVIOUS
<1>1. Indexed /\ OwnDir /\ OnS3
  BY DEF Init, Indexed, OwnDir, OnS3, NoFiles
<1>2. ASSUME NEW s \in Submissions PROVE Good(s)
  BY FilesAre DEF Init, Good, Typed, States, OwnFiles, OwnUpload, OwnJob
<1>. QED  BY <1>1, <1>2 DEF IInv

(* What the conversions do is nothing to the submissions, except for the labels. *)
LEMMA Stutter == IInv /\ UNCHANGED trainVars => IInv'
<1>. SUFFICES ASSUME IInv, UNCHANGED trainVars PROVE IInv'
  OBVIOUS
<1>1. Indexed' /\ OwnDir' /\ OnS3'
  BY DEF IInv, trainVars, Indexed, OwnDir, OnS3
<1>2. ASSUME NEW t \in Submissions PROVE Good(t)'
  <2>1. Good(t) /\ Unmoved(t)
    BY DEF IInv, trainVars, Unmoved
  <2>. QED  BY <2>1, Others DEF trainVars, Good, OwnFiles
<1>. QED  BY <1>1, <1>2 DEF IInv

(* The steps of submission s: what they do to its own entries. *)
LEMMA Moves ==
  ASSUME IInv, NEW s \in Submissions, NEW from, NEW to, Goes(s, from, to)
  PROVE  /\ at[s] = from /\ at'[s] = to
         /\ at' = [t \in Submissions |-> at'[t]]
         /\ \A t \in Submissions \ {s} : at'[t] = at[t]
  BY DEF Goes, IInv, Indexed

(* NextFile: one file further, or on to the next part of the submission. *)
LEMMA NextFileMoves ==
  ASSUME IInv, NEW s \in Submissions, NEW from, NEW to, NextFile(s, from, to)
  PROVE  /\ at[s] = from
         /\ at' = [t \in Submissions |-> at'[t]] /\ next' = [t \in Submissions |-> next'[t]]
         /\ \A t \in Submissions \ {s} : at'[t] = at[t] /\ next'[t] = next[t]
         /\ \/ next[s] < Len(Files) /\ at'[s] = from /\ next'[s] = next[s] + 1
            \/ next[s] = Len(Files) /\ at'[s] = to /\ next'[s] = 1
<1>. USE DEF IInv, Indexed
<1>1. next[s] \in 1..Len(Files)
  BY DEF Good, Typed
<1>2. CASE next[s] < Len(Files)
  BY <1>1, <1>2, FilesAre DEF NextFile
<1>3. CASE ~(next[s] < Len(Files))
  BY <1>1, <1>3, FilesAre DEF NextFile, Goes
<1>. QED  BY <1>2, <1>3

(* A new directory is nobody's, so it is this submission's alone. *)
LEMMA MakeDirStep ==
  ASSUME IInv, NEW s \in Submissions, MakeDir(s)
  PROVE  IInv'
<1>1. /\ at[s] = "new" /\ dir[s] = "notebook" /\ next[s] = 1
      /\ UNCHANGED <<next, s3config, job, clean>>
  BY DEF MakeDir, Goes, IInv, Good, Typed
<1>2. /\ at'[s] \in {"prepare", "failed"}
      /\ at' = [t \in Submissions |-> at'[t]]
      /\ \A t \in Submissions \ {s} : at'[t] = at[t]
  BY Moves DEF MakeDir
<1>3. CASE dir' = dir /\ (local' = local \/ local' = With(local, "notebook", NoFiles))
  <2>1. /\ DOMAIN local \subseteq DOMAIN local'
        /\ \A d \in DOMAIN local \ {"notebook"} : local'[d] = local[d]
    BY <1>3 DEF With
  <2>2. Good(s)'
    BY <1>1, <1>2, <1>3 DEF IInv, Good, Typed, States, OwnFiles, OwnUpload, OwnJob
  <2>3. ASSUME NEW t \in Submissions \ {s} PROVE Good(t)'
    <3>1. Good(t) /\ Unmoved(t)
      BY <1>1, <1>2, <1>3 DEF IInv, Unmoved
    <3>. QED  BY <1>1, <2>1, <3>1, Others DEF Good, OwnFiles
  <2>. QED  BY <1>1, <1>2, <1>3, <2>2, <2>3 DEF IInv, Indexed, OwnDir, OnS3
<1>4. CASE \E d \in Stamps \ DOMAIN local :
             /\ dir' = [dir EXCEPT ![s] = d] /\ local' = With(local, d, NoFiles)
             /\ Goes(s, "new", "prepare")
  <2>1. PICK d \in Stamps \ DOMAIN local :
             /\ dir' = [dir EXCEPT ![s] = d] /\ local' = With(local, d, NoFiles)
             /\ Goes(s, "new", "prepare")
    BY <1>4
  <2>2. /\ dir'[s] = d /\ at'[s] = "prepare" /\ dir' = [t \in Submissions |-> dir'[t]]
        /\ \A t \in Submissions \ {s} : dir'[t] = dir[t]
    BY <2>1, Moves DEF IInv, Indexed
  <2>3. /\ DOMAIN local' = DOMAIN local \cup {d} /\ local'[d] = NoFiles
        /\ \A e \in DOMAIN local : local'[e] = local[e]
    BY <2>1 DEF With
  <2>4. Good(s)'
    <3>1. Typed(s)' /\ OwnUpload(s)' /\ OwnJob(s)'
      BY <1>1, <2>2 DEF IInv, Good, Typed, States, OwnUpload, OwnJob
    <3>2. OwnFiles(s)'
      BY <1>1, <2>2, <2>3, NoneMade DEF OwnFiles
    <3>. QED  BY <3>1, <3>2 DEF Good
  <2>5. ASSUME NEW t \in Submissions \ {s} PROVE Good(t)' /\ dir[t] # d
    <3>1. Good(t) /\ Unmoved(t)
      BY <1>1, <1>2, <2>2 DEF IInv, Unmoved
    <3>2. dir[t] # "notebook" => dir[t] \in DOMAIN local
      BY <3>1 DEF Good, OwnFiles
    <3>. QED  BY <1>1, <2>3, <3>1, <3>2, ContentsOK, Others
  <2>6. OwnDir'
    BY <2>2, <2>5 DEF IInv, OwnDir
  <2>. QED  BY <1>1, <1>2, <2>2, <2>4, <2>5, <2>6 DEF IInv, Indexed, OnS3
<1>. QED  BY <1>3, <1>4 DEF MakeDir

(* A file in the directory of s, which is nobody else's unless it is the notebook's. *)
LEMMA StoreStep ==
  ASSUME IInv, NEW s \in Submissions, NEW contents, Store(s, contents)
  PROVE  /\ dir[s] # "notebook" => /\ dir[s] \in DOMAIN local'
                                   /\ local'[dir[s]] = With(local[dir[s]], Files[next[s]], contents)
         /\ \A t \in Submissions \ {s} : dir[t] # "notebook" =>
              dir[t] \in DOMAIN local' /\ local'[dir[t]] = local[dir[t]]
<1>1. \A t \in Submissions : dir[t] # "notebook" => dir[t] \in DOMAIN local
  BY DEF IInv, Good, OwnFiles
<1>2. \A t \in Submissions \ {s} : dir[t] # "notebook" => dir[t] # dir[s]
  BY DEF IInv, OwnDir
<1>. QED  BY <1>1, <1>2 DEF Store

(* The directory has one more file of the submission's own. *)
LEMMA PrepareStep ==
  ASSUME IInv, NEW s \in Submissions, Prepare(s)
  PROVE  IInv'
<1>1. /\ UNCHANGED <<dir, s3config, job>> /\ NextFile(s, "prepare", "sync") /\ Store(s, s)
      /\ clean' = [clean EXCEPT ![s] = at'[s] = "sync"]
  BY DEF Prepare
<1>2. /\ at[s] = "prepare" /\ Good(s)
      /\ \/ next[s] < Len(Files) /\ at'[s] = "prepare" /\ next'[s] = next[s] + 1
         \/ next[s] = Len(Files) /\ at'[s] = "sync" /\ next'[s] = 1
  BY <1>1, NextFileMoves DEF IInv
<1>3. next[s] \in 1..Len(Files) /\ next'[s] \in 1..Len(Files)
  BY <1>2, FilesAre DEF Good, Typed
<1>4. clean'[s] = (at'[s] = "sync") /\ \A t \in Submissions \ {s} : clean'[t] = clean[t]
  BY <1>1 DEF IInv, Indexed
<1>5. Typed(s)' /\ OwnJob(s)'
  BY <1>1, <1>2, <1>3, <1>4 DEF Good, Typed, States, OwnJob
<1>6. OwnFiles(s)'
  <2>. SUFFICES ASSUME dir[s] # "notebook" PROVE OwnFiles(s)'
    BY <1>1 DEF OwnFiles
  <2>1. dir[s] \in DOMAIN local' /\ local'[dir[s]] = Own(s, Made(next[s]))
    BY <1>1, <1>2, <1>3, StoreStep, OneMore DEF Good, OwnFiles
  <2>2. next[s] = (next[s] + 1) - 1
    BY <1>3, FilesAre
  <2>. QED  BY <1>1, <1>2, <2>1, <2>2, AllMade DEF OwnFiles
<1>7. OwnUpload(s)'
  BY <1>1, <1>2, <1>4, NoneMade DEF OwnUpload
<1>8. ASSUME NEW t \in Submissions \ {s} PROVE Good(t)'
  <2>1. Good(t) /\ Unmoved(t)
    BY <1>1, <1>4, NextFileMoves DEF IInv, Unmoved
  <2>. QED  BY <1>1, <2>1, StoreStep, Others
<1>. QED  BY <1>1, <1>5, <1>6, <1>7, <1>8, NextFileMoves DEF IInv, Good, Indexed, OwnDir, OnS3

(* A failed preparation ends the script or leaves the notebook's files. *)
LEMMA PrepareFailsStep ==
  ASSUME IInv, NEW s \in Submissions, PrepareFails(s)
  PROVE  IInv'
<1>1. UNCHANGED <<dir, s3config, job, clean>> /\ Good(s)
  BY DEF PrepareFails, IInv
<1>2. CASE dir[s] # "notebook" /\ Goes(s, "prepare", "failed") /\ UNCHANGED <<next, local>>
  <2>1. Good(s)'
    BY <1>1, <1>2, Moves DEF Good, Typed, States, OwnFiles, OwnUpload, OwnJob
  <2>2. ASSUME NEW t \in Submissions \ {s} PROVE Good(t)'
    <3>1. Good(t) /\ Unmoved(t)
      BY <1>1, <1>2, Moves DEF IInv, Unmoved
    <3>. QED  BY <1>1, <1>2, <3>1, Others DEF Good, OwnFiles
  <2>. QED  BY <1>1, <1>2, <2>1, <2>2, Moves DEF IInv, Indexed, OwnDir, OnS3
<1>3. CASE /\ dir[s] = "notebook" /\ NextFile(s, "prepare", "sync")
           /\ Store(s, Broken) \/ UNCHANGED local
  <2>1. Good(s)'
    <3>1. /\ at'[s] \in {"prepare", "sync"} /\ next'[s] \in 1..Len(Files)
      BY <1>1, <1>3, FilesAre, NextFileMoves DEF Good, Typed
    <3>. QED  BY <1>1, <1>3, <3>1 DEF Good, Typed, States, OwnFiles, OwnUpload, OwnJob
  <2>2. ASSUME NEW t \in Submissions \ {s} PROVE Good(t)'
    <3>1. Good(t) /\ Unmoved(t)
      BY <1>1, <1>3, NextFileMoves DEF IInv, Unmoved
    <3>2. dir[t] # "notebook" => dir[t] \in DOMAIN local' /\ local'[dir[t]] = local[dir[t]]
      BY <1>3, <3>1, StoreStep DEF Good, OwnFiles
    <3>. QED  BY <1>1, <3>1, <3>2, Others
  <2>. QED  BY <1>1, <1>3, <2>1, <2>2, NextFileMoves DEF IInv, Indexed, OwnDir, OnS3
<1>. QED  BY <1>2, <1>3 DEF PrepareFails

(* One more file is on S3, and every other upload is no longer clean. *)
LEMMA UploadStep ==
  ASSUME IInv, NEW s \in Submissions, Upload(s)
  PROVE  IInv'
<1>. DEFINE f == Files[next[s]]
            Clean == [t \in Submissions |-> clean[t] /\ (t = s \/ at[t] \notin {"sync", "fit"})]
<1>1. UNCHANGED <<dir, local, job>> /\ NextFile(s, "sync", "fit") /\ Good(s)
  BY DEF Upload, IInv
<1>2. /\ at[s] = "sync"
      /\ \/ next[s] < Len(Files) /\ at'[s] = "sync" /\ next'[s] = next[s] + 1
         \/ next[s] = Len(Files) /\ at'[s] = "fit" /\ next'[s] = 1
  BY <1>1, NextFileMoves
<1>3. next[s] \in 1..Len(Files) /\ next'[s] \in 1..Len(Files) /\ f \in AllFiles
  BY <1>1, <1>2, FilesAre DEF Good, Typed
<1>4. \/ /\ f \in DOMAIN local[dir[s]] /\ clean' = Clean
         /\ s3config' = With(s3config, f, local[dir[s]][f])
      \/ f \notin DOMAIN local[dir[s]] /\ UNCHANGED <<s3config, clean>>
  BY DEF Upload
<1>5. /\ clean'[s] = clean[s] /\ clean' = [t \in Submissions |-> clean'[t]] /\ OnS3'
      /\ \A t \in Submissions \ {s} :
           /\ clean'[t] \in {clean[t], FALSE}
           /\ clean'[t] /\ at[t] \in {"sync", "fit"} => s3config' = s3config
  <2>1. \A t \in Submissions : clean[t] \in BOOLEAN
    BY DEF IInv, Good, Typed
  <2>2. CASE clean' = Clean /\ s3config' = With(s3config, f, local[dir[s]][f])
    BY <1>3, <2>1, <2>2 DEF With, IInv, OnS3
  <2>3. CASE UNCHANGED <<s3config, clean>>
    BY <2>3 DEF IInv, Indexed, OnS3
  <2>. QED  BY <1>4, <2>2, <2>3
<1>6. Typed(s)' /\ OwnFiles(s)' /\ OwnJob(s)'
  BY <1>1, <1>2, <1>3, <1>5 DEF Good, Typed, States, OwnFiles, OwnJob
<1>7. OwnUpload(s)'
  <2>. SUFFICES ASSUME dir[s] # "notebook", clean[s] PROVE OwnUpload(s)'
    BY <1>1, <1>5 DEF OwnUpload
  <2>1. local[dir[s]] = Own(s, AllFiles)
    BY <1>1, <1>2 DEF Good, OwnFiles
  <2>2. s3config' = With(s3config, f, s)
    BY <1>3, <1>4, <2>1 DEF Own
  <2>3. \A g \in Made(next[s]) : g \in DOMAIN s3config' /\ s3config'[g] = s
    BY <1>1, <1>2, <1>3, <2>2, OneMore DEF With, Good, OwnUpload
  <2>4. CASE at'[s] = "sync"
    <3>1. next[s] = next'[s] - 1
      BY <1>2, <1>3, <2>4, FilesAre
    <3>. QED  BY <2>3, <2>4, <3>1 DEF OwnUpload
  <2>5. CASE at'[s] = "fit"
    <3>1. \A g \in AllFiles : g \in DOMAIN s3config' /\ s3config'[g] = s
      BY <1>2, <2>3, <2>5, <1>3, FilesAre, AllMade
    <3>2. DOMAIN s3config' = AllFiles
      BY <1>5, <3>1 DEF OnS3
    <3>3. s3config' = [g \in DOMAIN s3config' |-> s3config'[g]]
      BY <2>2 DEF With
    <3>4. s3config' = Own(s, AllFiles)
      BY <3>1, <3>2, <3>3 DEF Own
    <3>. QED  BY <2>5, <3>4 DEF OwnUpload
  <2>. QED  BY <1>2, <2>4, <2>5
<1>8. ASSUME NEW t \in Submissions \ {s} PROVE Good(t)'
  <2>1. Good(t) /\ Unmoved(t)
    BY <1>1, <1>5, NextFileMoves DEF IInv, Unmoved
  <2>. QED  BY <1>1, <1>5, <2>1, Others DEF Good, OwnFiles
<1>. QED  BY <1>1, <1>5, <1>6, <1>7, <1>8, NextFileMoves DEF IInv, Good, Indexed, OwnDir

(* A failed upload is not clean. *)
LEMMA UploadFailsStep ==
  ASSUME IInv, NEW s \in Submissions, UploadFails(s)
  PROVE  IInv'
<1>1. /\ UNCHANGED <<dir, local, s3config, job>> /\ NextFile(s, "sync", "fit") /\ Good(s)
      /\ clean' = [clean EXCEPT ![s] = FALSE]
  BY DEF UploadFails, IInv
<1>2. /\ clean'[s] = FALSE /\ clean' = [t \in Submissions |-> clean'[t]]
      /\ \A t \in Submissions \ {s} : clean'[t] = clean[t]
  BY <1>1 DEF IInv, Indexed
<1>3. at[s] = "sync" /\ at'[s] \in {"sync", "fit"} /\ next'[s] \in 1..Len(Files)
  BY <1>1, FilesAre, NextFileMoves DEF Good, Typed
<1>4. Good(s)'
  BY <1>1, <1>2, <1>3 DEF Good, Typed, States, OwnFiles, OwnUpload, OwnJob
<1>5. ASSUME NEW t \in Submissions \ {s} PROVE Good(t)'
  <2>1. Good(t) /\ Unmoved(t)
    BY <1>1, <1>2, NextFileMoves DEF IInv, Unmoved
  <2>. QED  BY <1>1, <2>1, Others DEF Good, OwnFiles
<1>. QED  BY <1>1, <1>2, <1>4, <1>5, NextFileMoves DEF IInv, Indexed, OwnDir, OnS3

(* The job starts with what is on S3. *)
LEMMA FitStep ==
  ASSUME IInv, NEW s \in Submissions, Fit(s)
  PROVE  IInv'
<1>. DEFINE Inputs == [config |-> s3config, labels |-> labels["s3"]]
<1>1. UNCHANGED <<dir, next, local, s3config, clean>> /\ Good(s)
  BY DEF Fit, IInv
<1>2. \/ Goes(s, "fit", "failed") /\ UNCHANGED job
      \/ /\ Goes(s, "fit", "train") /\ job' = [job EXCEPT ![s] = Inputs]
         /\ DOMAIN labels["s3"] # {}
  BY DEF Fit
<1>3. /\ job' = [t \in Submissions |-> job'[t]]
      /\ \A t \in Submissions \ {s} : job'[t] = job[t]
      /\ at'[s] = "train" => job'[s] = Inputs /\ labels["s3"] # NoFiles
  BY <1>2, Moves DEF IInv, Indexed, NoFiles
<1>4. at[s] = "fit" /\ at'[s] \in {"failed", "train"}
  BY <1>2, Moves
<1>5. Good(s)'
  BY <1>1, <1>3, <1>4 DEF Good, Typed, States, OwnFiles, OwnUpload, OwnJob
<1>6. ASSUME NEW t \in Submissions \ {s} PROVE Good(t)'
  <2>1. Good(t) /\ Unmoved(t)
    BY <1>1, <1>2, <1>3, Moves DEF IInv, Unmoved
  <2>. QED  BY <1>1, <2>1, Others DEF Good, OwnFiles
<1>. QED  BY <1>1, <1>2, <1>3, <1>5, <1>6, Moves DEF IInv, Indexed, OwnDir, OnS3

(* The job ends with the inputs it started with. *)
LEMMA TrainStep ==
  ASSUME IInv, NEW s \in Submissions, Train(s)
  PROVE  IInv'
<1>1. UNCHANGED <<dir, next, local, s3config, job, clean>> /\ Good(s)
  BY DEF Train, IInv
<1>2. Goes(s, "train", "completed") \/ Goes(s, "train", "failed")
  BY DEF Train
<1>3. Good(s)'
  BY <1>1, <1>2, Moves DEF Good, Typed, States, OwnFiles, OwnUpload, OwnJob
<1>4. ASSUME NEW t \in Submissions \ {s} PROVE Good(t)'
  <2>1. Good(t) /\ Unmoved(t)
    BY <1>1, <1>2, Moves DEF IInv, Unmoved
  <2>. QED  BY <1>1, <2>1, Others DEF Good, OwnFiles
<1>. QED  BY <1>1, <1>2, <1>3, <1>4, Moves DEF IInv, Indexed, OwnDir, OnS3

(* What each submission relies on holds all the time. *)
LEMMA Invariant == Spec => []IInv
<1>1. IInv /\ [Next]_vars => IInv'
  BY MakeDirStep, PrepareStep, PrepareFailsStep, UploadStep, UploadFailsStep, FitStep,
     TrainStep, Stutter DEF Next, Submission, vars
<1>. QED  BY <1>1, Initially, PTL DEF Spec

-----------------------------------------------------------------------------
(* The labels, which conversions write while jobs download them.           *)

WholeJobs == \A s \in Submissions : Whole(job[s].labels)
LabelsInv == GtInv /\ WholeJobs

(* A job has whole labels, as those on S3 are put whole. *)
LEMMA LabelsStep == IInv /\ LabelsInv /\ [Next]_vars => LabelsInv'
<1>. SUFFICES ASSUME IInv, LabelsInv, [Next]_vars PROVE LabelsInv'
  OBVIOUS
<1>1. CASE UNCHANGED trainVars /\ (GtNext \/ UNCHANGED gtVars)
  <2>1. GtInv'
    BY <1>1, GtStep, GtStutter DEF LabelsInv
  <2>. QED  BY <1>1, <2>1 DEF trainVars, LabelsInv, WholeJobs
<1>2. ASSUME NEW s \in Submissions, Submission(s), UNCHANGED gtVars
      PROVE  LabelsInv'
  <2>1. GtInv'
    BY <1>2, GtStutter DEF LabelsInv
  <2>2. CASE UNCHANGED job
    BY <2>1, <2>2 DEF LabelsInv, WholeJobs
  <2>3. CASE job' = [job EXCEPT ![s] = [config |-> s3config, labels |-> labels["s3"]]]
    <3>1. Whole(labels["s3"])
      BY DEF LabelsInv, GtInv, WholeS3, Whole
    <3>2. \A t \in Submissions : job'[t].labels \in {job[t].labels, labels["s3"]}
      BY <2>3 DEF IInv, Indexed
    <3>. QED  BY <2>1, <3>1, <3>2 DEF LabelsInv, WholeJobs
  <2>. QED  BY <1>2, <2>2, <2>3 DEF Submission, MakeDir, Prepare, PrepareFails, Upload,
              UploadFails, Fit, Train
<1>. QED  BY <1>1, <1>2 DEF Next, vars

(* So the labels of every job are whole. *)
LEMMA LabelsInvariant == Spec => []LabelsInv
<1>1. Init => LabelsInv
  BY GtInitially DEF Init, LabelsInv, WholeJobs, Whole, NoJob, NoFiles
<1>. QED  BY <1>1, LabelsStep, Invariant, PTL DEF Spec

-----------------------------------------------------------------------------
(* Types: what directories and S3 can hold.                                *)

Contents == Submissions \cup {Broken}
LocalTyped == /\ local = [d \in DOMAIN local |-> local[d]]
              /\ DOMAIN local \subseteq Stamps \cup {"notebook"}
              /\ \A d \in DOMAIN local : /\ DOMAIN local[d] \subseteq AllFiles
                                        /\ \A f \in DOMAIN local[d] : local[d][f] \in Contents
S3Typed == \A f \in DOMAIN s3config : s3config[f] \in Contents
HasDir == \A s \in Submissions : at[s] \in {"prepare", "sync"} => dir[s] \in DOMAIN local
HasConfig == \A s \in Submissions :
  at[s] \in {"train", "completed"} => job[s].config # NoFiles
TypeInv == LocalTyped /\ S3Typed /\ HasDir /\ HasConfig

(* Every step keeps the types. *)
LEMMA TypeStep ==
  ASSUME IInv, TypeInv, NEW s \in Submissions, Submission(s)
  PROVE  TypeInv'
<1>1. CASE MakeDir(s)
  <2>1. /\ UNCHANGED <<next, s3config, job, clean>>
        /\ \A t \in Submissions \ {s} : at'[t] = at[t] /\ dir'[t] = dir[t]
        /\ at[s] = "new" /\ at'[s] \in {"prepare", "failed"}
    BY <1>1, Moves DEF MakeDir, IInv, Indexed
  <2>2. /\ local' = local \/ \E d \in Stamps \cup {"notebook"} : local' = With(local, d, NoFiles)
        /\ at'[s] = "prepare" => dir'[s] \in DOMAIN local'
    <3>1. dir[s] = "notebook"
      BY <2>1 DEF IInv, Good, Typed
    <3>2. CASE \E d \in Stamps \ DOMAIN local :
                 dir' = [dir EXCEPT ![s] = d] /\ local' = With(local, d, NoFiles)
      BY <3>2 DEF With, IInv, Indexed
    <3>3. CASE /\ Goes(s, "new", "prepare") /\ UNCHANGED dir
               /\ local' = IF "notebook" \in DOMAIN local THEN local
                           ELSE With(local, "notebook", NoFiles)
      BY <3>1, <3>3 DEF With
    <3>4. CASE Goes(s, "new", "failed") /\ UNCHANGED local
      BY <3>4, Moves
    <3>. QED  BY <1>1, <3>2, <3>3, <3>4 DEF MakeDir
  <2>3. LocalTyped' /\ DOMAIN local \subseteq DOMAIN local'
    <3>1. CASE local' = local
      BY <3>1 DEF TypeInv, LocalTyped
    <3>2. ASSUME NEW d \in Stamps \cup {"notebook"}, local' = With(local, d, NoFiles)
          PROVE  LocalTyped' /\ DOMAIN local \subseteq DOMAIN local'
      <4>1. /\ local' = [e \in DOMAIN local' |-> local'[e]]
            /\ DOMAIN local' = DOMAIN local \cup {d} /\ local'[d] = NoFiles
            /\ \A e \in DOMAIN local \ {d} : local'[e] = local[e]
        BY <3>2 DEF With
      <4>2. DOMAIN NoFiles = {}
        BY DEF NoFiles
      <4>. QED  BY <4>1, <4>2 DEF TypeInv, LocalTyped
    <3>. QED  BY <2>2, <3>1, <3>2
  <2>. QED  BY <2>1, <2>2, <2>3 DEF TypeInv, S3Typed, HasDir, HasConfig
<1>2. CASE Prepare(s) \/ PrepareFails(s)
  <2>1. /\ UNCHANGED <<dir, s3config, job>>
        /\ \A t \in Submissions \ {s} : at'[t] = at[t]
        /\ at[s] = "prepare" /\ at'[s] \in {"prepare", "sync", "failed"}
    BY <1>2, Moves, NextFileMoves DEF Prepare, PrepareFails
  <2>2. UNCHANGED local \/ \E x \in Contents : Store(s, x)
    BY <1>2 DEF Prepare, PrepareFails, Contents
  <2>3. dir[s] \in DOMAIN local
    BY <2>1 DEF TypeInv, HasDir
  <2>4. Files[next[s]] \in AllFiles
    BY FilesAre DEF IInv, Good, Typed
  <2>5. LocalTyped' /\ DOMAIN local' = DOMAIN local
    <3>1. CASE UNCHANGED local
      BY <3>1 DEF TypeInv, LocalTyped
    <3>2. ASSUME NEW x \in Contents, Store(s, x)
          PROVE  LocalTyped' /\ DOMAIN local' = DOMAIN local
      <4>1. /\ local' = [d \in DOMAIN local' |-> local'[d]] /\ DOMAIN local' = DOMAIN local
            /\ local'[dir[s]] = With(local[dir[s]], Files[next[s]], x)
            /\ \A d \in DOMAIN local \ {dir[s]} : local'[d] = local[d]
        BY <2>3, <3>2 DEF Store, TypeInv, LocalTyped
      <4>2. /\ DOMAIN local'[dir[s]] = DOMAIN local[dir[s]] \cup {Files[next[s]]}
            /\ local'[dir[s]][Files[next[s]]] = x
            /\ \A f \in DOMAIN local[dir[s]] \ {Files[next[s]]} :
                 local'[dir[s]][f] = local[dir[s]][f]
        BY <4>1 DEF With
      <4>. QED  BY <2>3, <2>4, <4>1, <4>2 DEF TypeInv, LocalTyped
    <3>. QED  BY <2>2, <3>1, <3>2
  <2>. QED  BY <2>1, <2>3, <2>5 DEF TypeInv, S3Typed, HasDir, HasConfig
<1>3. CASE Upload(s) \/ UploadFails(s)
  <2>1. /\ UNCHANGED <<dir, local, job>>
        /\ \A t \in Submissions \ {s} : at'[t] = at[t]
        /\ at[s] = "sync" /\ at'[s] \in {"sync", "fit"}
    BY <1>3, NextFileMoves DEF Upload, UploadFails
  <2>2. dir[s] \in DOMAIN local
    BY <2>1 DEF TypeInv, HasDir
  <2>3. S3Typed'
    BY <1>3, <2>2 DEF Upload, UploadFails, With, TypeInv, S3Typed, LocalTyped
  <2>. QED  BY <2>1, <2>2, <2>3 DEF TypeInv, LocalTyped, HasDir, HasConfig
<1>4. CASE Fit(s) \/ Train(s)
  <2>1. /\ UNCHANGED <<dir, local, s3config>>
        /\ \A t \in Submissions \ {s} : at'[t] = at[t] /\ job'[t] = job[t]
        /\ at[s] \in {"fit", "train"} /\ at'[s] \in {"train", "completed", "failed"}
    BY <1>4, Moves DEF Fit, Train, IInv, Indexed
  <2>2. at'[s] \in {"train", "completed"} => job'[s].config # NoFiles
    BY <1>4, Moves DEF Fit, Train, NoFiles, TypeInv, HasConfig, IInv, Indexed
  <2>. QED  BY <2>1, <2>2 DEF TypeInv, LocalTyped, S3Typed, HasDir, HasConfig
<1>. QED  BY <1>1, <1>2, <1>3, <1>4 DEF Submission

(* The types of YoloTraining with those of GroundTruth. *)
LEMMA TypeInvariant == Spec => [](TypeInv /\ GtTypeOK)
<1>1. Init => TypeInv /\ GtTypeOK
  BY ConversionsOK, EmptySeq DEF Init, TypeInv, LocalTyped, S3Typed, HasDir, HasConfig, NoFiles,
     GtInit, GtTypeOK, Tools, Places
<1>2. IInv /\ LabelsInv /\ TypeInv /\ GtTypeOK /\ [Next]_vars => (TypeInv /\ GtTypeOK)'
  <2>. SUFFICES ASSUME IInv, LabelsInv, TypeInv, GtTypeOK, [Next]_vars
                PROVE  (TypeInv /\ GtTypeOK)'
    OBVIOUS
  <2>1. CASE UNCHANGED trainVars /\ (GtNext \/ UNCHANGED gtVars)
    <3>1. TypeInv'
      BY <2>1 DEF trainVars, TypeInv, LocalTyped, S3Typed, HasDir, HasConfig
    <3>2. GtTypeOK'
      BY <2>1, GtTypeStep DEF LabelsInv, gtVars, GtTypeOK
    <3>. QED  BY <3>1, <3>2
  <2>2. CASE UNCHANGED gtVars /\ \E s \in Submissions : Submission(s)
    <3>1. GtTypeOK'
      BY <2>2 DEF gtVars, GtTypeOK
    <3>. QED  BY <2>2, <3>1, TypeStep
  <2>. QED  BY <2>1, <2>2 DEF Next, vars
<1>. QED  BY <1>1, <1>2, Invariant, LabelsInvariant, PTL DEF Spec

-----------------------------------------------------------------------------
(* The theorems.                                                           *)

(* A job of the script trains with its own configuration, all of it, unless an upload  *)
(* failed or another submission uploaded in between (sm_yolov5_training.py:46-123).    *)
THEOREM OwnConfigHolds == Spec => []OwnConfig
<1>1. IInv => OwnConfig
  BY DEF IInv, Good, OwnJob, OwnConfig, Own
<1>. QED  BY <1>1, Invariant, PTL

(* Labels on S3 and in jobs are whole at any moment, those in the KITTI directory     *)
(* except while they are written and where a conversion ended early                  *)
(* (sm_yolov5_from_gt.py:77-93, gt_to_kitti.py:63-85).                                *)
THEOREM WholeLabelsHolds == Spec => []WholeLabels
<1>1. LabelsInv => WholeLabels
  BY DEF LabelsInv, WholeJobs, GtInv, WholeS3, WholeDir, WholeLabels, Whole, HasImage,
         Name, Current
<1>. QED  BY <1>1, LabelsInvariant, PTL

(* What the current or last conversion has dealt with is converted, whatever earlier  *)
(* ones left (sm_yolov5_from_gt.py:62-106, gt_to_kitti.py:46-100).                    *)
THEOREM ConvertedHolds == Spec => []Converted
<1>1. LabelsInv => Converted
  BY DEF LabelsInv, GtInv
<1>. QED  BY <1>1, LabelsInvariant, PTL

(* Types; what is uploaded comes from a directory that exists.                         *)
THEOREM TypeCorrect == Spec => []TypeOK
<1>1. IInv /\ TypeInv /\ GtTypeOK => TypeOK
  BY FilesAre DEF IInv, Good, Typed, States, TypeInv, LocalTyped, S3Typed, HasDir, HasConfig,
     Contents, TypeOK
<1>. QED  BY <1>1, Invariant, TypeInvariant, PTL
===============================================================================
