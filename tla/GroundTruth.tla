------------------------------ MODULE GroundTruth ------------------------------
(***************************************************************************)
(* Turning a SageMaker Ground Truth manifest into label files:             *)
(* sm_yolov5/sm_yolov5_from_gt.py and its notebook write one object per    *)
(* image on S3, mlops_nvds/gt_to_kitti.py one label file per image next to *)
(* a copy of the image.  A conversion ends at the first line it cannot     *)
(* handle and is run again by hand.                                        *)
(*                                                                         *)
(* An annotation stands for its class: what the boxes are scaled to is     *)
(* arithmetic and left out.                                                *)
(***************************************************************************)
EXTENDS Integers, Sequences

CONSTANTS Manifests,      \* manifests that are converted: sequences of Entry
          ClassMap,       \* classes that the metadata of the manifests name
          MaxConversions  \* bound: conversions that are started

\* A line: how many keys end with -metadata and how many are results, whether the
\* labelling failed, <<folder, name, extension>> of the image or <<>>, the length
\* of image_size, and the annotations.
Entry == [metas : Nat, jobs : Nat, failed : BOOLEAN, source : Seq(STRING),
          sizes : Nat, boxes : Seq(Nat)]

ASSUME ManifestsOK == Manifests \subseteq Seq(Entry)
ASSUME ConversionsOK == MaxConversions \in Nat

Tools == {"yolo", "notebook", "kitti"}
Places == {"s3", "dir"}

VARIABLES
  tool,         \* the program that runs or ran last
  manifest,     \* the lines it was given
  line,         \* the line it is at
  step,         \* "idle", "line", or "boxes" while a label file is open
  labels,       \* per place: the label files there are, name -> annotations
  images,       \* images in the KITTI directory: <<name, extension>>
  conversions,  \* conversions started
  stopped       \* history: KITTI labels that a conversion ended at

gtVars == <<tool, manifest, line, step, labels, images, conversions, stopped>>

NoFiles == [n \in {} |-> <<>>]

GtInit == /\ tool = "yolo" /\ manifest = <<>> /\ line = 1 /\ step = "idle"
          /\ labels = [p \in Places |-> NoFiles]
          /\ images = {} /\ conversions = 0 /\ stopped = {}

\* The files with one of them written.
With(files, name, contents) ==
  [n \in DOMAIN files \cup {name} |-> IF n = name THEN contents ELSE files[n]]

Label(d) == d.source[2]
Image(d) == <<d.source[2], d.source[3]>>

\* The assertions before the test for a failed labelling, and those after it.  The
\* notebook does not import os, and fails where it takes the image's name apart.
Unreadable(d) == d.metas # 1 \/ d.jobs > 1
Incomplete(d) == d.jobs = 0 \/ d.source = <<>> \/ tool = "notebook" \/ d.sizes # 1
Refused(d) == Unreadable(d) \/ (~d.failed /\ Incomplete(d))

Skipped(d) == d.failed \/ d.boxes = <<>>

-----------------------------------------------------------------------------
(* A conversion, line by line.                                             *)

\* Fault: a conversion goes on where the one before ended.
Convert_SameLine == /\ step = "idle" /\ conversions < MaxConversions
                    /\ conversions' = conversions + 1
                    /\ tool' \in Tools /\ manifest' \in Manifests
                    /\ step' = "line" /\ UNCHANGED <<line, labels, images, stopped>>

Convert == /\ step = "idle" /\ conversions < MaxConversions
           /\ conversions' = conversions + 1
           /\ tool' \in Tools /\ manifest' \in Manifests
           /\ line' = 1 /\ step' = "line"
           /\ UNCHANGED <<labels, images, stopped>>

AtLine == step = "line" /\ line <= Len(manifest)
Running == UNCHANGED <<tool, manifest, conversions>>
NextLine == line' = line + 1 /\ step' = "line" /\ Running

Finish == /\ step = "line" /\ line > Len(manifest)
          /\ step' = "idle" /\ Running
          /\ UNCHANGED <<line, labels, images, stopped>>

\* The conversion ends here, with everything it has written so far.
End == /\ step' = "idle" /\ Running
       /\ stopped' = IF step = "boxes" THEN stopped \cup {Label(manifest[line])} ELSE stopped
       /\ UNCHANGED <<line, labels, images>>

Refuse == AtLine /\ Refused(manifest[line]) /\ End

Skip == /\ AtLine /\ ~Refused(manifest[line]) /\ Skipped(manifest[line])
        /\ NextLine /\ UNCHANGED <<labels, images, stopped>>

Handles(d) == AtLine /\ ~Refused(d) /\ ~Skipped(d)

Write(place, d, boxes) ==
  labels' = [labels EXCEPT ![place] = With(@, Label(d), boxes)]

\* Fault: the object is put within the loop over the annotations.
PutLabel_Early(d) == /\ tool = "yolo" /\ Handles(d)
                     /\ \/ Write("s3", d, SubSeq(d.boxes, 1, 1)) /\ UNCHANGED <<line, step>> /\ Running
                        \/ Write("s3", d, d.boxes) /\ NextLine
                     /\ UNCHANGED <<images, stopped>>

\* Fault: a label that is there already is kept.
PutLabel_Once(d) == /\ tool = "yolo" /\ Handles(d)
                    /\ IF Label(d) \in DOMAIN labels["s3"] THEN UNCHANGED labels
                       ELSE Write("s3", d, d.boxes)
                    /\ NextLine /\ UNCHANGED <<images, stopped>>

\* The label is put together in memory, and put as one object.
PutLabel(d) == /\ tool = "yolo" /\ Handles(d)
               /\ Write("s3", d, d.boxes)
               /\ NextLine /\ UNCHANGED <<images, stopped>>

OpenLabel(d) == /\ tool = "kitti" /\ Handles(d)
                /\ Write("dir", d, <<>>)
                /\ step' = "boxes" /\ Running
                /\ UNCHANGED <<line, images, stopped>>

Written(d) == Len(labels["dir"][Label(d)])

\* A class that the class-map does not have raises KeyError.
WriteBox(d) == /\ step = "boxes" /\ Written(d) < Len(d.boxes)
               /\ LET class == d.boxes[Written(d) + 1]
                  IN  IF class \notin ClassMap THEN End
                      ELSE /\ Write("dir", d, Append(labels["dir"][Label(d)], class))
                           /\ Running /\ UNCHANGED <<line, step, images, stopped>>

CopyImage(d) == /\ step = "boxes" /\ Written(d) = Len(d.boxes)
                /\ images' = images \cup {Image(d)}
                /\ stopped' = stopped \ {Label(d)}
                /\ NextLine /\ UNCHANGED labels

\* S3, the disk, a missing image, Ctrl-C.
Stop == step # "idle" /\ End

GtNext == \/ Convert \/ Finish \/ Refuse \/ Skip \/ Stop
          \/ line \in DOMAIN manifest /\
               LET d == manifest[line]
               IN  PutLabel(d) \/ OpenLabel(d) \/ WriteBox(d) \/ CopyImage(d)

-----------------------------------------------------------------------------
(* Properties.                                                             *)

\* Whatever earlier conversions left, also those that ended early, and whatever
\* images share a name: a label that the current or last conversion has dealt with
\* is that of the last annotated line with this name, and the images of these lines
\* are beside it (sm_yolov5_from_gt.py:62-106, gt_to_kitti.py:46-100).
Place == IF tool = "kitti" THEN "dir" ELSE "s3"
Annotated(i) == ~Refused(manifest[i]) /\ ~Skipped(manifest[i])
InWork(name) == /\ tool = "kitti" /\ line <= Len(manifest)
                /\ Annotated(line) /\ name = Label(manifest[line])
Converted ==
  \A i \in 1..(line - 1) : Annotated(i) =>
    /\ tool = "kitti" => Image(manifest[i]) \in images
    /\ \/ \E j \in (i + 1)..(line - 1) : Annotated(j) /\ Label(manifest[j]) = Label(manifest[i])
       \/ InWork(Label(manifest[i]))
       \/ /\ Label(manifest[i]) \in DOMAIN labels[Place]
          /\ labels[Place][Label(manifest[i])] = manifest[i].boxes

\* The annotations that a label of this name can have.
WholeBoxes(name) ==
  UNION {{m[i].boxes : i \in {k \in DOMAIN m : m[k].source # <<>> /\ Label(m[k]) = name}}
           : m \in Manifests}

GtTypeOK == /\ tool \in Tools /\ step \in {"idle", "line", "boxes"}
            /\ manifest \in Manifests \cup {<<>>} /\ line \in 1..(Len(manifest) + 1)
            /\ conversions \in 0..MaxConversions
            /\ DOMAIN labels = Places /\ stopped \subseteq DOMAIN labels["dir"]
            /\ step = "boxes" => tool = "kitti" /\ line \in DOMAIN manifest
===============================================================================
