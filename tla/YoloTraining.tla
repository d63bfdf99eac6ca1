------------------------------ MODULE YoloTraining ------------------------------
(***************************************************************************)
(* sm_yolov5: training a YOLOv5 model on SageMaker with the labels that    *)
(* GroundTruth puts on S3.  A submission - sm_yolov5_training.py or its    *)
(* notebook - collects the configuration in a working directory, syncs it  *)
(* to S3 and starts a job, which downloads configuration and labels and    *)
(* runs sm_entry_point.py around train.py.                                 *)
(*                                                                         *)
(* All submissions and conversions use one S3 path.  SageMaker, aws s3 and *)
(* train.py are external.                                                  *)
(***************************************************************************)
EXTENDS GroundTruth

CONSTANTS Submissions,  \* trainings that are submitted, each with its own settings
          Files,        \* files of the configuration, in the order they are made
          Checked,      \* those that train.py looks for before it makes its results
          Stamps,       \* seconds in which a working directory is named
          Broken        \* contents of a file that came down incomplete

ASSUME FilesOK == Files \in Seq(STRING) /\ Files # <<>>
ASSUME CheckedOK == Checked \subseteq {Files[i] : i \in DOMAIN Files}
ASSUME ContentsOK == Broken \notin Submissions /\ "notebook" \notin Stamps

VARIABLES
  at,        \* per submission: where it is
  dir,       \* its working directory
  next,      \* the file of the configuration that it deals with next
  local,     \* per directory there is: its configuration, file -> whose it is
  s3config,  \* the same on S3
  job,       \* per submission: the configuration and the labels its job downloaded
  clean      \* history: its upload was complete, and nobody else's came in between

trainVars == <<at, dir, next, local, s3config, job, clean>>
vars == <<gtVars, trainVars>>

NoJob == [config |-> NoFiles, labels |-> NoFiles]

Init == /\ GtInit
        /\ at = [s \in Submissions |-> "new"]
        /\ dir = [s \in Submissions |-> "notebook"]
        /\ next = [s \in Submissions |-> 1]
        /\ local = NoFiles /\ s3config = NoFiles
        /\ job = [s \in Submissions |-> NoJob]
        /\ clean = [s \in Submissions |-> FALSE]

Goes(s, from, to) == at[s] = from /\ at' = [at EXCEPT ![s] = to]

-----------------------------------------------------------------------------
(* The configuration.                                                      *)

\* Fault: the directory of another training is used when there is one.
MakeDir_Shared(s) ==
  \E d \in Stamps \cup {"notebook"} :
    /\ Goes(s, "new", "prepare")
    /\ dir' = [dir EXCEPT ![s] = d]
    /\ local' = IF d \in DOMAIN local THEN local ELSE With(local, d, NoFiles)
    /\ UNCHANGED <<next, s3config, job, clean>>

\* The script names a new directory after the current second, the notebook uses one
\* of its own again.
MakeDir(s) ==
  \/ /\ \E d \in Stamps \ DOMAIN local :
          /\ dir' = [dir EXCEPT ![s] = d]
          /\ local' = With(local, d, NoFiles)
     /\ Goes(s, "new", "prepare")
     /\ UNCHANGED <<next, s3config, job, clean>>
  \/ /\ Goes(s, "new", "prepare")
     /\ local' = IF "notebook" \in DOMAIN local THEN local ELSE With(local, "notebook", NoFiles)
     /\ UNCHANGED <<dir, next, s3config, job, clean>>
  \/ /\ Stamps \cap DOMAIN local # {}
     /\ Goes(s, "new", "failed")
     /\ UNCHANGED <<dir, next, local, s3config, job, clean>>

\* On to the next file, or the next phase.
NextFile(s, from, to) ==
  /\ at[s] = from
  /\ IF next[s] < Len(Files)
     THEN next' = [next EXCEPT ![s] = @ + 1] /\ UNCHANGED at
     ELSE next' = [next EXCEPT ![s] = 1] /\ Goes(s, from, to)

Store(s, contents) ==
  local' = [local EXCEPT ![dir[s]] = With(@, Files[next[s]], contents)]

\* Download or copy of one file.
Prepare(s) == /\ NextFile(s, "prepare", "sync")
              /\ Store(s, s)
              /\ clean' = [clean EXCEPT ![s] = at'[s] = "sync"]
              /\ UNCHANGED <<dir, s3config, job>>

\* In the script it raises; the notebook goes on after a shell command that failed.
PrepareFails(s) ==
  \/ /\ dir[s] # "notebook" /\ Goes(s, "prepare", "failed")
     /\ UNCHANGED <<dir, next, local, s3config, job, clean>>
  \/ /\ dir[s] = "notebook" /\ NextFile(s, "prepare", "sync")
     /\ Store(s, Broken) \/ UNCHANGED local
     /\ UNCHANGED <<dir, s3config, job, clean>>

\* aws s3 sync puts the files of the directory one by one.
Upload(s) == /\ NextFile(s, "sync", "fit")
             /\ LET f == Files[next[s]]
                IN  IF f \in DOMAIN local[dir[s]]
                    THEN /\ s3config' = With(s3config, f, local[dir[s]][f])
                         /\ clean' = [t \in Submissions |->
                                       clean[t] /\ (t = s \/ at[t] \notin {"sync", "fit"})]
                    ELSE UNCHANGED <<s3config, clean>>
             /\ UNCHANGED <<dir, local, job>>

\* Its exit status is not looked at.
UploadFails(s) == /\ NextFile(s, "sync", "fit")
                  /\ clean' = [clean EXCEPT ![s] = FALSE]
                  /\ UNCHANGED <<dir, local, s3config, job>>

-----------------------------------------------------------------------------
(* The job.                                                                *)

\* estimator.fit: the job downloads its inputs, which must not be empty.
Fit(s) == /\ IF DOMAIN s3config = {} \/ DOMAIN labels["s3"] = {}
             THEN Goes(s, "fit", "failed") /\ UNCHANGED job
             ELSE /\ Goes(s, "fit", "train")
                  /\ job' = [job EXCEPT ![s] = [config |-> s3config, labels |-> labels["s3"]]]
          /\ UNCHANGED <<dir, next, local, s3config, clean>>

AllFiles == {Files[i] : i \in DOMAIN Files}

\* train.py makes the directory of its results once it has found the files that it
\* checks first, and may fail after that: the weights are looked for later.
TrainMakesResults(s) == at[s] = "train" /\ Checked \subseteq DOMAIN job[s].config

\* sm_entry_point.py does not look at the exit status of train.py; without a
\* directory of results copytree raises and the job fails.
Train(s) == /\ \/ TrainMakesResults(s) /\ Goes(s, "train", "completed")
               \/ Goes(s, "train", "failed")
            /\ UNCHANGED <<dir, next, local, s3config, job, clean>>

Submission(s) == \/ MakeDir(s) \/ Prepare(s) \/ PrepareFails(s)
                 \/ Upload(s) \/ UploadFails(s) \/ Fit(s) \/ Train(s)

Next == \/ GtNext /\ UNCHANGED trainVars
        \/ (\E s \in Submissions : Submission(s)) /\ UNCHANGED gtVars

Spec == Init /\ [][Next]_vars

-----------------------------------------------------------------------------
(* Properties.                                                             *)

Whole(files) == \A n \in DOMAIN files : files[n] \in WholeBoxes(n)
HasImage(name) == \E i \in images : i[1] = name

\* A label on S3, and one that a job trains with, has all the annotations of its
\* image at any moment.  One in the KITTI directory may be incomplete or without an
\* image, but only while it is written and where a conversion ended early
\* (sm_yolov5_from_gt.py:77-93, gt_to_kitti.py:63-85).
WholeLabels ==
  /\ Whole(labels["s3"]) /\ \A s \in Submissions : Whole(job[s].labels)
  /\ \A n \in DOMAIN labels["dir"] :
       \/ n \in stopped
       \/ step = "boxes" /\ n = Label(manifest[line])
       \/ labels["dir"][n] \in WholeBoxes(n) /\ HasImage(n)

\* A job that the script started trains with the configuration of its own
\* submission, all of it, unless an upload failed or another submission to the same
\* path uploaded before the job had its inputs (sm_yolov5_training.py:46-86, 102-123).
OwnConfig ==
  \A s \in Submissions :
    at[s] \in {"train", "completed"} /\ dir[s] # "notebook" /\ clean[s] =>
      job[s].config = [f \in AllFiles |-> s]

\* Every variable has its type; only what is in a directory that exists is uploaded.
TypeOK == /\ GtTypeOK
          /\ \A s \in Submissions :
               /\ at[s] \in {"new", "prepare", "sync", "fit", "train", "completed", "failed"}
               /\ at[s] \in {"prepare", "sync"} => dir[s] \in DOMAIN local
               /\ next[s] \in DOMAIN Files /\ clean[s] \in BOOLEAN
               /\ job[s].config # NoFiles \/ at[s] \notin {"train", "completed"}
          /\ DOMAIN local \subseteq Stamps \cup {"notebook"}
          /\ \A d \in DOMAIN local : DOMAIN local[d] \subseteq AllFiles
          /\ \A f \in DOMAIN s3config : s3config[f] \in Submissions \cup {Broken}
===============================================================================
