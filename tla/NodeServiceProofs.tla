------------------------- MODULE NodeServiceProofs -------------------------
(***************************************************************************)
(* Proofs about NodeService, for any number of pods and faults: its types, *)
(* that a disk is detached only when nothing of it is mounted, and that a  *)
(* published pod has the disk.                                             *)
(***************************************************************************)
EXTENDS NodeService, SequenceTheorems, TLAPS

StageSteps == {"stage", "mount", "resize", "staged", "unstage", "unmount", "unstaged"}
PublishSteps == {"publish", "published"}
PodSteps == PublishSteps \cup {"unpublish", "unpublished"}

Top(t) == target[t] # <<>> /\ target[t][Len(target[t])] = "disk"

(* What the caller knows of the staging path, and what the handler leaves  *)
(* there.                                                                  *)
StagingInv ==
    /\ pc \in StageSteps => dev = "uncertain"
    /\ dev = "staged" => staging > 0
    /\ pc = "unstaged" \/ dev = "none" => staging = 0

(* The same for the target paths.  A pod is published only while the       *)
(* caller takes the volume for staged.                                     *)
TargetInv ==
    /\ pc \in PodSteps => pub[pod] = "uncertain"
    /\ pc \in PublishSteps => dev = "staged"
    /\ pc = "published" => Top(pod)
    /\ pc = "unpublished" => target[pod] = <<>>
    /\ \A t \in Pods : /\ pub[t] = "published" => Top(t)
                       /\ pub[t] = "none" => target[t] = <<>>

(* A disk that is not attached has been undone everywhere.                 *)
DetachedInv ==
    ~attached => dev = "none" /\ \A t \in Pods : pub[t] = "none"

NodeInv == TypeOK /\ StagingInv /\ TargetInv /\ DetachedInv

----------------------------------------------------------------------------
Mounts == {"disk", "dir"}

(* A mount on a path is on top of those that were there.                   *)
LEMMA MountOnTop ==
    ASSUME NEW s \in Seq(Mounts), NEW e \in Mounts
    PROVE  /\ Append(s, e) \in Seq(Mounts) /\ Append(s, e) # <<>>
           /\ Append(s, e)[Len(Append(s, e))] = e
<1>1. /\ Append(s, e) \in Seq(Mounts)
      /\ Len(Append(s, e)) = Len(s) + 1
      /\ Append(s, e)[Len(s) + 1] = e
      BY AppendProperties
<1>2. Len(s) \in Nat
      BY LenProperties
<1>3. Append(s, e) # <<>>
      BY <1>1, <1>2, EmptySeq
<1> QED
    BY <1>1, <1>3

(* An unmount leaves those below; the last one leaves nothing.             *)
LEMMA MountTakenOff ==
    ASSUME NEW s \in Seq(Mounts), s # <<>>
    PROVE  /\ SubSeq(s, 1, Len(s) - 1) \in Seq(Mounts)
           /\ Len(s) <= 1 => SubSeq(s, 1, Len(s) - 1) = <<>>
<1>1. Len(s) \in Nat \ {0}
      BY EmptySeq
<1>2. \A i \in 1..(Len(s) - 1) : s[i] \in Mounts
      BY <1>1, ElementOfSeq
<1>3. SubSeq(s, 1, Len(s) - 1) \in Seq(Mounts)
      BY <1>1, <1>2, SubSeqProperties
<1>4. Len(s) <= 1 => SubSeq(s, 1, Len(s) - 1) = <<>>
      BY <1>1, SubSeqEmpty
<1> QED
    BY <1>3, <1>4

----------------------------------------------------------------------------
LEMMA NodeInit == Init => NodeInv
<1> SUFFICES ASSUME Init PROVE NodeInv
    OBVIOUS
<1>1. <<>> \in Seq(Mounts)
      BY EmptySeq
<1>2. faults \in 0..MaxFaults /\ staging \in Nat
      BY MaxFaultsAssumption DEF Init
<1>3. TypeOK
      BY <1>1, <1>2, NoPodAssumption, Zenon DEF Init, TypeOK, Steps, Mounts
<1>4. StagingInv /\ TargetInv /\ DetachedInv
      BY DEF Init, StagingInv, TargetInv, DetachedInv, StageSteps, PublishSteps, PodSteps
<1> QED
    BY <1>3, <1>4 DEF NodeInv

(* Steps that leave the target paths alone.                                *)
LEMMA StagingStep ==
    ASSUME NodeInv,
           CallStage \/ CallUnstage \/ CheckStaged \/ FormatAndMount \/ MountRefused \/ Resize
             \/ Staged \/ CheckUnstage \/ Unmount \/ Unstaged \/ MountFails
    PROVE  NodeInv'
<1> USE NoPodAssumption, MaxFaultsAssumption
        DEF NodeInv, TypeOK, Steps, StagingInv, TargetInv, DetachedInv, Top, GoTo, Return,
            StageSteps, PublishSteps, PodSteps, mounts, handler, caller
<1>1. CASE CallStage \/ CallUnstage
      BY <1>1 DEF CallStage, CallUnstage
<1>2. CASE CheckStaged
      BY <1>2 DEF CheckStaged, DeviceNameFromMount, Device, DevicePath
<1>3. CASE FormatAndMount
      BY <1>3 DEF FormatAndMount
<1>4. CASE MountRefused \/ MountFails
  <2>1. TypeOK'
    <3>1. CASE MountRefused
          BY <3>1, Zenon DEF MountRefused
    <3>2. CASE MountFails
          BY <3>2 DEF MountFails
    <3> QED
        BY <1>4, <3>1, <3>2
  <2>2. StagingInv' /\ TargetInv' /\ DetachedInv'
        BY <1>4 DEF MountRefused, MountFails
  <2> QED
      BY <2>1, <2>2
<1>5. CASE Resize
      BY <1>5 DEF Resize
<1>6. CASE Staged
      BY <1>6 DEF Staged
<1>7. CASE CheckUnstage
      BY <1>7 DEF CheckUnstage
<1>8. CASE Unmount
      BY <1>8 DEF Unmount
<1>9. CASE Unstaged
      BY <1>9 DEF Unstaged
<1> QED
    BY <1>1, <1>2, <1>3, <1>4, <1>5, <1>6, <1>7, <1>8, <1>9

(* NodePublishVolume and NodeUnpublishVolume.                              *)
LEMMA TargetStep ==
    ASSUME NodeInv,
           (\E t \in Pods : CallPublish(t) \/ CallUnpublish(t))
             \/ BindMount \/ Published \/ UnmountTarget \/ Unpublished
    PROVE  NodeInv'
<1> USE NoPodAssumption
        DEF NodeInv, TypeOK, Steps, StagingInv, TargetInv, DetachedInv, Top, GoTo, Return,
            StageSteps, PublishSteps, PodSteps, mounts, handler, caller
<1>1. ASSUME NEW t \in Pods, CallPublish(t) \/ CallUnpublish(t) PROVE NodeInv'
  <2>1. /\ pc = "idle" /\ pc' \in {"publish", "unpublish"} /\ pod' = t
        /\ pc' = "publish" => dev = "staged"
        /\ pub' = [pub EXCEPT ![t] = "uncertain"]
        /\ UNCHANGED <<mounts, wants, attached, dev, refused, faults>>
        BY <1>1 DEF CallPublish, CallUnpublish, CallFor
  <2>2. attached
        BY <1>1 DEF CallPublish, CallUnpublish
  <2>3. TypeOK'
        BY <2>1
  <2>4. StagingInv' /\ DetachedInv'
        BY <2>1, <2>2
  <2>5. TargetInv'
        BY <2>1
  <2> QED
      BY <2>3, <2>4, <2>5
<1>2. CASE BindMount
  <2>1. pod \in Pods /\ target[pod] \in Seq(Mounts) /\ staging > 0
        BY <1>2 DEF BindMount, Mounts
  <2>2. target' = [target EXCEPT ![pod] = Append(@, "disk")]
        BY <1>2, <2>1 DEF BindMount
  <2>3. /\ target'[pod] \in Seq(Mounts) /\ target'[pod] # <<>>
        /\ target'[pod][Len(target'[pod])] = "disk"
        BY <2>1, <2>2, MountOnTop DEF Mounts
  <2>4. target' \in [Pods -> Seq(Mounts)]
        BY <2>1, <2>2, <2>3 DEF Mounts
  <2>5. \A t \in Pods \ {pod} : target'[t] = target[t]
        BY <2>1, <2>2
  <2> QED
      BY <1>2, <2>1, <2>3, <2>4, <2>5 DEF BindMount, Mounts
<1>3. CASE Published
      BY <1>3 DEF Published
<1>4. CASE UnmountTarget
  <2>1. pod \in Pods /\ target[pod] \in Seq(Mounts)
        BY <1>4 DEF UnmountTarget, Mounts
  <2>2. target' = [target EXCEPT ![pod] = IF @ = <<>> THEN <<>> ELSE SubSeq(@, 1, Len(@) - 1)]
        BY <1>4 DEF UnmountTarget, Uncovered
  <2>3. target'[pod] \in Seq(Mounts) /\ (Len(target[pod]) <= 1 => target'[pod] = <<>>)
        BY <2>1, <2>2, MountTakenOff, EmptySeq
  <2>4. target' \in [Pods -> Seq(Mounts)]
        BY <2>1, <2>2, <2>3 DEF Mounts
  <2>5. \A t \in Pods \ {pod} : target'[t] = target[t]
        BY <2>1, <2>2
  <2> QED
      BY <1>4, <2>1, <2>3, <2>4, <2>5 DEF UnmountTarget, Mounts
<1>5. CASE Unpublished
      BY <1>5 DEF Unpublished
<1> QED
    BY <1>1, <1>2, <1>3, <1>4, <1>5

(* The pods, attaching and detaching, failed calls and reboots.            *)
LEMMA OtherStep ==
    ASSUME NodeInv,
           (\E t \in Pods : PodComes(t) \/ PodGoes(t))
             \/ Attach \/ Detach \/ CallFails \/ Reboot \/ UNCHANGED vars
    PROVE  NodeInv'
<1> USE NoPodAssumption, MaxFaultsAssumption
        DEF NodeInv, TypeOK, Steps, StagingInv, TargetInv, DetachedInv, Top, Return,
            StageSteps, PublishSteps, PodSteps, mounts, handler, caller
<1>1. ASSUME NEW t \in Pods, PodComes(t) \/ PodGoes(t) PROVE NodeInv'
      BY <1>1 DEF PodComes, PodGoes
<1>2. CASE Attach \/ Detach
      BY <1>2 DEF Attach, Detach
<1>3. CASE CallFails
      BY <1>3 DEF CallFails
<1>4. CASE Reboot
  <2>1. <<>> \in Seq(Mounts)
        BY EmptySeq
  <2>2. faults' \in 0..MaxFaults /\ staging' \in Nat
        BY <1>4 DEF Reboot
  <2>3. TypeOK'
        BY <1>4, <2>1, <2>2, Zenon DEF Reboot, Mounts
  <2>4. StagingInv' /\ TargetInv' /\ DetachedInv'
        BY <1>4 DEF Reboot
  <2> QED
      BY <2>3, <2>4
<1>5. CASE UNCHANGED vars
      BY <1>5 DEF vars
<1> QED
    BY <1>1, <1>2, <1>3, <1>4, <1>5

LEMMA NodeInvariant == Spec => []NodeInv
<1>1. NodeInv /\ [Next]_vars => NodeInv'
      BY StagingStep, TargetStep, OtherStep DEF Next, HandlerStep, CallerStep
<1> QED
    BY <1>1, NodeInit, PTL DEF Spec

----------------------------------------------------------------------------
(* Every state has the types the model declares, only a publish or         *)
(* unpublish call has a pod, and a handler resizes or unmounts what is     *)
(* mounted on the staging path.                                            *)
THEOREM NodeTypeCorrect == Spec => []TypeOK
BY NodeInvariant, PTL DEF NodeInv

(* However often stage and publish calls are repeated, fail or are not     *)
(* answered, the disk is detached only when no path has it mounted.        *)
THEOREM DetachedDiskIsUnmounted == Spec => []DetachedIsUnmounted
<1>1. NodeInv => DetachedIsUnmounted
      BY DEF NodeInv, DetachedInv, StagingInv, TargetInv, DetachedIsUnmounted
<1> QED
    BY <1>1, NodeInvariant, PTL

(* NodePublishVolume, which looks at nothing, mounts the disk and not the  *)
(* directory below it.                                                     *)
THEOREM PublishedPodHasTheDisk == Spec => []PublishedIsDisk
<1>1. NodeInv => PublishedIsDisk
      BY DEF NodeInv, TargetInv, Top, PublishedIsDisk
<1> QED
    BY <1>1, NodeInvariant, PTL

----------------------------------------------------------------------------
(* How many mounts lie on each other.                                      *)

(* A stage or publish call that was not disturbed mounts once, and what it *)
(* mounted is known to its caller until the call that undoes it.           *)
StagedOnce == pc \in {"resize", "staged", "unstage", "unmount"} \/ dev = "staged"

PublishedOnce(t) ==
    \/ pub[t] = "published"
    \/ pod = t /\ pc \in {"published", "unpublish"}

StackInv ==
    /\ staging <= IF StagedOnce THEN faults + 1 ELSE faults
    /\ \A t \in Pods : Len(target[t]) <= IF PublishedOnce(t) THEN faults + 1 ELSE faults

(* A mount makes a path's stack one higher, an unmount one lower.          *)
LEMMA StackHeights ==
    ASSUME NEW s \in Seq(Mounts)
    PROVE  /\ Len(s) \in Nat
           /\ \A e \in Mounts : Len(Append(s, e)) = Len(s) + 1
           /\ s # <<>> => Len(SubSeq(s, 1, Len(s) - 1)) = Len(s) - 1
           /\ Len(<<>>) = 0
<1>1. Len(s) \in Nat
      BY LenProperties
<1>2. \A e \in Mounts : Len(Append(s, e)) = Len(s) + 1
      BY AppendProperties
<1>3. s # <<>> => Len(SubSeq(s, 1, Len(s) - 1)) = Len(s) - 1
  <2> SUFFICES ASSUME s # <<>> PROVE Len(SubSeq(s, 1, Len(s) - 1)) = Len(s) - 1
      OBVIOUS
  <2>1. Len(s) \in Nat \ {0}
        BY EmptySeq
  <2>2. \A i \in 1..(Len(s) - 1) : s[i] \in Mounts
        BY <2>1, ElementOfSeq
  <2> DEFINE n == Len(s)
             below == Len(SubSeq(s, 1, n - 1))
  <2>3. below = IF 1 <= n - 1 THEN n - 1 - 1 + 1 ELSE 0
        BY <2>1, <2>2, SubSeqProperties
  <2>4. n \in Nat \ {0}
        BY <2>1
  <2>5. below = n - 1
    <3> HIDE DEF n, below
    <3> QED
        BY <2>3, <2>4
  <2> QED
      BY <2>5
<1>4. Len(<<>>) = 0
      BY EmptySeq
<1> QED
    BY <1>1, <1>2, <1>3, <1>4

LEMMA StackTypes ==
    ASSUME NodeInv
    PROVE  /\ staging \in Nat /\ faults \in Nat
           /\ \A t \in Pods : target[t] \in Seq(Mounts) /\ Len(target[t]) \in Nat
BY StackHeights, MaxFaultsAssumption DEF NodeInv, TypeOK, Mounts

(* The steps that mount nothing and take nothing off.                      *)
LEMMA StackFrame ==
    ASSUME NodeInv, StackInv, UNCHANGED mounts,
           \/ faults' = faults /\ (StagedOnce => StagedOnce')
                /\ \A t \in Pods : PublishedOnce(t) => PublishedOnce(t)'
           \/ faults' = faults + 1
    PROVE  StackInv'
BY StackTypes DEF StackInv, mounts

LEMMA StagingStack ==
    ASSUME NodeInv, StackInv,
           CallStage \/ CallUnstage \/ CheckStaged \/ FormatAndMount \/ MountRefused \/ Resize
             \/ Staged \/ CheckUnstage \/ Unmount \/ Unstaged \/ MountFails
    PROVE  StackInv'
<1> USE StackTypes DEF GoTo, Return, mounts, caller
<1>1. /\ UNCHANGED <<target, pub>>
      /\ \A t \in Pods : ~(pod = t /\ pc \in {"published", "unpublish"})
      BY DEF NodeInv, TypeOK, CallStage, CallUnstage, CheckStaged, FormatAndMount,
             MountRefused, Resize, Staged, CheckUnstage, Unmount, Unstaged, MountFails
<1>2. ASSUME NEW t \in Pods PROVE PublishedOnce(t) => PublishedOnce(t)'
      BY <1>1 DEF PublishedOnce
<1>3. CASE CallStage \/ CallUnstage \/ CheckStaged \/ Resize \/ Staged
  <2>1. StagedOnce => StagedOnce'
        BY <1>3 DEF StagedOnce, NodeInv, StagingInv, StageSteps, CallStage, CallUnstage,
                    CheckStaged, Resize, Staged
  <2>2. UNCHANGED <<mounts, faults>>
        BY <1>3 DEF CallStage, CallUnstage, CheckStaged, Resize, Staged
  <2> QED
      BY <1>2, <2>1, <2>2, StackFrame
<1>4. CASE MountRefused \/ MountFails
  <2>1. ~StagedOnce
        BY <1>4 DEF MountRefused, MountFails, StagedOnce, NodeInv, StagingInv, StageSteps
  <2>2. UNCHANGED mounts /\ (faults' = faults \/ faults' = faults + 1)
        BY <1>4 DEF MountRefused, MountFails
  <2> QED
      BY <1>2, <2>1, <2>2, StackFrame
<1>5. CASE FormatAndMount
  <2>1. ~StagedOnce /\ StagedOnce' /\ staging' = staging + 1 /\ faults' = faults
        BY <1>5 DEF FormatAndMount, StagedOnce, NodeInv, StagingInv, StageSteps
  <2> QED
      BY <1>1, <1>2, <2>1 DEF StackInv
<1>6. CASE CheckUnstage
  <2>1. faults' = faults /\ staging' = staging /\ (staging > 0 => StagedOnce')
        BY <1>6 DEF CheckUnstage, StagedOnce
  <2> QED
      BY <1>1, <1>2, <2>1 DEF StackInv
<1>7. CASE Unmount
  <2>1. faults' = faults /\ staging' = staging - 1 /\ StagedOnce
        BY <1>7 DEF Unmount, StagedOnce
  <2> QED
      BY <1>1, <1>2, <2>1 DEF StackInv
<1>8. CASE Unstaged
  <2>1. faults' = faults /\ staging' = staging /\ staging = 0
        BY <1>8 DEF Unstaged, NodeInv, StagingInv
  <2> QED
      BY <1>1, <1>2, <2>1 DEF StackInv
<1> QED
    BY <1>3, <1>4, <1>5, <1>6, <1>7, <1>8

LEMMA TargetStack ==
    ASSUME NodeInv, StackInv,
           (\E t \in Pods : CallPublish(t) \/ CallUnpublish(t))
             \/ BindMount \/ Published \/ UnmountTarget \/ Unpublished
    PROVE  StackInv'
<1> USE StackTypes DEF GoTo, Return, mounts, caller
<1>1. /\ UNCHANGED <<staging, dev, faults>> /\ (StagedOnce => StagedOnce')
      BY DEF StagedOnce, CallPublish, CallUnpublish, CallFor, BindMount, Published,
             UnmountTarget, Unpublished
<1>2. ASSUME NEW t \in Pods, CallPublish(t) \/ CallUnpublish(t) PROVE StackInv'
  <2>1. \A u \in Pods : PublishedOnce(u) => PublishedOnce(u)'
        BY <1>2 DEF CallPublish, CallUnpublish, CallFor, PublishedOnce, NodeInv, TypeOK
  <2>2. UNCHANGED mounts
        BY <1>2 DEF CallPublish, CallUnpublish, CallFor
  <2> QED
      BY <1>1, <2>1, <2>2, StackFrame
<1>3. CASE BindMount \/ UnmountTarget
  <2> DEFINE e == IF staging > 0 THEN "disk" ELSE "dir"
  <2>1. /\ pod \in Pods /\ pub[pod] = "uncertain" /\ UNCHANGED pub
        /\ target \in [Pods -> Seq(Mounts)]
        /\ pc \in {"publish", "unpublish"}
        BY <1>3 DEF BindMount, UnmountTarget, NodeInv, TypeOK, TargetInv, PodSteps,
                    PublishSteps, Mounts
  <2>2. \A t \in Pods \ {pod} : target'[t] = target[t]
        BY <1>3, <2>1 DEF BindMount, UnmountTarget
  <2>3. \A t \in Pods \ {pod} : PublishedOnce(t) => PublishedOnce(t)'
        BY <2>1 DEF PublishedOnce
  <2>4. ASSUME NEW t \in Pods, t = pod
        PROVE  Len(target'[t]) <= IF PublishedOnce(t)' THEN faults + 1 ELSE faults
    <3> USE <2>4
    <3>1. CASE BindMount
      <4>1. target'[t] = Append(target[t], e) /\ e \in Mounts
            BY <2>1, <3>1 DEF BindMount, Mounts
      <4>2. ~PublishedOnce(t) /\ PublishedOnce(t)'
            BY <2>1, <3>1 DEF BindMount, PublishedOnce
      <4>3. Len(target'[t]) = Len(target[t]) + 1
            BY <2>1, <4>1, StackHeights
      <4> QED
          BY <2>1, <4>2, <4>3 DEF StackInv
    <3>2. CASE UnmountTarget /\ target[t] = <<>>
      <4>1. target'[t] = <<>>
            BY <2>1, <3>2 DEF UnmountTarget
      <4> QED
          BY <2>1, <4>1, StackHeights
    <3>3. CASE UnmountTarget /\ target[t] # <<>>
      <4>1. target'[t] = SubSeq(target[t], 1, Len(target[t]) - 1)
            BY <2>1, <3>3 DEF UnmountTarget, Uncovered
      <4>2. Len(target'[t]) = Len(target[t]) - 1
            BY <2>1, <3>3, <4>1, StackHeights
      <4>3. Len(target[t]) <= faults + 1
            BY <2>1 DEF StackInv
      <4> QED
          BY <2>1, <4>2, <4>3
    <3> QED
        BY <1>3, <3>1, <3>2, <3>3
  <2>5. ASSUME NEW t \in Pods, t # pod
        PROVE  Len(target'[t]) <= IF PublishedOnce(t)' THEN faults + 1 ELSE faults
    <3>1. Len(target[t]) <= IF PublishedOnce(t) THEN faults + 1 ELSE faults
          BY DEF StackInv
    <3> QED
        BY <2>2, <2>3, <2>5, <3>1
  <2>6. staging <= IF StagedOnce THEN faults + 1 ELSE faults
        BY DEF StackInv
  <2> QED
      BY <1>1, <2>4, <2>5, <2>6 DEF StackInv
<1>4. CASE Published
  <2>1. \A t \in Pods : PublishedOnce(t) => PublishedOnce(t)'
        BY <1>4 DEF Published, PublishedOnce, NodeInv, TypeOK
  <2> QED
      BY <1>1, <1>4, <2>1, StackFrame DEF Published
<1>5. CASE Unpublished
  <2>1. /\ target[pod] = <<>> /\ pod \in Pods /\ UNCHANGED target
        /\ \A t \in Pods \ {pod} : pub'[t] = pub[t]
        BY <1>5 DEF Unpublished, NodeInv, TypeOK, TargetInv
  <2>2. \A t \in Pods \ {pod} : PublishedOnce(t) => PublishedOnce(t)'
        BY <2>1 DEF PublishedOnce
  <2>3. Len(target'[pod]) = 0
        BY <2>1, StackHeights
  <2> QED
      BY <1>1, <2>1, <2>2, <2>3 DEF StackInv
<1> QED
    BY <1>2, <1>3, <1>4, <1>5

LEMMA OtherStack ==
    ASSUME NodeInv, StackInv,
           (\E t \in Pods : PodComes(t) \/ PodGoes(t))
             \/ Attach \/ Detach \/ CallFails \/ Reboot \/ UNCHANGED vars
    PROVE  StackInv'
<1> USE DEF mounts, handler, caller
<1>1. CASE CallFails
      BY <1>1, StackFrame DEF CallFails
<1>2. CASE Reboot
  <2>1. staging' = 0 /\ faults' = faults + 1 /\ \A t \in Pods : target'[t] = <<>>
        BY <1>2 DEF Reboot
  <2> QED
      BY <2>1, StackTypes, StackHeights DEF StackInv
<1>3. CASE ~CallFails /\ ~Reboot
  <2>1. UNCHANGED <<mounts, handler, dev, pub, faults>>
        BY <1>3 DEF PodComes, PodGoes, Attach, Detach, vars
  <2>2. StagedOnce' = StagedOnce /\ \A t \in Pods : PublishedOnce(t)' = PublishedOnce(t)
        BY <2>1 DEF StagedOnce, PublishedOnce
  <2> QED
      BY <2>1, <2>2, StackFrame
<1> QED
    BY <1>1, <1>2, <1>3

(* Stacked mounts, which one unstage or unpublish call does not take off,  *)
(* come from calls that failed after they had mounted, never from pods     *)
(* that come and go.                                                       *)
THEOREM MountsNeedFaults == Spec => []MountsAreFaults
<1>1. Init => StackInv
      BY EmptySeq DEF Init, StackInv
<1>2. NodeInv /\ StackInv /\ [Next]_vars => StackInv'
      BY StagingStack, TargetStack, OtherStack DEF Next, HandlerStep, CallerStep
<1>3. NodeInv /\ StackInv => MountsAreFaults
      BY StackTypes DEF StackInv, MountsAreFaults
<1> QED
    BY <1>1, <1>2, <1>3, NodeInvariant, PTL DEF Spec

============================================================================
