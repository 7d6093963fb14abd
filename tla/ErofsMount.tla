----------------------------- MODULE ErofsMount -----------------------------
(***************************************************************************)
(* apko erofs mount and umount at one destination directory:               *)
(* mountImage, unmountImage (pkg/erofsmount/mount_linux.go), the state     *)
(* file (pkg/erofsmount/state.go) and the drivers                          *)
(* (pkg/erofsmount/driver_linux.go).                                       *)
(*                                                                         *)
(* Each command is a process of its own; they share the mount table, the   *)
(* state file and the upper directory.  Mountpoint 0 is <dest>/merged, n   *)
(* is <dest>/layers/(n-1).  Mounts are listed merged first, then the       *)
(* layers from the top, so a list is determined by its set.                *)
(***************************************************************************)
EXTENDS Naturals, Sequences, FiniteSets, FiniteSetsExt

CONSTANTS
  Mounters,     \* processes that run apko erofs mount
  Unmounters,   \* processes that run apko erofs umount
  Ls,           \* the numbers of layers considered
  MaxSessions,  \* bound: mount commands in one behaviour
  MountFails,   \* whether mounting or writing the record may fail
  Busy,         \* whether umount may fail on a mountpoint in use
  CleanupBusy,  \* the same for the umounts of a failing mount command
  RewriteFails, \* whether a umount's rewrite of the record may fail
  Kills         \* whether a command may be killed

ASSUME ErofsAssumption ==
  /\ Ls \subseteq Nat \ {0} /\ Ls # {} /\ IsFiniteSet(Ls)
  /\ MaxSessions \in Nat
  /\ Mounters \cap Unmounters = {}
  /\ {MountFails, Busy, CleanupBusy, RewriteFails, Kills} \subseteq BOOLEAN

Procs == Mounters \cup Unmounters
Points == 0..Max(Ls)
Sessions == 1..MaxSessions

VARIABLES
  layers,    \* the number of layers of the image
  mounted,   \* mountpoint -> how many mounts are stacked there
  file,      \* the state file: "absent", "empty" or "record", and its Mounts
  upper,     \* sessions whose writes are in the upper directory
  moved,     \* sessions whose writes the user has moved away
  wrote,     \* history: the sessions that wrote through their mount
  live,      \* the sessions mounted at merged, the topmost first; 0 is read-only
  sessions,  \* mount commands so far
  pc,        \* process -> where it is
  rw,        \* mounter -> whether it was asked for --rw
  sess,      \* mounter -> its session
  up,        \* process -> what its cleanups, or its copy of Mounts, hold
  cut        \* history: a command was killed, or could not write or unmount
             \* what it had to on its way out

vars == <<layers, mounted, file, upper, moved, wrote, live, sessions, pc, rw, sess,
          up, cut>>
dirs == <<upper, moved, wrote>>
own == <<layers, sessions, rw, sess, cut>>

PCs == {"idle", "claim", "upper", "layers", "overlay", "write", "cleanup",
        "load", "umount", "rewrite", "rmdirs", "rmstate"}

Absent == [st |-> "absent", mounts |-> {}]
Empty == [st |-> "empty", mounts |-> {}]
Record(S) == [st |-> "record", mounts |-> S]

\* Every value has its type; in particular a record lists at least one mount.
TypeOK ==
  /\ layers \in Ls
  /\ mounted \in [Points -> Nat]
  /\ file \in {Absent, Empty} \cup {Record(S) : S \in (SUBSET Points) \ {{}}}
  /\ upper \subseteq Sessions /\ moved \subseteq Sessions /\ wrote \subseteq Sessions
  /\ live \in Seq(0..MaxSessions) /\ Len(live) = mounted[0]
  /\ sessions \in 0..MaxSessions
  /\ pc \in [Procs -> PCs]
  /\ rw \in [Procs -> BOOLEAN]
  /\ sess \in [Procs -> 0..MaxSessions]
  /\ up \in [Procs -> SUBSET Points]
  /\ cut \in BOOLEAN

Init ==
  /\ layers \in Ls
  /\ mounted = [m \in Points |-> 0]
  /\ file = Absent
  /\ upper = {} /\ moved = {} /\ wrote = {}
  /\ live = <<>>
  /\ sessions = 0
  /\ pc = [p \in Procs |-> "idle"]
  /\ rw = [p \in Procs |-> FALSE]
  /\ sess = [p \in Procs |-> 0]
  /\ up = [p \in Procs |-> {}]
  /\ cut = FALSE

Goto(p, l) == pc' = [pc EXCEPT ![p] = l]

\* The first entry of a list of mounts: merged, or the topmost layer.
HeadOf(S) == IF 0 \in S THEN 0 ELSE Max(S)

\* One layer and read-only: the layer is mounted at merged, without an overlay.
Direct(p) == layers = 1 /\ ~rw[p]

-----------------------------------------------------------------------------
(***************************************************************************)
(* mountImage.                                                             *)
(***************************************************************************)
StartMount(p, w) ==
  /\ pc[p] = "idle" /\ p \in Mounters
  /\ sessions < MaxSessions
  /\ sessions' = sessions + 1
  /\ sess' = [sess EXCEPT ![p] = sessions + 1]
  /\ rw' = [rw EXCEPT ![p] = w]
  /\ up' = [up EXCEPT ![p] = {}]
  /\ Goto(p, "claim")
  /\ UNCHANGED <<mounted, file, dirs, live, layers, cut>>

\* Faulty variant of ClaimState: the file is looked at, then created.
BugClaimState(p) ==
  /\ pc[p] = "claim"
  /\ IF file.st # "record"
     THEN file' = Empty /\ Goto(p, IF Direct(p) THEN "overlay" ELSE "upper")
     ELSE Goto(p, "idle") /\ UNCHANGED file
  /\ UNCHANGED <<mounted, dirs, live, own, up>>

\* claimState: O_CREATE|O_EXCL, so an existing file of any kind refuses.
ClaimState(p) ==
  /\ pc[p] = "claim"
  /\ IF file = Absent
     THEN file' = Empty /\ Goto(p, IF Direct(p) THEN "overlay" ELSE "upper")
     ELSE Goto(p, "idle") /\ UNCHANGED file
  /\ UNCHANGED <<mounted, dirs, live, own, up>>

\* Faulty variant of CheckUpperUnused: the upper directory is not looked at.
BugCheckUpperUnused(p) ==
  /\ pc[p] = "upper"
  /\ Goto(p, "layers")
  /\ UNCHANGED <<mounted, file, dirs, live, own, up>>

CheckUpperUnused(p) ==
  /\ pc[p] = "upper"
  /\ Goto(p, IF rw[p] /\ upper # {} THEN "cleanup" ELSE "layers")
  /\ UNCHANGED <<mounted, file, dirs, live, own, up>>

MountAt(p, m) ==
  /\ mounted' = [mounted EXCEPT ![m] = @ + 1]
  /\ up' = [up EXCEPT ![p] = @ \cup {m}]

\* driver.MountLayer at layers/00, 01, ...
MountLayer(p) ==
  /\ pc[p] = "layers"
  /\ MountAt(p, Cardinality(up[p]) + 1)
  /\ Goto(p, IF Cardinality(up[p]) + 1 = layers THEN "overlay" ELSE "layers")
  /\ UNCHANGED <<file, dirs, live, own>>

\* driver.AssembleOverlay, or MountLayer when the only layer goes to merged.
AssembleOverlay(p) ==
  /\ pc[p] = "overlay"
  /\ MountAt(p, 0)
  /\ live' = <<IF rw[p] THEN sess[p] ELSE 0>> \o live
  /\ Goto(p, "write")
  /\ UNCHANGED <<file, dirs, own>>

\* writeState: a temporary file, synced and renamed over the claim.
WriteState(p) ==
  /\ pc[p] = "write"
  /\ file' = Record(up[p])
  /\ Goto(p, "idle")
  /\ UNCHANGED <<mounted, dirs, live, own, up>>

\* A mount or the record's write fails.
MountStepFails(p) ==
  /\ MountFails
  /\ pc[p] \in {"upper", "layers", "overlay", "write"}
  /\ Goto(p, "cleanup")
  /\ UNCHANGED <<mounted, file, dirs, live, own, up>>

\* umount(2): the mountpoint must be mounted, and a layer is in use as long as
\* an overlay is up ("would only return EBUSY noise", unmountImage).
CanUnmount(m) == mounted[m] > 0 /\ (m = 0 \/ mounted[0] = 0)

Unmounted(m) ==
  /\ mounted' = [mounted EXCEPT ![m] = @ - 1]
  /\ live' = IF m = 0 THEN Tail(live) ELSE live

\* The deferred cleanups, last first: one failing does not stop the others.
Cleanup(p, ok) ==
  /\ pc[p] = "cleanup"
  /\ up[p] # {}
  /\ ok => CanUnmount(HeadOf(up[p]))
  /\ ~ok => CleanupBusy \/ ~CanUnmount(HeadOf(up[p]))
  /\ IF ok THEN Unmounted(HeadOf(up[p])) ELSE UNCHANGED <<mounted, live>>
  /\ up' = [up EXCEPT ![p] = @ \ {HeadOf(up[p])}]
  /\ cut' = (cut \/ ~ok)
  /\ UNCHANGED <<file, dirs, layers, sessions, rw, sess, pc>>

\* The first cleanup registered, so the last to run: removeState.
CleanupDone(p) ==
  /\ pc[p] = "cleanup"
  /\ up[p] = {}
  /\ file' = Absent
  /\ Goto(p, "idle")
  /\ UNCHANGED <<mounted, dirs, live, own, up>>

-----------------------------------------------------------------------------
(***************************************************************************)
(* unmountImage.                                                           *)
(***************************************************************************)
StartUnmount(p) ==
  /\ pc[p] = "idle" /\ p \in Unmounters
  /\ Goto(p, "load")
  /\ UNCHANGED <<mounted, file, dirs, live, own, up>>

\* loadState: an empty file is a mount in progress, or one that was
\* interrupted; without a file dest is tried as a blob's mountpoint, which it
\* is not.
LoadState(p) ==
  /\ pc[p] = "load"
  /\ IF file.st = "record"
     THEN /\ up' = [up EXCEPT ![p] = file.mounts]
          /\ Goto(p, "umount")
     ELSE /\ Goto(p, "idle")
          /\ UNCHANGED up
  /\ UNCHANGED <<mounted, file, dirs, live, own>>

\* driver.Unmount of the first entry; it is dropped from this process's list.
Umount(p) ==
  /\ pc[p] = "umount"
  /\ up[p] # {}
  /\ CanUnmount(HeadOf(up[p]))
  /\ Unmounted(HeadOf(up[p]))
  /\ up' = [up EXCEPT ![p] = @ \ {HeadOf(up[p])}]
  /\ Goto(p, IF Cardinality(up[p]) = 1 THEN "rmdirs" ELSE "umount")
  /\ UNCHANGED <<file, dirs, own>>

\* The first entry does not come down: stopped.
UmountFails(p) ==
  /\ pc[p] = "umount"
  /\ up[p] # {}
  /\ Busy \/ ~CanUnmount(HeadOf(up[p]))
  /\ Goto(p, "rewrite")
  /\ UNCHANGED <<mounted, file, dirs, live, own, up>>

\* Faulty variant of Rewrite: the failure is returned, the record left alone.
BugRewrite(p, ok) ==
  /\ pc[p] = "rewrite"
  /\ Goto(p, "idle")
  /\ UNCHANGED <<mounted, file, dirs, live, own, up>>

\* stopped: what is left is written back before the error is returned; a
\* failure of that is only logged.
Rewrite(p, ok) ==
  /\ pc[p] = "rewrite"
  /\ ~ok => RewriteFails
  /\ file' = IF ok THEN Record(up[p]) ELSE file
  /\ cut' = (cut \/ ~ok)
  /\ Goto(p, "idle")
  /\ UNCHANGED <<mounted, dirs, live, layers, sessions, rw, sess, up>>

\* os.RemoveAll of merged, work and layers; should merged be mounted
\* read-write again by then, it goes through the mount and takes what was
\* written there.  os.Remove leaves an upper that has content.
RemoveDirs(p) ==
  /\ pc[p] = "rmdirs"
  /\ upper' = IF live # <<>> /\ Head(live) # 0 THEN upper \ {Head(live)} ELSE upper
  /\ Goto(p, "rmstate")
  /\ UNCHANGED <<mounted, file, moved, wrote, live, own, up>>

RemoveState(p) ==
  /\ pc[p] = "rmstate"
  /\ file' = Absent
  /\ Goto(p, "idle")
  /\ UNCHANGED <<mounted, dirs, live, own, up>>

-----------------------------------------------------------------------------
\* Environment: somebody writes through the merged view.
UserWrites ==
  /\ live # <<>> /\ Head(live) # 0
  /\ upper' = upper \cup {Head(live)}
  /\ wrote' = wrote \cup {Head(live)}
  /\ UNCHANGED <<mounted, file, moved, live, own, pc, up>>

\* Environment: the user moves a left-over upper directory away.
UserMovesUpper ==
  /\ upper # {} /\ live = <<>> /\ \A p \in Procs : pc[p] = "idle"
  /\ moved' = moved \cup upper
  /\ upper' = {}
  /\ UNCHANGED <<mounted, file, wrote, live, own, pc, up>>

\* The command is killed; what it mounted and wrote stays.
Kill(p) ==
  /\ Kills
  /\ pc[p] # "idle"
  /\ Goto(p, "idle")
  /\ cut' = TRUE
  /\ UNCHANGED <<mounted, file, dirs, live, layers, sessions, rw, sess, up>>

MountStep(p) ==
  ClaimState(p) \/ CheckUpperUnused(p) \/ MountLayer(p) \/ AssembleOverlay(p)
    \/ WriteState(p) \/ MountStepFails(p) \/ (\E ok \in BOOLEAN : Cleanup(p, ok))
    \/ CleanupDone(p)

UnmountStep(p) ==
  LoadState(p) \/ Umount(p) \/ UmountFails(p) \/ (\E ok \in BOOLEAN : Rewrite(p, ok))
    \/ RemoveDirs(p) \/ RemoveState(p)

Next ==
  \/ \E p \in Procs :
       (\E w \in BOOLEAN : StartMount(p, w)) \/ StartUnmount(p)
         \/ MountStep(p) \/ UnmountStep(p) \/ Kill(p)
  \/ UserWrites
  \/ UserMovesUpper

Spec == Init /\ [][Next]_vars

\* Commands run to their end, umount is run again and again, and a mountpoint
\* is not in use for ever.
FairSpec ==
  /\ Spec
  /\ \A p \in Mounters : WF_vars(MountStep(p))
  /\ \A p \in Unmounters :
       WF_vars(UnmountStep(p)) /\ WF_vars(StartUnmount(p)) /\ SF_vars(Umount(p))

-----------------------------------------------------------------------------
(***************************************************************************)
(* Properties                                                              *)
(***************************************************************************)
Quiet == \A p \in Procs : pc[p] = "idle"

\* "so the file always describes what is still mounted" (unmountImage), and
\* "all partially-completed mounts are torn down" (Mount): when no command is
\* running, the record lists what is mounted, and without one nothing is.
\* Neither is promised once a command was killed or could not finish.
FileDescribesMounts ==
  Quiet /\ ~cut => /\ file # Empty
           /\ \A m \in Points : mounted[m] > 0 <=> m \in file.mounts

\* "two mounts racing for the same dest cannot both decide it is free"
\* (claimState): no mountpoint is ever mounted over.
NeverStacked == \A m \in Points : mounted[m] <= 1

\* "writes made through the mount survive by construction" (unmountImage):
\* whatever was written is in the upper directory or where the user moved it.
WritesSurvive == wrote \subseteq upper \cup moved

\* checkUpperUnused: the writes of two sessions never end up in one upper
\* directory.
OneSessionPerUpper == Cardinality(upper) <= 1

\* The mount table and the state file are in order: nothing is mounted twice,
\* and the file says what is mounted (claimState, writeState).
MountsInOrder == TypeOK /\ NeverStacked /\ FileDescribesMounts

\* A session's writes stay, and stay its own (checkUpperUnused, unmountImage).
UpperKept == WritesSurvive /\ OneSessionPerUpper

\* "rerun once they are no longer busy" (unmountImage): a recorded mount comes
\* down completely when umount is run again and again, unless a command is cut
\* short on the way.
TornDownEventually == file.st = "record" ~> cut \/ \A m \in Points : mounted[m] = 0
=============================================================================
