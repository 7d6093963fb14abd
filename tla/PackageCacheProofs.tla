------------------------ MODULE PackageCacheProofs ------------------------
(***************************************************************************)
(* PackageCache for any number of processes, calls and retries: what is    *)
(* served was verified, a verified copy is never displaced by a bad one,   *)
(* and disposing of orphans never leaves an entry dangling.                *)
(***************************************************************************)
EXTENDS PackageCache, TLAPS

-----------------------------------------------------------------------------
\* Where a section comes in publishPackage's order.
Rank(s) == IF s = "ctl" THEN 0 ELSE IF s = "sig" THEN 1 ELSE 2

Unlinked == {"orphan", "rename", "clear", "rename2"}
HasOrphan == {"rename", "clear", "rename2", "recheck", "remove"}

\* Entries address files of their own section that were advertised.
LinksAdvertised ==
  \A s \in Sections : link[s] \in Files => link[s].sec = s /\ link[s] \in linked

\* A file is advertised at most once: a process that has not yet renamed a
\* section's link has not advertised that file before.
AdvertisedOnce ==
  \A f \in linked : f.by # Old =>
    /\ f.by \in Procs
    /\ f.n <= gets[f.by]
    /\ f.n = gets[f.by] =>
         /\ pc[f.by] \notin ReadPCs \cup FetchPCs
         /\ pc[f.by] \in Unlinked => Rank(f.sec) < Rank(sec[f.by])
         /\ pc[f.by] \in {"recheck", "remove"} => Rank(f.sec) <= Rank(sec[f.by])

\* An orphan is an advertised file of the section, and once the link has been
\* replaced the entry no longer addresses it.
OrphanStranded ==
  \A p \in Procs :
    /\ pc[p] \in HasOrphan /\ orphan[p] # Absent =>
         orphan[p] \in linked /\ orphan[p].sec = sec[p]
    /\ pc[p] \in {"recheck", "remove"} /\ orphan[p] # Absent =>
         orphan[p] # link[sec[p]]

\* The files still to be advertised are on disk.
SourcesExist ==
  \A p \in Procs, s \in Sections :
    \/ pc[p] \in Unlinked /\ Rank(sec[p]) <= Rank(s)
    \/ pc[p] \in {"recheck", "remove"} /\ Rank(sec[p]) < Rank(s)
    => File(p, gets[p], s) \in exists

\* What a process that publishes is expanding is on disk.
ExpandedExist ==
  \A p \in Procs, s \in Sections :
    pc[p] = "expand" /\ ~offline[p] => File(p, gets[p], s) \in exists

\* Only files that were there to begin with are bad.
OnlyOldBad == \A f \in bad : f.by = Old

\* Once the control section has been found good it stays good or goes away.
ControlStaysGood ==
  /\ \A p \in Procs : pc[p] = "control" => link["ctl"] \notin bad
  /\ \A p \in Procs : served[p] # "bad"

IInv ==
  /\ TypeOK
  /\ LinksAdvertised
  /\ AdvertisedOnce
  /\ OrphanStranded
  /\ SourcesExist
  /\ ExpandedExist
  /\ OnlyOldBad
  /\ ControlStaysGood
  /\ NeverDangles
  /\ VerifiedCopyWins

-----------------------------------------------------------------------------
\* The initial states satisfy the invariant, whatever is in the directory.
LEMMA InitEstablishes == Init => IInv
BY PackageCacheAssumption DEF Init, IInv, TypeOK, LinksAdvertised, AdvertisedOnce,
   OrphanStranded, SourcesExist, ExpandedExist, OnlyOldBad, ControlStaysGood, NeverDangles,
   VerifiedCopyWins, Sections, ReadPCs, FetchPCs, PublishPCs, Unlinked, HasOrphan,
   Rank, First, Files, File, Absent, Dir, Private

\* Reading the entry moves no link; what it serves was verified.
LEMMA ReadKeeps ==
  ASSUME IInv, NEW p \in Procs, Read(p)
  PROVE  IInv'
<1> USE DEF Goto, disk, call, ReadPCs, FetchPCs, PublishPCs
<1>0. TypeOK /\ ControlStaysGood
  BY DEF IInv
<1>1. /\ UNCHANGED <<link, exists, bad, linked, closed, killed, gets, offline, sec, attempt, orphan>>
      /\ pc[p] \in ReadPCs
      /\ pc' \in [Procs -> {"idle"} \cup ReadPCs \cup FetchPCs \cup PublishPCs]
      /\ pc'[p] \in ReadPCs \cup {"fetch", "idle"}
      /\ \A q \in Procs : q # p => pc'[q] = pc[q] /\ served'[q] = served[q]
  BY <1>0 DEF Read, ReadStep, StatControl, HashControl, ReadControl, StatSignature, Miss,
     ReadSignature, StatData, OpenData, UnnamedCopy, MakePrivate, RemovePrivate, CopyFails,
     InflateData, TypeOK
<1>2. TypeOK'
  <2>1. data' \in [Procs -> Files \cup {Absent}]
    BY <1>0 DEF Read, ReadStep, StatControl, HashControl, ReadControl, StatSignature, Miss,
       ReadSignature, StatData, OpenData, UnnamedCopy, MakePrivate, RemovePrivate, CopyFails,
       InflateData, TypeOK, Openable
  <2>2. private' \subseteq [by : Procs, n : Nat, sec : {"private"}]
    BY <1>0 DEF Read, ReadStep, StatControl, HashControl, ReadControl, StatSignature, Miss,
       ReadSignature, StatData, OpenData, UnnamedCopy, MakePrivate, RemovePrivate, CopyFails,
       InflateData, TypeOK, Private, File
  <2>3. served' \in [Procs -> {"nothing", "good", "bad"}]
    BY <1>0 DEF Read, ReadStep, StatControl, HashControl, ReadControl, StatSignature, Miss,
       ReadSignature, StatData, OpenData, UnnamedCopy, MakePrivate, RemovePrivate, CopyFails,
       InflateData, TypeOK
  <2> QED
    BY <1>0, <1>1, <2>1, <2>2, <2>3 DEF TypeOK
<1>3. ControlStaysGood'
  <2>1. pc'[p] = "control" => link["ctl"] \notin bad
    BY <1>0 DEF Read, ReadStep, StatControl, HashControl, ReadControl, StatSignature, Miss,
       ReadSignature, StatData, OpenData, UnnamedCopy, MakePrivate, RemovePrivate, CopyFails,
       InflateData, TypeOK, Good
  <2>2. served'[p] # "bad"
    BY <1>0 DEF Read, ReadStep, StatControl, HashControl, ReadControl, StatSignature, Miss,
       ReadSignature, StatData, OpenData, UnnamedCopy, MakePrivate, RemovePrivate, CopyFails,
       InflateData, TypeOK, Good, Openable, ControlStaysGood
  <2> QED
    BY <1>0, <1>1, <2>1, <2>2 DEF ControlStaysGood
<1>4. LinksAdvertised' /\ OnlyOldBad' /\ NeverDangles' /\ VerifiedCopyWins'
  BY <1>1 DEF IInv, LinksAdvertised, OnlyOldBad, NeverDangles, VerifiedCopyWins
<1>5. AdvertisedOnce' /\ OrphanStranded' /\ SourcesExist' /\ ExpandedExist'
  BY <1>1 DEF IInv, AdvertisedOnce, OrphanStranded, SourcesExist, ExpandedExist, Unlinked, HasOrphan
<1> QED
  BY <1>2, <1>3, <1>4, <1>5 DEF IInv

\* Fetching adds and discards files nobody has advertised.
LEMMA FetchKeeps ==
  ASSUME IInv, NEW p \in Procs, Fetch(p)
  PROVE  IInv'
<1> USE DEF Goto, disk, call, ReadPCs, FetchPCs, PublishPCs
<1>0. TypeOK /\ AdvertisedOnce /\ LinksAdvertised
  BY DEF IInv
<1>1. /\ UNCHANGED <<link, bad, private, linked, closed, killed, gets, offline, orphan, data>>
      /\ pc[p] \in FetchPCs
      /\ pc' \in [Procs -> {"idle"} \cup ReadPCs \cup FetchPCs \cup PublishPCs]
      /\ pc'[p] \in FetchPCs \cup {"idle", "orphan"}
      /\ \A q \in Procs : q # p => pc'[q] = pc[q] /\ served'[q] = served[q] /\ sec'[q] = sec[q]
  BY <1>0 DEF Fetch, FetchStep, Expand, FetchRejected, FetchTransient, FetchVerified, Backoff,
     TypeOK
<1>2. exists \ Expanded(p) \subseteq exists' /\ exists' \subseteq exists \cup Expanded(p)
  BY DEF Fetch, FetchStep, Expand, FetchRejected, FetchTransient, FetchVerified, Backoff
<1>3. Expanded(p) \subseteq Files /\ Expanded(p) \cap linked = {}
  BY <1>0, <1>1, PackageCacheAssumption DEF Expanded, File, Files, AdvertisedOnce, TypeOK
<1>4. TypeOK'
  <2>1. /\ attempt' \in [Procs -> 0..Retries]
        /\ served' \in [Procs -> {"nothing", "good", "bad"}]
        /\ sec' \in [Procs -> Sections]
    BY <1>0, PackageCacheAssumption DEF Fetch, FetchStep, Expand, FetchRejected, FetchTransient,
       FetchVerified, Backoff, TypeOK, Sections, First
  <2> QED
    BY <1>0, <1>1, <1>2, <1>3, <2>1 DEF TypeOK
<1>5. LinksAdvertised' /\ OnlyOldBad' /\ VerifiedCopyWins'
  BY <1>1 DEF IInv, LinksAdvertised, OnlyOldBad, VerifiedCopyWins
<1>6. NeverDangles'
  BY <1>0, <1>1, <1>2, <1>3 DEF IInv, NeverDangles
<1>7. ControlStaysGood'
  <2>1. served'[p] # "bad"
    BY <1>0 DEF Fetch, FetchStep, Expand, FetchRejected, FetchTransient, FetchVerified, Backoff,
       TypeOK, IInv, ControlStaysGood
  <2> QED
    BY <1>1, <2>1 DEF IInv, ControlStaysGood
<1>8. AdvertisedOnce'
  BY <1>0, <1>1 DEF AdvertisedOnce, Unlinked
<1>9. OrphanStranded'
  BY <1>1 DEF IInv, OrphanStranded, HasOrphan
<1>10. SourcesExist'
  <2> SUFFICES ASSUME NEW q \in Procs, NEW s \in Sections,
                      \/ pc'[q] \in Unlinked /\ Rank(sec'[q]) <= Rank(s)
                      \/ pc'[q] \in {"recheck", "remove"} /\ Rank(sec'[q]) < Rank(s)
               PROVE  File(q, gets[q], s) \in exists'
    BY <1>1 DEF SourcesExist
  <2>1. CASE q = p
    <3>1. pc'[p] = "orphan"
      BY <1>1, <2>1 DEF Unlinked
    <3>2. FetchVerified(p)
      BY <1>0, <3>1 DEF Fetch, FetchStep, Expand, FetchRejected, FetchTransient, Backoff, TypeOK
    <3> QED
      BY <1>0, <2>1, <3>1, <3>2 DEF FetchVerified, FetchStep, IInv, ExpandedExist, TypeOK
  <2>2. CASE q # p
    <3>1. File(q, gets[q], s) \in exists \ Expanded(p)
      BY <1>1, <2>2 DEF IInv, SourcesExist, Expanded, File
    <3> QED
      BY <1>2, <3>1
  <2> QED
    BY <2>1, <2>2
<1>11. ExpandedExist'
  <2> SUFFICES ASSUME NEW q \in Procs, NEW s \in Sections, pc'[q] = "expand", ~offline[q]
               PROVE  File(q, gets[q], s) \in exists'
    BY <1>1 DEF ExpandedExist
  <2>1. CASE q = p
    <3>1. Expand(p)
      BY <1>0, <2>1 DEF Fetch, FetchStep, Expand, FetchRejected, FetchTransient, FetchVerified, Backoff, TypeOK
    <3> QED
      BY <2>1, <3>1 DEF Expand, FetchStep, Expanded
  <2>2. CASE q # p
    <3>1. File(q, gets[q], s) \in exists \ Expanded(p)
      BY <1>1, <2>2 DEF IInv, ExpandedExist, Expanded, File
    <3> QED
      BY <1>2, <3>1
  <2> QED
    BY <2>1, <2>2
<1> QED
  BY <1>4, <1>5, <1>6, <1>7, <1>8, <1>9, <1>10, <1>11 DEF IInv

\* Publishing advertises each file once and removes only stranded ones.
LEMMA PublishKeeps ==
  ASSUME IInv, NEW p \in Procs, Publish(p)
  PROVE  IInv'
<1> USE PackageCacheAssumption DEF IInv, Goto, disk, call, Sections, ReadPCs, FetchPCs, PublishPCs,
        Unlinked, HasOrphan, Rank, Files, File, Absent, Dir, Private
<1>1. CASE ReadOrphan(p)
  <2> USE <1>1 DEF ReadOrphan, Src
  <2>1. TypeOK'
    BY DEF TypeOK
  <2>2. LinksAdvertised'
    BY DEF TypeOK, LinksAdvertised
  <2>3. AdvertisedOnce'
    BY DEF TypeOK, AdvertisedOnce
  <2>4. OrphanStranded'
    BY DEF TypeOK, OrphanStranded, LinksAdvertised, AdvertisedOnce
  <2>5. SourcesExist' /\ ExpandedExist'
    BY DEF TypeOK, SourcesExist, ExpandedExist, AdvertisedOnce, OrphanStranded
  <2>6. OnlyOldBad' /\ ControlStaysGood'
    BY DEF OnlyOldBad, TypeOK, ControlStaysGood
  <2>7. NeverDangles'
    BY DEF TypeOK, NeverDangles, SourcesExist, OrphanStranded, LinksAdvertised
  <2>8. VerifiedCopyWins'
    BY DEF TypeOK, VerifiedCopyWins, OnlyOldBad, LinksAdvertised, AdvertisedOnce
  <2> QED
    BY <2>1, <2>2, <2>3, <2>4, <2>5, <2>6, <2>7, <2>8
<1>2. CASE Rename(p)
  <2> USE <1>2 DEF Rename, Advertise, Src
  <2>1. TypeOK'
    BY DEF TypeOK
  <2>2. LinksAdvertised'
    BY DEF TypeOK, LinksAdvertised
  <2>3. AdvertisedOnce'
    BY DEF TypeOK, AdvertisedOnce
  <2>4. OrphanStranded'
    BY DEF TypeOK, OrphanStranded, LinksAdvertised, AdvertisedOnce
  <2>5. SourcesExist' /\ ExpandedExist'
    BY DEF TypeOK, SourcesExist, ExpandedExist, AdvertisedOnce, OrphanStranded
  <2>6. OnlyOldBad' /\ ControlStaysGood'
    BY DEF OnlyOldBad, TypeOK, ControlStaysGood
  <2>7. NeverDangles'
    BY DEF TypeOK, NeverDangles, SourcesExist, OrphanStranded, LinksAdvertised
  <2>8. VerifiedCopyWins'
    BY DEF TypeOK, VerifiedCopyWins, OnlyOldBad, LinksAdvertised, AdvertisedOnce
  <2> QED
    BY <2>1, <2>2, <2>3, <2>4, <2>5, <2>6, <2>7, <2>8
<1>3. CASE ClearDir(p)
  <2> USE <1>3 DEF ClearDir
  <2>1. TypeOK'
    BY DEF TypeOK
  <2>2. LinksAdvertised'
    BY DEF TypeOK, LinksAdvertised
  <2>3. AdvertisedOnce'
    BY DEF TypeOK, AdvertisedOnce
  <2>4. OrphanStranded'
    BY DEF TypeOK, OrphanStranded, LinksAdvertised, AdvertisedOnce
  <2>5. SourcesExist' /\ ExpandedExist'
    BY DEF TypeOK, SourcesExist, ExpandedExist, AdvertisedOnce, OrphanStranded
  <2>6. OnlyOldBad' /\ ControlStaysGood'
    BY DEF OnlyOldBad, TypeOK, ControlStaysGood
  <2>7. NeverDangles'
    BY DEF TypeOK, NeverDangles, SourcesExist, OrphanStranded, LinksAdvertised
  <2>8. VerifiedCopyWins'
    BY DEF TypeOK, VerifiedCopyWins, OnlyOldBad, LinksAdvertised, AdvertisedOnce
  <2> QED
    BY <2>1, <2>2, <2>3, <2>4, <2>5, <2>6, <2>7, <2>8
<1>4. CASE RenameAgain(p)
  <2> USE <1>4 DEF RenameAgain, Advertise, Src
  <2>1. TypeOK'
    BY DEF TypeOK
  <2>2. LinksAdvertised'
    BY DEF TypeOK, LinksAdvertised
  <2>3. AdvertisedOnce'
    BY DEF TypeOK, AdvertisedOnce
  <2>4. OrphanStranded'
    BY DEF TypeOK, OrphanStranded, LinksAdvertised, AdvertisedOnce
  <2>5. SourcesExist' /\ ExpandedExist'
    BY DEF TypeOK, SourcesExist, ExpandedExist, AdvertisedOnce, OrphanStranded
  <2>6. OnlyOldBad' /\ ControlStaysGood'
    BY DEF OnlyOldBad, TypeOK, ControlStaysGood
  <2>7. NeverDangles'
    BY DEF TypeOK, NeverDangles, SourcesExist, OrphanStranded, LinksAdvertised
  <2>8. VerifiedCopyWins'
    BY DEF TypeOK, VerifiedCopyWins, OnlyOldBad, LinksAdvertised, AdvertisedOnce
  <2> QED
    BY <2>1, <2>2, <2>3, <2>4, <2>5, <2>6, <2>7, <2>8
<1>5. CASE Recheck(p)
  <2> USE <1>5 DEF Recheck, SectionDone, NextSection, First, Last
  <2>1. TypeOK'
    BY DEF TypeOK
  <2>2. LinksAdvertised'
    BY DEF TypeOK, LinksAdvertised
  <2>3. AdvertisedOnce'
    BY DEF TypeOK, AdvertisedOnce
  <2>4. OrphanStranded'
    BY DEF TypeOK, OrphanStranded, LinksAdvertised, AdvertisedOnce
  <2>5. SourcesExist' /\ ExpandedExist'
    BY DEF TypeOK, SourcesExist, ExpandedExist, AdvertisedOnce, OrphanStranded
  <2>6. OnlyOldBad' /\ ControlStaysGood'
    BY DEF OnlyOldBad, TypeOK, ControlStaysGood
  <2>7. NeverDangles'
    BY DEF TypeOK, NeverDangles, SourcesExist, OrphanStranded, LinksAdvertised
  <2>8. VerifiedCopyWins'
    BY DEF TypeOK, VerifiedCopyWins, OnlyOldBad, LinksAdvertised, AdvertisedOnce
  <2> QED
    BY <2>1, <2>2, <2>3, <2>4, <2>5, <2>6, <2>7, <2>8
<1>6. CASE RemoveOrphan(p)
  <2> USE <1>6 DEF RemoveOrphan, SectionDone, NextSection, First, Last
  <2>1. TypeOK'
    BY DEF TypeOK
  <2>2. LinksAdvertised'
    BY DEF TypeOK, LinksAdvertised
  <2>3. AdvertisedOnce'
    BY DEF TypeOK, AdvertisedOnce
  <2>4. OrphanStranded'
    BY DEF TypeOK, OrphanStranded, LinksAdvertised, AdvertisedOnce
  <2>5. SourcesExist' /\ ExpandedExist'
    <3>1. SourcesExist'
      BY DEF TypeOK, SourcesExist, AdvertisedOnce, OrphanStranded
    <3>2. ExpandedExist'
      BY DEF TypeOK, ExpandedExist, AdvertisedOnce, OrphanStranded
    <3> QED
      BY <3>1, <3>2
  <2>6. OnlyOldBad' /\ ControlStaysGood'
    BY DEF OnlyOldBad, TypeOK, ControlStaysGood
  <2>7. NeverDangles'
    BY DEF TypeOK, NeverDangles, SourcesExist, OrphanStranded, LinksAdvertised
  <2>8. VerifiedCopyWins'
    BY DEF TypeOK, VerifiedCopyWins, OnlyOldBad, LinksAdvertised, AdvertisedOnce
  <2> QED
    BY <2>1, <2>2, <2>3, <2>4, <2>5, <2>6, <2>7, <2>8
<1>7. CASE PublishFails(p)
  BY <1>7 DEF PublishFails, TypeOK, LinksAdvertised, AdvertisedOnce, OrphanStranded, SourcesExist, ExpandedExist,
     OnlyOldBad, ControlStaysGood, NeverDangles, VerifiedCopyWins
<1>8. CASE CloseExpanded(p)
  <2> USE <1>8 DEF CloseExpanded, Expanded, First
  <2>1. TypeOK'
    BY DEF TypeOK
  <2>2. LinksAdvertised'
    BY DEF TypeOK, LinksAdvertised
  <2>3. AdvertisedOnce'
    BY DEF TypeOK, AdvertisedOnce
  <2>4. OrphanStranded'
    BY DEF TypeOK, OrphanStranded, LinksAdvertised, AdvertisedOnce
  <2>5. SourcesExist' /\ ExpandedExist'
    <3>1. SourcesExist'
      <4> SUFFICES ASSUME NEW q \in Procs, NEW s \in Sections,
                          \/ pc'[q] \in Unlinked /\ Rank(sec'[q]) <= Rank(s)
                          \/ pc'[q] \in {"recheck", "remove"} /\ Rank(sec'[q]) < Rank(s)
                   PROVE  File(q, gets'[q], s) \in exists'
        BY DEF SourcesExist
      <4>1. q # p
        BY DEF TypeOK
      <4>2. pc'[q] = pc[q] /\ sec'[q] = sec[q] /\ gets' = gets
        BY <4>1 DEF TypeOK
      <4>3. File(q, gets[q], s) \in exists
        BY <4>2 DEF SourcesExist
      <4> QED
        BY <4>1, <4>2, <4>3
    <3>2. ExpandedExist'
      <4> SUFFICES ASSUME NEW q \in Procs, NEW s \in Sections, pc'[q] = "expand", ~offline'[q]
                   PROVE  File(q, gets'[q], s) \in exists'
        BY DEF ExpandedExist
      <4>1. q # p /\ pc[q] = "expand" /\ ~offline[q] /\ gets' = gets
        BY DEF TypeOK
      <4>2. File(q, gets[q], s) \in exists
        BY <4>1 DEF ExpandedExist
      <4> QED
        BY <4>1, <4>2
    <3> QED
      BY <3>1, <3>2
  <2>6. OnlyOldBad' /\ ControlStaysGood'
    BY DEF OnlyOldBad, TypeOK, ControlStaysGood
  <2>7. NeverDangles'
    BY DEF TypeOK, NeverDangles, SourcesExist, OrphanStranded, LinksAdvertised
  <2>8. VerifiedCopyWins'
    BY DEF TypeOK, VerifiedCopyWins, OnlyOldBad, LinksAdvertised, AdvertisedOnce
  <2> QED
    BY <2>1, <2>2, <2>3, <2>4, <2>5, <2>6, <2>7, <2>8
<1> QED
  BY <1>1, <1>2, <1>3, <1>4, <1>5, <1>6, <1>7, <1>8 DEF Publish

\* Every step of every process keeps the invariant.
LEMMA StepKeeps == IInv /\ [Next]_vars => IInv'
<1> SUFFICES ASSUME IInv, [Next]_vars PROVE IInv'
  OBVIOUS
<1>1. CASE UNCHANGED vars
  BY <1>1 DEF vars, disk, call, IInv, TypeOK, LinksAdvertised, AdvertisedOnce, OrphanStranded, SourcesExist, ExpandedExist,
     OnlyOldBad, ControlStaysGood, NeverDangles, VerifiedCopyWins,
     Good
<1>2. ASSUME NEW p \in Procs, Get(p)
      PROVE  IInv'
  BY <1>2, PackageCacheAssumption
  DEF IInv, Goto, disk, call, Sections, ReadPCs, FetchPCs, PublishPCs,
        Unlinked, HasOrphan, Rank, Files, File, Absent, Dir, Private,
      Get, TypeOK, LinksAdvertised, AdvertisedOnce, OrphanStranded, SourcesExist, ExpandedExist,
     OnlyOldBad, ControlStaysGood, NeverDangles, VerifiedCopyWins
<1>3. ASSUME NEW p \in Procs, Crash(p)
      PROVE  IInv'
  BY <1>3, PackageCacheAssumption
  DEF IInv, Goto, disk, call, Sections, ReadPCs, FetchPCs, PublishPCs,
        Unlinked, HasOrphan, Rank, Files, File, Absent, Dir, Private,
      Crash, First, TypeOK, LinksAdvertised, AdvertisedOnce, OrphanStranded, SourcesExist, ExpandedExist,
     OnlyOldBad, ControlStaysGood, NeverDangles, VerifiedCopyWins
<1> QED
  BY <1>1, <1>2, <1>3, ReadKeeps, FetchKeeps, PublishKeeps DEF Next

\* The inductive invariant holds in every reachable state.
THEOREM Invariance == Spec => []IInv
<1> QED
  BY InitEstablishes, StepKeeps, PTL DEF Spec

-----------------------------------------------------------------------------
\* What was expanded into the directory is either advertised by then or still
\* in the hands of a call that has not given it up.
SectionsInOrder ==
  \A p \in Procs, s \in Sections :
    \/ pc[p] \in Unlinked /\ Rank(s) < Rank(sec[p])
    \/ pc[p] \in {"recheck", "remove"} /\ Rank(s) <= Rank(sec[p])
    => File(p, gets[p], s) \in linked

\* No file carries the name of a call that has not begun.
NoneFromTheFuture ==
  \A f \in exists \cup private : f.by # Old => f.by \in Procs /\ f.n <= gets[f.by]

\* A call that reads, that waits, or whose cache is offline has put no file of
\* the package into the directory.
Empty(p) == pc[p] \in ReadPCs \cup FetchPCs /\ (pc[p] = "expand" => offline[p])
NothingYet ==
  \A p \in Procs : Empty(p) => \A f \in exists : ~(f.by = p /\ f.n = gets[p])

Tidy == SectionsInOrder /\ NoneFromTheFuture /\ NothingYet /\ NothingAbandoned

\* At the start there are only the files of others.
LEMMA InitIsTidy == Init => Tidy
<1> SUFFICES ASSUME Init PROVE Tidy
  OBVIOUS
<1>1. \A f \in exists \cup private : f.by = Old
  BY DEF Init, File, Absent, Dir
<1>2. SectionsInOrder
  BY DEF Init, SectionsInOrder, Unlinked
<1>3. NothingYet
  BY DEF Init, NothingYet, Empty, ReadPCs, FetchPCs
<1> QED
  BY <1>1, <1>2, <1>3 DEF Tidy, NoneFromTheFuture, NothingAbandoned

\* The calls other than p's keep what they have; p must account for its own.
LEMMA OwnAccount ==
  ASSUME IInv, Tidy, NEW p \in Procs, Next,
         \A q \in Procs : q # p =>
           pc'[q] = pc[q] /\ sec'[q] = sec[q] /\ gets'[q] = gets[q] /\ offline'[q] = offline[q],
         gets'[p] >= gets[p], gets'[p] \in Nat,
         linked \subseteq linked', killed \subseteq killed',
         \A f \in (exists' \ exists) \cup (private' \ private) : f.by = p /\ f.n <= gets'[p],
         \A s \in Sections :
           \/ pc'[p] \in Unlinked /\ Rank(s) < Rank(sec'[p])
           \/ pc'[p] \in {"recheck", "remove"} /\ Rank(s) <= Rank(sec'[p])
           => File(p, gets'[p], s) \in linked',
         Empty(p)' => \A f \in exists' : ~(f.by = p /\ f.n = gets'[p]),
         \A f \in exists' \cup private' : f.by = p /\ f \notin linked' =>
           \/ /\ f.n = gets'[p]
              /\ pc'[p] \in IF f.sec = "private" THEN {"unlink"} ELSE {"expand"} \cup PublishPCs
           \/ <<f.by, f.n>> \in killed'
  PROVE  Tidy'
<1>0. p # Old
  BY PackageCacheAssumption
<1>1. SectionsInOrder'
  BY DEF Tidy, SectionsInOrder
<1>2. NoneFromTheFuture'
  <2> SUFFICES ASSUME NEW f \in exists' \cup private', f.by # Old
               PROVE  f.by \in Procs /\ f.n <= gets'[f.by]
    BY DEF NoneFromTheFuture
  <2>1. CASE f \in exists \cup private
    <3>1. f.by \in Procs /\ f.n <= gets[f.by] /\ f.n \in Nat
      BY <2>1 DEF Tidy, NoneFromTheFuture, IInv, TypeOK, Files
    <3>2. gets[f.by] \in Nat /\ gets'[f.by] \in Nat /\ gets[f.by] <= gets'[f.by]
      BY <3>1 DEF IInv, TypeOK
    <3> QED
      BY <3>1, <3>2
  <2>2. CASE f \notin exists \cup private
    BY <2>2
  <2> QED
    BY <2>1, <2>2
<1>3. NothingAbandoned'
  <2> SUFFICES ASSUME NEW f \in exists' \cup private', f.by # Old, f \notin linked', f.by # p
               PROVE  \/ /\ f.n = gets'[f.by]
                         /\ pc'[f.by] \in IF f.sec = "private" THEN {"unlink"}
                                          ELSE {"expand"} \cup PublishPCs
                      \/ <<f.by, f.n>> \in killed'
    BY DEF NothingAbandoned
  <2>1. f \in exists \cup private /\ f \notin linked
    OBVIOUS
  <2>2. f.by \in Procs
    BY <2>1 DEF Tidy, NoneFromTheFuture
  <2> QED
    BY <2>1, <2>2 DEF Tidy, NothingAbandoned
<1>4. NothingYet'
  <2> SUFFICES ASSUME NEW q \in Procs, Empty(q)', NEW f \in exists', f.by = q, f.n = gets'[q]
               PROVE  FALSE
    BY DEF NothingYet
  <2>1. q # p
    OBVIOUS
  <2>2. f \in exists /\ Empty(q) /\ f.n = gets[q]
    BY <2>1 DEF Empty
  <2> QED
    BY <2>2 DEF Tidy, NothingYet
<1> QED
  BY <1>1, <1>2, <1>3, <1>4 DEF Tidy

\* Every step accounts for what it leaves in the directory.
LEMMA StepStaysTidy == IInv /\ Tidy /\ [Next]_vars => Tidy'
<1> SUFFICES ASSUME IInv, Tidy, [Next]_vars PROVE Tidy'
  OBVIOUS
<1> USE DEF Goto, disk, call
<1>0. TypeOK /\ AdvertisedOnce
  BY DEF IInv
<1>1. CASE UNCHANGED vars
  BY <1>1 DEF vars, Tidy, SectionsInOrder, NoneFromTheFuture, NothingYet, Empty,
     NothingAbandoned
<1>2. ASSUME NEW p \in Procs, Get(p) PROVE Tidy'
  <2>1. /\ UNCHANGED <<exists, private, linked, killed, sec>>
        /\ gets'[p] = gets[p] + 1 /\ gets[p] \in Nat
        /\ pc[p] = "idle" /\ pc'[p] = "stat"
        /\ \A q \in Procs : q # p => pc'[q] = pc[q] /\ gets'[q] = gets[q] /\ offline'[q] = offline[q]
    BY <1>0, <1>2 DEF Get, TypeOK
  <2>2. \A f \in exists \cup private : f.by = p /\ f \notin linked => <<f.by, f.n>> \in killed
    BY <2>1, PackageCacheAssumption DEF Tidy, NothingAbandoned, PublishPCs
  <2>3. \A f \in exists : f.by = p => f.n <= gets[p] /\ f.n \in Nat
    BY <1>0, PackageCacheAssumption DEF Tidy, NoneFromTheFuture, TypeOK, Files
  <2> QED
    BY <1>2, <2>1, <2>2, <2>3, OwnAccount DEF Next, Unlinked
<1>3. ASSUME NEW p \in Procs, Read(p) PROVE Tidy'
  <2>1. /\ UNCHANGED <<exists, linked, killed, sec, gets, offline>>
        /\ pc[p] \in ReadPCs /\ pc'[p] \in ReadPCs \cup {"fetch", "idle"}
        /\ \A q \in Procs : q # p => pc'[q] = pc[q]
        /\ gets[p] \in Nat
    BY <1>0, <1>3 DEF Read, ReadStep, StatControl, HashControl, ReadControl, StatSignature, Miss,
       ReadSignature, StatData, OpenData, UnnamedCopy, MakePrivate, RemovePrivate, CopyFails,
       InflateData, TypeOK, ReadPCs
  <2>2. \/ MakePrivate(p)
        \/ private' = private /\ pc[p] # "unlink" /\ pc'[p] # "unlink"
        \/ private' = private \ {Private(p, gets[p])} /\ pc'[p] # "unlink"
    BY <1>0, <1>3 DEF Read, ReadStep, StatControl, HashControl, ReadControl, StatSignature, Miss,
       ReadSignature, StatData, OpenData, UnnamedCopy, MakePrivate, RemovePrivate, CopyFails,
       InflateData, TypeOK
  <2>3. \A f \in private : f.by = p /\ f.n = gets[p] => f = Private(p, gets[p]) /\ f.sec = "private"
    BY <1>0 DEF TypeOK, Private, File
  <2>4. \A f \in exists : f.sec # "private"
    BY <1>0 DEF TypeOK, Files, Sections
  <2>5. \A f \in exists : f.by = p /\ f \notin linked => <<f.by, f.n>> \in killed
    BY <2>1, <2>4, PackageCacheAssumption DEF Tidy, NothingAbandoned, PublishPCs, ReadPCs
  <2>6. \A f \in private : f.by = p /\ f \notin linked =>
          <<f.by, f.n>> \in killed \/ (f = Private(p, gets[p]) /\ pc[p] = "unlink")
    BY <2>1, <2>3, PackageCacheAssumption DEF Tidy, NothingAbandoned, PublishPCs, ReadPCs
  <2>0. \A f \in exists : ~(f.by = p /\ f.n = gets[p])
    BY <2>1 DEF Tidy, NothingYet, Empty, ReadPCs, FetchPCs
  <2>7. CASE MakePrivate(p)
    <3>1. pc'[p] = "unlink" /\ private' = private \cup {Private(p, gets[p])}
      BY <1>0, <2>7 DEF MakePrivate, TypeOK
    <3>2. Private(p, gets[p]).by = p /\ Private(p, gets[p]).n = gets[p]
          /\ Private(p, gets[p]).sec = "private"
      BY DEF Private, File
    <3>3. \A f \in exists' \cup private' : f.by = p /\ f \notin linked' =>
            \/ f.n = gets'[p] /\ pc'[p] \in IF f.sec = "private" THEN {"unlink"}
                                            ELSE {"expand"} \cup PublishPCs
            \/ <<f.by, f.n>> \in killed'
      BY <2>1, <2>5, <2>6, <3>1, <3>2
    <3> QED
      BY <1>3, <2>0, <2>1, <3>1, <3>2, <3>3, OwnAccount DEF Next, Unlinked
  <2>8. CASE ~MakePrivate(p)
    <3>1. \A f \in exists' \cup private' : f.by = p /\ f \notin linked' => <<f.by, f.n>> \in killed'
      BY <2>1, <2>2, <2>5, <2>6, <2>8
    <3>2. private' \subseteq private
      BY <2>2, <2>8
    <3> QED
      BY <1>3, <2>0, <2>1, <3>1, <3>2, OwnAccount DEF Next, Unlinked, ReadPCs
  <2> QED
    BY <2>7, <2>8
<1>4. ASSUME NEW p \in Procs, Fetch(p) PROVE Tidy'
  <2>1. /\ UNCHANGED <<private, linked, killed, gets, offline>>
        /\ pc[p] \in FetchPCs /\ pc'[p] \in FetchPCs \cup {"idle", "orphan"}
        /\ \A q \in Procs : q # p => pc'[q] = pc[q] /\ sec'[q] = sec[q]
        /\ gets[p] \in Nat /\ sec'[p] \in Sections
        /\ pc'[p] = "orphan" => sec'[p] = First
    BY <1>0, <1>4 DEF Fetch, FetchStep, Expand, FetchRejected, FetchTransient, FetchVerified,
       Backoff, TypeOK, FetchPCs, First, Sections
  <2>2. \/ pc'[p] = "expand" /\ exists' \subseteq exists \cup Expanded(p)
        \/ pc'[p] \in PublishPCs /\ exists' = exists
        \/ exists' = exists \ Expanded(p)
        \/ exists' = exists /\ pc[p] # "expand"
        \/ exists' = exists /\ offline[p]
    BY <1>0, <1>4 DEF Fetch, FetchStep, Expand, FetchRejected, FetchTransient, FetchVerified,
       Backoff, TypeOK, PublishPCs
  <2>3. \A f \in Expanded(p) : f.by = p /\ f.n = gets[p] /\ f.sec # "private"
    BY DEF Expanded, File, Sections
  <2>4. \A f \in exists : f.by = p /\ f.n = gets[p] => f \in Expanded(p)
    BY <1>0 DEF TypeOK, Files, Expanded, File
  <2>5. \A f \in private : f.by = p /\ f \notin linked => <<f.by, f.n>> \in killed
    <3>1. \A f \in private : f.sec = "private"
      BY <1>0 DEF TypeOK
    <3> QED
      BY <2>1, <3>1, PackageCacheAssumption DEF Tidy, NothingAbandoned, FetchPCs
  <2>6. \A f \in exists : f.by = p /\ f \notin linked =>
          <<f.by, f.n>> \in killed \/ (f \in Expanded(p) /\ pc[p] = "expand" /\ ~offline[p])
    <3>1. \A f \in exists : f.sec # "private"
      BY <1>0 DEF TypeOK, Files, Sections
    <3> QED
      BY <2>1, <2>4, <3>1, PackageCacheAssumption
      DEF Tidy, NothingAbandoned, NothingYet, Empty, FetchPCs, PublishPCs
  <2>7. \A f \in exists' \cup private' : f.by = p /\ f \notin linked' =>
          \/ f.n = gets'[p] /\ pc'[p] \in IF f.sec = "private" THEN {"unlink"}
                                          ELSE {"expand"} \cup PublishPCs
          \/ <<f.by, f.n>> \in killed'
    BY <2>1, <2>2, <2>3, <2>5, <2>6
  <2>8. \A s \in Sections : ~(Rank(s) < Rank(First))
    BY DEF Rank, Sections, First
  <2>9. Empty(p)' => \A f \in exists' : ~(f.by = p /\ f.n = gets'[p])
    <3>1. Empty(p) => \A f \in exists : ~(f.by = p /\ f.n = gets[p])
      BY DEF Tidy, NothingYet
    <3>2. Empty(p)' => (Empty(p) /\ exists' = exists) \/ exists' = exists \ Expanded(p)
      BY <1>0, <1>4 DEF Fetch, FetchStep, Expand, FetchRejected, FetchTransient, FetchVerified,
         Backoff, Empty, TypeOK, FetchPCs, ReadPCs
    <3> QED
      BY <2>1, <2>4, <3>1, <3>2
  <2> QED
    BY <1>4, <2>1, <2>2, <2>3, <2>7, <2>8, <2>9, OwnAccount DEF Next, Unlinked, FetchPCs
<1>5. ASSUME NEW p \in Procs, Publish(p) PROVE Tidy'
  <2>1. /\ UNCHANGED <<private, killed, gets, offline>>
        /\ pc[p] \in PublishPCs /\ pc'[p] \in PublishPCs \cup {"idle"}
        /\ \A q \in Procs : q # p => pc'[q] = pc[q] /\ sec'[q] = sec[q]
        /\ gets[p] \in Nat /\ linked \subseteq linked' /\ exists' \subseteq exists
    BY <1>0, <1>5 DEF Publish, ReadOrphan, Rename, Advertise, ClearDir, RenameAgain, Recheck,
       SectionDone, RemoveOrphan, PublishFails, CloseExpanded, TypeOK, PublishPCs
  <2>2. \A f \in exists : f.by = p /\ f.n = gets[p] => f \in Expanded(p)
    BY <1>0 DEF TypeOK, Files, Expanded, File
  <2>3. \A f \in private : f.by = p /\ f \notin linked => <<f.by, f.n>> \in killed
    <3>1. \A f \in private : f.sec = "private"
      BY <1>0 DEF TypeOK
    <3> QED
      BY <2>1, <3>1, PackageCacheAssumption DEF Tidy, NothingAbandoned, PublishPCs
  <2>4. \A s \in Sections :
          \/ pc'[p] \in Unlinked /\ Rank(s) < Rank(sec'[p])
          \/ pc'[p] \in {"recheck", "remove"} /\ Rank(s) <= Rank(sec'[p])
          => File(p, gets[p], s) \in linked'
    <3> SUFFICES ASSUME NEW s \in Sections,
                        \/ pc'[p] \in Unlinked /\ Rank(s) < Rank(sec'[p])
                        \/ pc'[p] \in {"recheck", "remove"} /\ Rank(s) <= Rank(sec'[p])
                 PROVE  File(p, gets[p], s) \in linked'
      OBVIOUS
    <3>1. CASE ReadOrphan(p) \/ PublishFails(p) \/ ClearDir(p) \/ (Rename(p) /\ link[sec[p]] = Dir)
      <4>1. pc[p] \in Unlinked /\ pc'[p] \in Unlinked \cup {"close"} /\ sec' = sec
        BY <1>0, <3>1 DEF ReadOrphan, PublishFails, ClearDir, Rename, TypeOK, Unlinked
      <4> QED
        BY <2>1, <4>1 DEF Tidy, SectionsInOrder, Unlinked
    <3>2. CASE RenameAgain(p) \/ (Rename(p) /\ link[sec[p]] # Dir)
      <4>1. pc[p] \in Unlinked /\ pc'[p] = "recheck" /\ sec' = sec /\ linked' = linked \cup {Src(p)}
        BY <1>0, <3>2 DEF RenameAgain, Rename, Advertise, TypeOK, Unlinked
      <4>2. s = sec[p] \/ Rank(s) < Rank(sec[p])
        BY <1>0, <4>1 DEF Rank, Sections, TypeOK, Unlinked
      <4> QED
        BY <4>1, <4>2 DEF Tidy, SectionsInOrder, Src
    <3>3. CASE Recheck(p) \/ RemoveOrphan(p)
      <4>1. /\ linked' = linked /\ pc[p] \in {"recheck", "remove"}
            /\ \/ pc'[p] = "remove" /\ sec'[p] = sec[p]
               \/ pc'[p] = "orphan" /\ sec'[p] = NextSection(sec[p]) /\ sec[p] # Last
               \/ pc'[p] = "idle"
        BY <1>0, <3>3 DEF Recheck, RemoveOrphan, SectionDone, TypeOK
      <4>2. Rank(s) <= Rank(sec[p])
        BY <1>0, <4>1 DEF Rank, Sections, TypeOK, Unlinked, NextSection, Last
      <4> QED
        BY <4>1, <4>2 DEF Tidy, SectionsInOrder
    <3>4. CASE CloseExpanded(p)
      BY <1>0, <3>4 DEF CloseExpanded, TypeOK, Unlinked
    <3> QED
      BY <1>5, <3>1, <3>2, <3>3, <3>4 DEF Publish
  <2>5. pc'[p] = "idle" => Expanded(p) \cap exists' \subseteq linked'
    <3>1. CASE CloseExpanded(p)
      BY <3>1 DEF CloseExpanded
    <3>2. CASE ~CloseExpanded(p) /\ pc'[p] = "idle"
      <4>1. (Recheck(p) \/ RemoveOrphan(p)) /\ sec[p] = Last /\ pc[p] \in {"recheck", "remove"}
        BY <1>0, <1>5, <3>2 DEF Publish, ReadOrphan, Rename, Advertise, ClearDir, RenameAgain,
           Recheck, SectionDone, RemoveOrphan, PublishFails, TypeOK
      <4>2. \A s \in Sections : Rank(s) <= Rank(sec[p])
        BY <4>1 DEF Rank, Sections, Last
      <4>3. \A s \in Sections : File(p, gets[p], s) \in linked
        BY <4>1, <4>2 DEF Tidy, SectionsInOrder
      <4> QED
        BY <2>1, <4>3 DEF Expanded
    <3> QED
      BY <3>1, <3>2
  <2>6. \A f \in exists : f.sec # "private"
    BY <1>0 DEF TypeOK, Files, Sections
  <2>7. \A f \in exists : f.by = p /\ f \notin linked => <<f.by, f.n>> \in killed \/ f.n = gets[p]
    BY <2>1, <2>6, PackageCacheAssumption DEF Tidy, NothingAbandoned
  <2>8. \A f \in exists' \cup private' : f.by = p /\ f \notin linked' =>
          \/ f.n = gets'[p] /\ pc'[p] \in IF f.sec = "private" THEN {"unlink"}
                                          ELSE {"expand"} \cup PublishPCs
          \/ <<f.by, f.n>> \in killed'
    BY <2>1, <2>2, <2>3, <2>5, <2>6, <2>7
  <2>9. ~Empty(p)'
    BY <2>1 DEF Empty, PublishPCs, ReadPCs, FetchPCs
  <2> QED
    BY <1>5, <2>1, <2>4, <2>8, <2>9, OwnAccount DEF Next
<1>6. ASSUME NEW p \in Procs, Crash(p) PROVE Tidy'
  <2>1. /\ UNCHANGED <<exists, private, linked, gets, offline>>
        /\ pc'[p] = "idle" /\ killed' = killed \cup {<<p, gets[p]>>}
        /\ \A q \in Procs : q # p => pc'[q] = pc[q] /\ sec'[q] = sec[q]
        /\ gets[p] \in Nat
    BY <1>0, <1>6 DEF Crash, TypeOK
  <2>2. \A f \in exists \cup private : f.by = p /\ f \notin linked => <<f.by, f.n>> \in killed'
    BY <2>1, PackageCacheAssumption DEF Tidy, NothingAbandoned
  <2>3. ~Empty(p)'
    BY <2>1 DEF Empty, ReadPCs, FetchPCs
  <2> QED
    BY <1>6, <2>1, <2>2, <2>3, OwnAccount DEF Next, Unlinked
<1> QED
  BY <1>1, <1>2, <1>3, <1>4, <1>5, <1>6 DEF Next

\* The directory is tidy in every reachable state.
THEOREM TidyIsKept == Spec => []Tidy
  BY InitIsTidy, StepStaysTidy, Invariance, PTL DEF Spec

-----------------------------------------------------------------------------
\* While nobody fails and nobody is killed, a publication is never left half
\* done: a file is alone only as long as its own process is still publishing
\* the others.
Unbroken == killed = {} /\ closed = {}

WholeOrUnderWay ==
  Unbroken =>
    \A f \in linked, s \in Sections : f.by # Old =>
      \/ File(f.by, f.n, s) \in linked
      \/ f.n = gets[f.by] /\ pc[f.by] \in PublishPCs

\* An entry that was advertised is missing only between the two steps of the
\* process that cleared a directory out of its way.
MissingIsOwed ==
  Unbroken =>
    \A s \in Sections :
      link[s] = Absent /\ (\E f \in linked : f.sec = s /\ f.by # Old)
        => \E p \in Procs : pc[p] \in {"rename2", "close"} /\ sec[p] = s

Progress == WholeOrUnderWay /\ MissingIsOwed

\* At the start nothing has been published and nobody publishes.
LEMMA InitMakesProgress == Init => Progress
<1> SUFFICES ASSUME Init PROVE Progress
  OBVIOUS
<1>1. \A f \in linked : f.by = Old
  BY DEF Init, File
<1> QED
  BY <1>1 DEF Progress, WholeOrUnderWay, MissingIsOwed

\* A step before publishing, or one that never gets there, touches no link.
LEMMA QuietProgress ==
  ASSUME IInv, Progress, NEW p \in Procs,
         Get(p) \/ Read(p) \/ Fetch(p)
  PROVE  Progress'
<1> USE DEF Goto, disk, call
<1>1. /\ UNCHANGED <<link, linked, closed, killed>>
      /\ pc[p] \notin PublishPCs
      /\ \A q \in Procs : q # p => pc'[q] = pc[q] /\ sec'[q] = sec[q] /\ gets'[q] = gets[q]
      /\ gets'[p] = gets[p] \/ (gets'[p] = gets[p] + 1)
  <2>1. CASE Get(p)
    BY <2>1 DEF Get, IInv, TypeOK, PublishPCs
  <2>2. CASE Read(p)
    BY <2>2 DEF Read, ReadStep, StatControl, HashControl, ReadControl, StatSignature, Miss,
       ReadSignature, StatData, OpenData, UnnamedCopy, MakePrivate, RemovePrivate, CopyFails,
       InflateData, IInv, TypeOK, PublishPCs
  <2>3. CASE Fetch(p)
    BY <2>3 DEF Fetch, FetchStep, Expand, FetchRejected, FetchTransient, Backoff, FetchVerified,
       IInv, TypeOK, PublishPCs
  <2> QED
    BY <2>1, <2>2, <2>3
<1>3. WholeOrUnderWay'
  <2> SUFFICES ASSUME Unbroken, NEW f \in linked, NEW s \in Sections, f.by # Old
               PROVE  \/ File(f.by, f.n, s) \in linked
                      \/ f.n = gets'[f.by] /\ pc'[f.by] \in PublishPCs
    BY <1>1 DEF WholeOrUnderWay, Unbroken
  <2>1. f.by \in Procs
    BY DEF IInv, AdvertisedOnce
  <2> QED
    BY <1>1, <2>1 DEF Progress, WholeOrUnderWay
<1>4. MissingIsOwed'
  <2> SUFFICES ASSUME Unbroken, NEW s \in Sections, link[s] = Absent,
                      \E f \in linked : f.sec = s /\ f.by # Old
               PROVE  \E q \in Procs : pc'[q] \in {"rename2", "close"} /\ sec'[q] = s
    BY <1>1 DEF MissingIsOwed, Unbroken
  <2>1. PICK q \in Procs : pc[q] \in {"rename2", "close"} /\ sec[q] = s
    BY DEF Progress, MissingIsOwed
  <2>2. q # p
    BY <1>1, <2>1 DEF PublishPCs
  <2> QED
    BY <1>1, <2>1, <2>2
<1> QED
  BY <1>3, <1>4 DEF Progress

\* Publishing advertises the sections one by one; whoever takes an entry away
\* puts its own in the place, or fails and says so.
LEMMA PublishProgress ==
  ASSUME IInv, Tidy, Progress, NEW p \in Procs, Publish(p)
  PROVE  Progress'
<1> USE DEF Goto, disk, call
<1>0. TypeOK /\ AdvertisedOnce /\ LinksAdvertised
  BY DEF IInv
<1>1. /\ pc[p] \in PublishPCs /\ gets' = gets
      /\ \A q \in Procs : q # p => pc'[q] = pc[q] /\ sec'[q] = sec[q]
  BY DEF Publish, ReadOrphan, Rename, Advertise, ClearDir, RenameAgain, Recheck, SectionDone,
     RemoveOrphan, PublishFails, CloseExpanded, IInv, TypeOK, PublishPCs
<1>3. CASE CloseExpanded(p)
  <2>1. closed' # {}
    BY <1>3 DEF CloseExpanded, Expanded, Sections
  <2> QED
    BY <2>1 DEF Progress, WholeOrUnderWay, MissingIsOwed, Unbroken
<1>5. CASE ~Unbroken /\ ~CloseExpanded(p)
  <2>1. closed' = closed /\ killed' = killed
    BY <1>5 DEF Publish, ReadOrphan, Rename, Advertise, ClearDir, RenameAgain, Recheck,
       SectionDone, RemoveOrphan, PublishFails
  <2> QED
    BY <1>5, <2>1 DEF Progress, WholeOrUnderWay, MissingIsOwed, Unbroken
<1>6. CASE Unbroken /\ ~CloseExpanded(p)
  <2>0. /\ \A q \in Procs, s \in Sections :
             \/ pc[q] \in Unlinked /\ Rank(s) < Rank(sec[q])
             \/ pc[q] \in {"recheck", "remove"} /\ Rank(s) <= Rank(sec[q])
             => File(q, gets[q], s) \in linked
        /\ \A f \in linked, s \in Sections : f.by # Old =>
             \/ File(f.by, f.n, s) \in linked
             \/ f.n = gets[f.by] /\ pc[f.by] \in PublishPCs
        /\ \A s \in Sections :
             link[s] = Absent /\ (\E f \in linked : f.sec = s /\ f.by # Old)
               => \E q \in Procs : pc[q] \in {"rename2", "close"} /\ sec[q] = s
    BY <1>6 DEF Tidy, SectionsInOrder, Progress, WholeOrUnderWay, MissingIsOwed
  <2>1. CASE ReadOrphan(p) \/ PublishFails(p)
    <3>1. /\ UNCHANGED <<link, linked, closed, sec>>
          /\ pc'[p] \in PublishPCs
          /\ pc[p] \in Unlinked
          /\ pc'[p] \in Unlinked \cup {"close"}
          /\ pc[p] = "rename2" => pc'[p] = "close"
      BY <1>0, <2>1 DEF ReadOrphan, PublishFails, TypeOK, PublishPCs, Unlinked
    <3>3. WholeOrUnderWay'
      BY <1>1, <2>0, <3>1 DEF WholeOrUnderWay, AdvertisedOnce, IInv
    <3>4. MissingIsOwed'
      BY <1>1, <2>0, <3>1 DEF MissingIsOwed, Unlinked
    <3> QED
      BY <3>3, <3>4 DEF Progress
  <2>2. CASE ClearDir(p) \/ (Rename(p) /\ link[sec[p]] = Dir)
    <3>1. /\ linked' = linked /\ sec' = sec
          /\ pc[p] \in Unlinked /\ pc[p] # "rename2" /\ pc'[p] \in {"clear", "rename2"}
          /\ \A s \in Sections : s # sec[p] => link'[s] = link[s]
          /\ pc'[p] = "rename2" \/ link' = link
      BY <1>0, <2>2 DEF ClearDir, Rename, TypeOK, Unlinked
    <3>3. WholeOrUnderWay'
      BY <1>1, <2>0, <3>1 DEF WholeOrUnderWay, AdvertisedOnce, IInv, PublishPCs
    <3>4. MissingIsOwed'
      <4> SUFFICES ASSUME NEW s \in Sections, link'[s] = Absent,
                          \E f \in linked : f.sec = s /\ f.by # Old
                   PROVE  \E q \in Procs : pc'[q] \in {"rename2", "close"} /\ sec'[q] = s
        BY <3>1 DEF MissingIsOwed
      <4>1. CASE s = sec[p] /\ pc'[p] = "rename2"
        BY <3>1, <4>1
      <4>2. CASE ~(s = sec[p] /\ pc'[p] = "rename2")
        <5>1. link[s] = Absent
          BY <3>1, <4>2
        <5>2. PICK q \in Procs : pc[q] \in {"rename2", "close"} /\ sec[q] = s
          BY <2>0, <5>1
        <5>3. q # p
          BY <3>1, <5>2 DEF Unlinked
        <5> QED
          BY <1>1, <5>2, <5>3
      <4> QED
        BY <4>1, <4>2
    <3> QED
      BY <3>3, <3>4 DEF Progress
  <2>3. CASE RenameAgain(p) \/ (Rename(p) /\ link[sec[p]] # Dir)
    <3>1. /\ linked' = linked \cup {Src(p)} /\ sec' = sec
          /\ pc[p] \in Unlinked /\ pc'[p] = "recheck"
          /\ link'[sec[p]] = Src(p)
          /\ \A s \in Sections : s # sec[p] => link'[s] = link[s]
      BY <1>0, <2>3 DEF RenameAgain, Rename, Advertise, TypeOK, Unlinked
    <3>3. WholeOrUnderWay'
      <4> SUFFICES ASSUME NEW f \in linked', NEW s \in Sections, f.by # Old
                   PROVE  \/ File(f.by, f.n, s) \in linked'
                          \/ f.n = gets[f.by] /\ pc'[f.by] \in PublishPCs
        BY <1>1 DEF WholeOrUnderWay
      <4>1. CASE f \in linked
        BY <1>0, <1>1, <2>0, <3>1, <4>1 DEF AdvertisedOnce, PublishPCs
      <4>2. CASE f = Src(p)
        BY <3>1, <4>2 DEF Src, File, PublishPCs
      <4> QED
        BY <3>1, <4>1, <4>2
    <3>4. MissingIsOwed'
      <4> SUFFICES ASSUME NEW s \in Sections, link'[s] = Absent,
                          NEW f \in linked', f.sec = s, f.by # Old
                   PROVE  \E q \in Procs : pc'[q] \in {"rename2", "close"} /\ sec'[q] = s
        BY DEF MissingIsOwed
      <4>1. Src(p) # Absent
        BY <1>0 DEF Src, File, Absent, TypeOK, Sections
      <4>2. s # sec[p] /\ link[s] = Absent
        BY <3>1, <4>1
      <4>3. f \in linked
        BY <3>1, <4>2 DEF Src, File
      <4>4. PICK q \in Procs : pc[q] \in {"rename2", "close"} /\ sec[q] = s
        BY <2>0, <4>2, <4>3
      <4> QED
        BY <1>1, <3>1, <4>2, <4>4
    <3> QED
      BY <3>3, <3>4 DEF Progress
  <2>4. CASE Recheck(p) \/ RemoveOrphan(p)
    <3>1. /\ linked' = linked /\ link' = link
          /\ pc[p] \in {"recheck", "remove"}
          /\ \/ pc'[p] = "remove" /\ sec'[p] = sec[p]
             \/ pc'[p] = "orphan" /\ sec'[p] = NextSection(sec[p]) /\ sec[p] # Last
             \/ pc'[p] = "idle" /\ sec[p] = Last
      BY <1>0, <2>4 DEF Recheck, RemoveOrphan, SectionDone, TypeOK
    <3>3. WholeOrUnderWay'
      <4> SUFFICES ASSUME NEW f \in linked, NEW s \in Sections, f.by # Old
                   PROVE  \/ File(f.by, f.n, s) \in linked
                          \/ f.n = gets[f.by] /\ pc'[f.by] \in PublishPCs
        BY <1>1, <3>1 DEF WholeOrUnderWay
      <4>1. CASE f.by # p \/ pc'[p] # "idle"
        BY <1>0, <1>1, <2>0, <3>1, <4>1 DEF AdvertisedOnce, PublishPCs
      <4>2. CASE f.by = p /\ pc'[p] = "idle"
        <5>1. Rank(s) <= Rank(sec[p])
          BY <3>1, <4>2 DEF Rank, Sections, Last
        <5>2. File(p, gets[p], s) \in linked
          BY <2>0, <3>1, <5>1
        <5> QED
          BY <2>0, <4>2, <5>2
      <4> QED
        BY <4>1, <4>2
    <3>4. MissingIsOwed'
      BY <1>1, <2>0, <3>1 DEF MissingIsOwed
    <3> QED
      BY <3>3, <3>4 DEF Progress
  <2> QED
    BY <1>6, <2>1, <2>2, <2>3, <2>4 DEF Publish
<1> QED
  BY <1>3, <1>5, <1>6

\* Every step of every process keeps publications whole or under way.
LEMMA StepMakesProgress == IInv /\ Tidy /\ Progress /\ [Next]_vars => Progress'
<1> SUFFICES ASSUME IInv, Tidy, Progress, [Next]_vars PROVE Progress'
  OBVIOUS
<1>1. CASE UNCHANGED vars
  BY <1>1 DEF vars, disk, call, Progress, WholeOrUnderWay, MissingIsOwed, Unbroken
<1>2. ASSUME NEW p \in Procs, Crash(p) PROVE Progress'
  <2>1. killed' # {}
    BY <1>2 DEF Crash
  <2> QED
    BY <2>1 DEF Progress, WholeOrUnderWay, MissingIsOwed, Unbroken
<1> QED
  BY <1>1, <1>2, QuietProgress, PublishProgress DEF Next

\* Publications are whole or under way in every reachable state.
THEOREM ProgressIsKept == Spec => []Progress
  BY InitMakesProgress, StepMakesProgress, Invariance, TidyIsKept, PTL DEF Spec

\* Types are kept: links, files and processes always have the shape declared.
THEOREM TypeCorrect == Spec => []TypeOK
<1>1. IInv => TypeOK
  BY DEF IInv
<1> QED
  BY <1>1, Invariance, PTL

\* Whatever the other processes do to the entry while it is read, a package
\* that is returned was verified.
THEOREM OnlyVerifiedServed == Spec => []ServedVerified
<1>1. IInv => ServedVerified
  BY DEF IInv, ControlStaysGood, ServedVerified
<1> QED
  BY <1>1, Invariance, PTL

\* removeOrphan deletes no file that an entry addresses, for any number of
\* processes that replace the entry at the same time.
THEOREM OrphansAreStranded == Spec => []NeverDangles
<1>1. IInv => NeverDangles
  BY DEF IInv
<1> QED
  BY <1>1, Invariance, PTL

\* After the first verified publication of a section its entry never goes back
\* to what was there at the start.
THEOREM PoisonIsReplaced == Spec => []VerifiedCopyWins
<1>1. IInv => VerifiedCopyWins
  BY DEF IInv
<1> QED
  BY <1>1, Invariance, PTL

\* Whatever the directory was like and however many processes published into
\* it at once: when all of them are done and none failed or was killed, every
\* section of the entry leads to a verified file.
THEOREM SettledIsReadable == Spec => []SettledEntryReadable
<1>1. IInv /\ Progress => SettledEntryReadable
  <2> SUFFICES ASSUME IInv, Progress, \A p \in Procs : pc[p] = "idle", closed = {}, killed = {},
                      NEW f \in linked, f.by # Old, NEW s \in Sections
               PROVE  Good(s)
    BY DEF SettledEntryReadable
  <2> DEFINE g == File(f.by, f.n, s)
  <2>1. f.by \in Procs
    BY DEF IInv, AdvertisedOnce
  <2>2. g \in linked
    BY <2>1 DEF Progress, WholeOrUnderWay, Unbroken, PublishPCs
  <2>3. g.sec = s /\ g.by # Old
    BY DEF File
  <2> HIDE DEF g
  <2>4. link[s] # Absent
    BY <2>2, <2>3 DEF Progress, MissingIsOwed, Unbroken
  <2>5. link[s] # Dir /\ link[s] \notin bad /\ link[s].by # Old
    BY <2>2, <2>3, <2>4 DEF IInv, VerifiedCopyWins
  <2>6. link[s] \in Files
    BY <2>4, <2>5 DEF IInv, TypeOK
  <2>7. link[s] \in exists
    BY <2>5, <2>6 DEF IInv, LinksAdvertised, NeverDangles
  <2> QED
    BY <2>5, <2>7 DEF Good
<1> QED
  BY <1>1, Invariance, ProgressIsKept, PTL

\* Whatever fails while a package is read, expanded or published, and however
\* many processes share the directory: what was never advertised is in use or
\* was left by a kill.
THEOREM NothingLeftBehind == Spec => []NothingAbandoned
<1>1. Tidy => NothingAbandoned
  BY DEF Tidy
<1> QED
  BY <1>1, TidyIsKept, PTL
=============================================================================
