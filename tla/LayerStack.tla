----------------------------- MODULE LayerStack -----------------------------
(***************************************************************************)
(* EROFS layers read as one filesystem (pkg/erofsmount/stack.go), and what *)
(* the kernel shows for the same layers as overlayfs lowerdirs. A layer is *)
(* a function from paths (sequences of names) to entries; layers are       *)
(* numbered from the base up. An entry of kind "white" is a character      *)
(* device 0:0, a whiteout; a directory may be opaque.                      *)
(***************************************************************************)
EXTENDS Integers, Sequences, FiniteSets, FiniteSetsExt

Root == <<>>

\* A layer is a tree: everything is in a directory, up to the root.
IsLayer(l) ==
  /\ Root \in DOMAIN l /\ l[Root].kind = "dir"
  /\ \A p \in DOMAIN l :
       /\ p \in Seq(STRING)
       /\ \A k \in 0..Len(p) - 1 : SubSeq(p, 1, k) \in DOMAIN l /\ l[SubSeq(p, 1, k)].kind = "dir"

IsStack(ls) == Len(ls) \in Nat /\ \A i \in 1..Len(ls) : IsLayer(ls[i])

parentOf(p) == SubSeq(p, 1, Len(p) - 1)

\* The layers in which readDirOn finds directory d.
Holding(ls, d) == {i \in 1..Len(ls) : d \in DOMAIN ls[i] /\ ls[i][d].kind = "dir"}

\* Deletions count only when there is an overlay.
isWhiteout(ls, e) == Len(ls) > 1 /\ e.kind = "white"

isOpaqueDir(ls, i, d) == Len(ls) > 1 /\ ls[i][d].opaque

\* The layers a directory is read from: down to the first opaque copy of it.
readFrom(ls, d) ==
  LET opaque == {i \in Holding(ls, d) : isOpaqueDir(ls, i, d)}
  IN {i \in Holding(ls, d) : \A o \in opaque : i >= o}

\* Faulty variant of topmost: the entry of the lowest layer wins.
BugTopmost(ls, p) ==
  LET at == {i \in readFrom(ls, parentOf(p)) : p \in DOMAIN ls[i]}
  IN IF at = {} THEN {}
     ELSE IF isWhiteout(ls, ls[Min(at)][p]) THEN {} ELSE {Min(at)}

\* lookup without the ancestors: the layer (if any) whose entry p is.
topmost(ls, p) ==
  LET at == {i \in readFrom(ls, parentOf(p)) : p \in DOMAIN ls[i]}
  IN IF at = {} THEN {}
     ELSE IF isWhiteout(ls, ls[Max(at)][p]) THEN {} ELSE {Max(at)}

\* lookup: every ancestor must be live, and a directory.
lookup(ls, p) ==
  IF \A k \in 1..Len(p) - 1 :
       LET q == SubSeq(p, 1, k)
       IN \E i \in topmost(ls, q) : ls[i][q].kind = "dir"
  THEN topmost(ls, p) ELSE {}

\* mergeDir: each name as the topmost layer has it; a whiteout takes the name.
mergeDir(ls, d) ==
  UNION {{<<p, i>> : p \in {q \in DOMAIN ls[i] :
                              /\ q # Root /\ parentOf(q) = d /\ ~isWhiteout(ls, ls[i][q])
                              /\ \A j \in readFrom(ls, d) : q \in DOMAIN ls[j] => i >= j}}
           : i \in readFrom(ls, d)}

Paths(ls) == (UNION {DOMAIN ls[i] : i \in 1..Len(ls)}) \ {Root}

\* What a walk of the stack comes to (Ls), with the entry of each path.
View(ls) ==
  LET live == {p \in Paths(ls) : lookup(ls, p) # {}}
  IN [p \in live |-> ls[CHOOSE i \in lookup(ls, p) : TRUE][p]]

-----------------------------------------------------------------------------
\* overlayfs: what layer j has at q hides the lower layers there and below it.
hides(ls, j, q) ==
  q \in DOMAIN ls[j] /\ (ls[j][q].kind = "dir" => isOpaqueDir(ls, j, q))

\* The layers whose p the kernel shows, or merges if it is a directory: nothing
\* above hides them at p or on the way to it, and only directories are merged.
Contributing(ls, p) ==
  {i \in 1..Len(ls) :
     /\ p \in DOMAIN ls[i] /\ ~isWhiteout(ls, ls[i][p])
     /\ \A j \in (i + 1)..Len(ls) :
          /\ p \in DOMAIN ls[j] => ls[i][p].kind = "dir"
          /\ \A k \in 0..Len(p) : ~hides(ls, j, SubSeq(p, 1, k))}

OverlayView(ls) ==
  LET live == {p \in Paths(ls) : Contributing(ls, p) # {}}
  IN [p \in live |-> ls[Max(Contributing(ls, p))][p]]

\* A directory of two layers, and between them (or above it in the upper one) a
\* deletion, a file or an opaque directory in its place or in an ancestor's.
Remade(ls) ==
  \E i, k \in 1..Len(ls) : i < k /\
    \E d \in DOMAIN ls[i] \cap DOMAIN ls[k] :
      /\ ls[i][d].kind = "dir" /\ ls[k][d].kind = "dir"
      /\ \E j \in (i + 1)..k : \E n \in 0..Len(d) :
           /\ hides(ls, j, SubSeq(d, 1, n))
           /\ n = Len(d) => ls[j][d].kind # "dir"

\* Whatever the kernel would show of a stack of layers, Stack shows as the same
\* entry, and unless a directory was deleted and made again it shows no more.
ShowsOverlay(ls) ==
  LET view == View(ls)
      overlay == OverlayView(ls)
  IN /\ \A p \in DOMAIN overlay : p \in DOMAIN view /\ view[p] = overlay[p]
     /\ ~Remade(ls) => view = overlay

\* ReadDir lists what lookup finds, from the same layer.
ListsWhatItFinds(ls) ==
  \A d \in DOMAIN View(ls) \cup {Root} :
    (d = Root \/ View(ls)[d].kind = "dir") =>
      mergeDir(ls, d) =
      UNION {{<<p, i>> : i \in lookup(ls, p)} : p \in {q \in Paths(ls) : parentOf(q) = d}}
=============================================================================
