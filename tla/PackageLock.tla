---------------------------- MODULE PackageLock ----------------------------
(***************************************************************************)
(* How the packages resolved for each architecture become the locked       *)
(* package lists of an image configuration: resolvePackageList and unify   *)
(* (pkg/build/lock.go), and the lists a lock file gives instead            *)
(* (pkg/lock/lock.go).                                                     *)
(*                                                                         *)
(* A package is a record of a name, a version and the set of names it      *)
(* provides.  The packages asked for are a function from their names to    *)
(* the pin ("@edge", or "" for none) written after them.                   *)
(***************************************************************************)
EXTENDS Naturals, Sequences, FiniteSets, SequencesExt

NamesOf(pkgs) == {p.name : p \in pkgs}

\* A Go map as a function on its keys, and what a missing key reads as.
Lookup(f, k, zero) == IF k \in DOMAIN f THEN f[k] ELSE zero
Without(f, ks) == [k \in DOMAIN f \ ks |-> f[k]]

\* A key is added.  The maps here get a key once; the caches among them keep
\* what they have.
With(f, k, v) == [x \in DOMAIN f \cup {k} |-> IF x \in DOMAIN f THEN f[x] ELSE v]

\* The entry resolvePackageList makes for an architecture: a package that
\* provides nothing has no entry in provided.
Resolved(arch, pkgs) ==
  [arch |-> arch,
   packages |-> NamesOf(pkgs),
   versions |-> [n \in NamesOf(pkgs) |->
                   (CHOOSE p \in pkgs : p.name = n).version],
   provided |-> [n \in {p.name : p \in {q \in pkgs : q.provides # {}}} |->
                   (CHOOSE p \in pkgs : p.name = n).provides]]

\* One architecture is unified with what was accumulated before it.  Names it
\* lacks leave packages only: their versions and what they provide stay
\* behind.  Names it resolved to another version leave all three, and what a
\* name provides is narrowed to what both agree on.
UnifyNext(acc, next) ==
  IF acc.versions = next.versions /\ acc.provided = next.provided
  THEN acc
  ELSE LET both == acc.packages \cap next.packages
           apart == {n \in both : acc.versions[n] # next.versions[n]}
           before == Without(acc.provided, apart)
           narrowed == {n \in both : Lookup(before, n, {}) #
                                       Lookup(next.provided, n, {})}
       IN [acc EXCEPT
             !.packages = both \ apart,
             !.versions = Without(@, apart),
             !.provided = [n \in DOMAIN before \cup narrowed |->
                             IF n \in narrowed
                             THEN Lookup(before, n, {}) \cap
                                    Lookup(next.provided, n, {})
                             ELSE before[n]]]

\* The architectures are unified in the order of the list, the first one
\* being where the accumulation starts.
Accumulated(inputs) ==
  LET acc[i \in 1..Len(inputs)] ==
        IF i = 1 THEN inputs[1] ELSE UnifyNext(acc[i - 1], inputs[i])
  IN acc[Len(inputs)]

\* The names asked for that are neither in the common list nor provided by a
\* package that still has an entry in provided.
Missing(originals, acc) ==
  (DOMAIN originals \ acc.packages)
     \ UNION {acc.provided[n] : n \in DOMAIN acc.provided}

\* An entry of a locked list: name=version, and the pin of the original.
Entry(originals, name, version) ==
  [name |-> name, version |-> version, pin |-> Lookup(originals, name, "")]

\* unify: a locked list for every architecture and one, "index", of what they
\* have in common; or an error.  Without packages asked for there is nothing
\* but an empty common list.
unify(originals, inputs) ==
  IF DOMAIN originals = {} \/ inputs = <<>>
  THEN [err |-> FALSE, lists |-> [k \in {"index"} |-> {}]]
  ELSE LET acc == Accumulated(inputs)
           byArch == [a \in {inputs[i].arch : i \in DOMAIN inputs} |->
                        LET in == CHOOSE in \in ToSet(inputs) : in.arch = a
                        IN {Entry(originals, n, in.versions[n])
                              : n \in in.packages}]
           index == {Entry(originals, n, acc.versions[n])
                       : n \in acc.packages}
       IN IF Missing(originals, acc) # {}
          THEN [err |-> TRUE, lists |-> <<>>]
          ELSE [err |-> FALSE,
                lists |-> [k \in DOMAIN byArch \cup {"index"} |->
                             IF k = "index" THEN index ELSE byArch[k]]]

\* Lock.Arch2LockedPackages: the locked packages of each architecture wanted.
\* An architecture the lock file has no package for gets no list at all, and
\* the pins are not kept.  A lock file is a set of records of an architecture
\* and a package.
Arch2LockedPackages(lock, archs) ==
  [a \in {l.arch : l \in lock} \cap archs |->
     {[name |-> l.package.name, version |-> l.package.version, pin |-> ""]
        : l \in {m \in lock : m.arch = a}}]

\* installablePackagesForArch: what a build from the lock file installs.
InstallablePackagesForArch(lock, arch) ==
  {l.package : l \in {m \in lock : m.arch = arch}}
============================================================================
