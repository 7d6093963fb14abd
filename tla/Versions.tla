------------------------------ MODULE Versions ------------------------------
(***************************************************************************)
(* Package versions: how they are read, ordered and matched                *)
(* (pkg/apk/apk/version.go).                                               *)
(*                                                                         *)
(* A version as it is written is what the groups of versionRegex have of   *)
(* it: the numbers between the dots, a letter, a pre-release and a         *)
(* post-release suffix and a revision, each suffix with or without a       *)
(* number.  Two texts may stand for one version: "1" and "1-r0".           *)
(***************************************************************************)
EXTENDS Integers, Sequences

CONSTANT MaxInt  \* the largest number strconv.Atoi reads

ASSUME VersionsAssumption == MaxInt \in Nat

\* A suffix or a revision that is not written, or has no number.
NoNumber == -1
NoLetter == 0
Letters == NoLetter..26

\* The suffixes, and what the code numbers them.
packageVersionPreModifier ==
  [s \in {"", "_alpha", "_beta", "_pre", "_rc"} |->
     CASE s = "" -> 0 [] s = "_alpha" -> 1 [] s = "_beta" -> 2 [] s = "_pre" -> 3
       [] s = "_rc" -> 4]
packageVersionPostModifier ==
  [s \in {"", "_cvs", "_svn", "_git", "_hg", "_p"} |->
     CASE s = "" -> 0 [] s = "_cvs" -> 1 [] s = "_svn" -> 2 [] s = "_git" -> 3
       [] s = "_hg" -> 4 [] s = "_p" -> 5]
PreModifierNone == 0
PreModifierMax == 1000
PostModifierNone == 0

\* What versionRegex matches, and a text it does not match.
Text ==
  [numbers : Seq(Nat), letter : Letters,
   pre : DOMAIN packageVersionPreModifier, preNumber : Nat \cup {NoNumber},
   post : DOMAIN packageVersionPostModifier, postNumber : Nat \cup {NoNumber},
   revision : Nat \cup {NoNumber}]
Malformed == [numbers |-> <<>>]

Version ==
  [numbers : Seq(Nat), letter : Letters, preSuffix : 0..4, preSuffixNumber : Nat,
   postSuffix : 0..5, postSuffixNumber : Nat, revision : Nat]

\* ParseVersion gives no error: the regex matches and Atoi can read every number.
Parses(t) ==
  /\ t.numbers # <<>>
  /\ \A i \in DOMAIN t.numbers : t.numbers[i] <= MaxInt
  /\ t.preNumber <= MaxInt /\ t.postNumber <= MaxInt /\ t.revision <= MaxInt

Number(n) == IF n = NoNumber THEN 0 ELSE n

ParseVersion(t) ==
  [numbers |-> t.numbers, letter |-> t.letter,
   preSuffix |-> packageVersionPreModifier[t.pre], preSuffixNumber |-> Number(t.preNumber),
   postSuffix |-> packageVersionPostModifier[t.post], postSuffixNumber |-> Number(t.postNumber),
   revision |-> Number(t.revision)]

-----------------------------------------------------------------------------
(***************************************************************************)
(* CompareVersions: part by part, the first that differs decides.          *)
(***************************************************************************)
greater == 1
equal == 0
less == -1

Compare(x, y) == IF x > y THEN greater ELSE IF x < y THEN less ELSE equal

\* The first number that differs is the larger one in s.
NumbersAbove(s, t) ==
  \E i \in DOMAIN s \cap DOMAIN t : s[i] > t[i] /\ \A j \in 1..(i - 1) : s[j] = t[j]

CompareNumbers(s, t) ==
  IF NumbersAbove(s, t) THEN greater
  ELSE IF NumbersAbove(t, s) THEN less
  ELSE Compare(Len(s), Len(t))

\* No pre-release suffix comes after all of them.
PreRank(s) == IF s = PreModifierNone THEN PreModifierMax ELSE s

Or(verdict, further) == IF verdict # equal THEN verdict ELSE further

CompareSuffixes(actual, required) ==
  Or(Compare(PreRank(actual.preSuffix), PreRank(required.preSuffix)),
     Or(Compare(actual.preSuffixNumber, required.preSuffixNumber),
        Or(Compare(actual.postSuffix, required.postSuffix),
           Or(Compare(actual.postSuffixNumber, required.postSuffixNumber),
              Compare(actual.revision, required.revision)))))

CompareVersions(actual, required) ==
  Or(CompareNumbers(actual.numbers, required.numbers),
     Or(Compare(actual.letter, required.letter), CompareSuffixes(actual, required)))

-----------------------------------------------------------------------------
(***************************************************************************)
(* Constraints on versions.                                                *)
(***************************************************************************)
\* Actual starts with required's numbers and, unless it has more of them, has
\* every part that is written, and not zero, in required.
includesVersion(actual, required) ==
  LET Has(wanted, has) == wanted = 0 \/ has = wanted
  IN /\ Len(actual.numbers) >= Len(required.numbers)
     /\ \A i \in DOMAIN required.numbers : actual.numbers[i] = required.numbers[i]
     /\ \/ Len(actual.numbers) > Len(required.numbers)
        \/ /\ Has(required.letter, actual.letter)
           /\ Has(required.preSuffix, actual.preSuffix)
           /\ Has(required.preSuffixNumber, actual.preSuffixNumber)
           /\ Has(required.postSuffix, actual.postSuffix)
           /\ Has(required.postSuffixNumber, actual.postSuffixNumber)
           /\ Has(required.revision, actual.revision)

\* versionDependency; "any" for a constraint without a version.
versionDependency == {"any", "=", ">", "<", ">=", "<=", "~"}

satisfies(v, actual, required) ==
  LET c == CompareVersions(actual, required)
  IN CASE v = "any" -> TRUE
       [] v = "~" -> includesVersion(actual, required)
       [] v = "=" -> c = equal
       [] v = ">" -> c = greater
       [] v = "<" -> c = less
       [] v = ">=" -> c \in {greater, equal}
       [] v = "<=" -> c \in {less, equal}

\* ResolvePackageNameVersionPin for the name of a shared library, "so:": behind
\* an "=" a version without a revision gets a 0 in front.
soVersion(v, t) ==
  IF v \in {"=", ">=", "<="} /\ t.revision = NoNumber
  THEN [t EXCEPT !.numbers = <<0>> \o @] ELSE t
=============================================================================
