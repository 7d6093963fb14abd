--------------------------- MODULE DownloadProofs ---------------------------
(***************************************************************************)
(* Download for files, buffers and limits of any size and any number of    *)
(* versions: every byte comes at its place, an end without an error is the *)
(* end of the file, and the limit is kept.                                 *)
(***************************************************************************)
EXTENDS Download, TLAPS

Bytes == (1..MaxVersion) \X (Nat \ {0})

\* The kinds of values, as far as the proofs need them.
Kinds ==
  /\ size \in [1..MaxVersion -> Nat] /\ version \in 1..MaxVersion
  /\ ranges \in BOOLEAN /\ limit \in Limits /\ served \subseteq 1..MaxVersion
  /\ pc \in {"start", "reading", "in", "reset", "eof", "failed"}
  /\ left \in Seq(Bytes) /\ partial \in Seq(Bytes) /\ got \in Seq(Bytes)
  /\ quota \in Int /\ progress \in Nat /\ retries \in Nat
  /\ unprobed \in BOOLEAN

\* What the caller has got is what progress counts; a failed read is repeated
\* at most twice.
Counted ==
  /\ progress = Len(got) /\ retries <= attempts
  /\ bound # -1 => quota >= 0 /\ quota <= bound

\* What the connection still has continues what the caller has.
LeftFollows == \A k \in 1..Len(left) : left[k][2] = progress + k

\* Before the first response nothing has come, and after a failed read nothing
\* more comes of the broken connection.
Started ==
  /\ pc = "start" => got = <<>>
  /\ pc = "reset" => left = <<>>

\* So does what a failed read had read.
PartialFollows ==
  /\ pc # "reset" => partial = <<>>
  /\ \A k \in 1..Len(partial) : partial[k][2] = progress + k

\* As long as one version answers, all bytes are its bytes, and what is left
\* reaches to its end.
OneSource ==
  /\ served = {} => pc \in {"start", "failed"}
  /\ served = {} => got = <<>> /\ partial = <<>>
  /\ \A v \in 1..MaxVersion : served = {v} =>
       /\ \A k \in 1..Len(got) : got[k][1] = v
       /\ \A k \in 1..Len(left) : left[k][1] = v
       /\ \A k \in 1..Len(partial) : partial[k][1] = v
       /\ progress + Len(partial) <= size[v]
       /\ pc \in {"reading", "in"} => progress + Len(left) = size[v]
       /\ pc = "eof" /\ ~unprobed => progress = size[v]

\* Without ranges, what was returned and what may still come stay within the
\* limit.
Accounted ==
  bound # -1 /\ ~ranges =>
    /\ progress + Len(partial) <= bound
    /\ pc \in {"reading", "in"} => progress + quota <= bound

IInv ==
  /\ Kinds
  /\ Counted
  /\ InPlace
  /\ Started
  /\ LeftFollows
  /\ PartialFollows
  /\ OneSource
  /\ Accounted

-----------------------------------------------------------------------------
\* The first n elements.
LEMMA UptoFacts ==
  ASSUME NEW S, NEW s \in Seq(S), NEW n \in Nat
  PROVE  /\ Upto(s, n) \in Seq(S)
         /\ Len(Upto(s, n)) = IF n < Len(s) THEN n ELSE Len(s)
         /\ \A k \in 1..Len(Upto(s, n)) : Upto(s, n)[k] = s[k]
<1> DEFINE m == IF n < Len(s) THEN n ELSE Len(s)
<1>1. m \in Nat /\ m <= Len(s)
  OBVIOUS
<1>2. SubSeq(s, 1, m) \in Seq(S) /\ Len(SubSeq(s, 1, m)) = m
      /\ \A k \in 1..m : SubSeq(s, 1, m)[k] = s[k]
  <2> HIDE DEF m
  <2> QED BY <1>1
<1> QED
  BY <1>2 DEF Upto

\* The elements after the first n.
LEMMA FromFacts ==
  ASSUME NEW S, NEW s \in Seq(S), NEW n \in Nat, n <= Len(s)
  PROVE  /\ From(s, n) \in Seq(S)
         /\ Len(From(s, n)) = Len(s) - n
         /\ \A k \in 1..Len(From(s, n)) : From(s, n)[k] = s[n + k]
<1>1. From(s, n) \in Seq(S)
  BY DEF From
<1>2. Len(From(s, n)) = Len(s) - n
  BY DEF From
<1>3. \A k \in 1..Len(s) - n : SubSeq(s, n + 1, Len(s))[k] = s[n + k]
  OBVIOUS
<1> QED
  BY <1>1, <1>2, <1>3 DEF From

\* A version of the file has its bytes at their places.
LEMMA FileFacts ==
  ASSUME size \in [1..MaxVersion -> Nat], NEW v \in 1..MaxVersion
  PROVE  /\ File(v) \in Seq(Bytes)
         /\ Len(File(v)) = size[v]
         /\ \A k \in 1..size[v] : File(v)[k] = <<v, k>>
<1>1. size[v] \in Nat
  OBVIOUS
<1>2. \A k \in 1..size[v] : <<v, k>> \in Bytes
  BY <1>1 DEF Bytes
<1>3. File(v) \in [1..size[v] -> Bytes]
  BY <1>2 DEF File
<1>4. File(v) \in Seq(Bytes)
  BY <1>1, <1>3
<1> QED
  BY <1>1, <1>3, <1>4 DEF File

LEMMA BoundType == Kinds => bound \in Nat \cup {-1}
  BY BoundsAssumption DEF Kinds, bound

\* Returning bytes that continue what the caller has.
LEMMA ReturnedFollows ==
  ASSUME Kinds, Counted, InPlace, NEW b \in Seq(Bytes),
         \A k \in 1..Len(b) : b[k][2] = progress + k,
         Returned(b)
  PROVE  /\ got' \in Seq(Bytes) /\ progress' \in Nat /\ progress' = Len(got')
         /\ progress' = progress + Len(b)
         /\ InPlace'
         /\ \A v : (/\ \A k \in 1..Len(got) : got[k][1] = v
                   /\ \A k \in 1..Len(b) : b[k][1] = v)
                  => \A k \in 1..Len(got') : got'[k][1] = v
<1>1. got' = got \o b /\ progress' = progress + Len(b)
  BY DEF Returned
<1>2. got' \in Seq(Bytes) /\ Len(got') = Len(got) + Len(b)
  BY <1>1 DEF Kinds
<1>3. \A k \in 1..Len(got') : got'[k] = IF k <= Len(got) THEN got[k] ELSE b[k - Len(got)]
  BY <1>1, <1>2 DEF Kinds
<1>4. progress = Len(got) /\ Len(got) \in Nat /\ Len(b) \in Nat
  BY DEF Counted, Kinds
<1>5. ASSUME NEW k \in 1..Len(got')
      PROVE  got'[k][2] = k
  <2>1. CASE k <= Len(got)
    BY <1>3, <1>4, <2>1 DEF InPlace
  <2>2. CASE ~(k <= Len(got))
    <3>1. k - Len(got) \in 1..Len(b)
      BY <1>2, <1>4, <2>2
    <3> QED BY <1>3, <1>4, <2>2, <3>1
  <2> QED BY <2>1, <2>2
<1>6. ASSUME NEW v, \A k \in 1..Len(got) : got[k][1] = v, \A k \in 1..Len(b) : b[k][1] = v,
             NEW k \in 1..Len(got')
      PROVE  got'[k][1] = v
  <2>1. CASE k <= Len(got)
    BY <1>3, <1>4, <1>6, <2>1
  <2>2. CASE ~(k <= Len(got))
    <3>1. k - Len(got) \in 1..Len(b)
      BY <1>2, <1>4, <2>2
    <3> QED BY <1>3, <1>4, <1>6, <2>2, <3>1
  <2> QED BY <2>1, <2>2
<1> QED
  BY <1>1, <1>2, <1>4, <1>5, <1>6 DEF InPlace

-----------------------------------------------------------------------------
(* The initial states.                                                     *)

\* Nothing is downloaded at the start.
LEMMA InitEstablishes == Init => IInv
<1> SUFFICES ASSUME Init PROVE IInv
  OBVIOUS
<1>1. Kinds
  <2>1. size \in [1..MaxVersion -> Nat]
    <3>1. MaxSize \in Nat
      BY BoundsAssumption
    <3> QED BY <3>1 DEF Init
  <2>2. version \in 1..MaxVersion
    BY BoundsAssumption DEF Init
  <2>3. <<>> \in Seq(Bytes)
    OBVIOUS
  <2>4. left \in Seq(Bytes) /\ partial \in Seq(Bytes) /\ got \in Seq(Bytes)
    BY <2>3 DEF Init
  <2>5. served \subseteq 1..MaxVersion /\ quota \in Int /\ progress \in Nat /\ retries \in Nat
    BY DEF Init
  <2> QED
    BY <2>1, <2>2, <2>4, <2>5 DEF Init, Kinds
<1>2. Counted
  BY <1>1, BoundType DEF Init, Counted, attempts
<1>3. InPlace /\ Started /\ LeftFollows /\ PartialFollows
  BY DEF Init, InPlace, Started, LeftFollows, PartialFollows
<1>4. OneSource
  <2>1. \A v \in 1..MaxVersion : served # {v}
    BY DEF Init
  <2> QED BY <2>1 DEF Init, OneSource
<1>5. Accounted
  BY <1>1, BoundType DEF Init, Accounted
<1> QED
  BY <1>1, <1>2, <1>3, <1>4, <1>5 DEF IInv

-----------------------------------------------------------------------------
(* The steps.                                                              *)

\* Stuttering.
LEMMA StutterKeeps == IInv /\ UNCHANGED vars => IInv'
  BY DEF IInv, Kinds, Counted, InPlace, Started, LeftFollows, PartialFollows, OneSource, Accounted,
         vars, bound

\* A file replaced on the server changes nothing that was answered.
LEMMA ReplaceKeeps == IInv /\ Replace => IInv'
<1> SUFFICES ASSUME IInv, Replace PROVE IInv'
  OBVIOUS
<1>1. Kinds'
  BY BoundsAssumption DEF IInv, Kinds, Replace, server
<1> QED
  BY <1>1 DEF IInv, Counted, InPlace, Started, LeftFollows, PartialFollows, OneSource, Accounted,
             Replace, server, bound

\* A request that fails at once.
LEMMA RoundTripFailsKeeps == IInv /\ RoundTripFails => IInv'
<1> SUFFICES ASSUME IInv, RoundTripFails PROVE IInv'
  OBVIOUS
<1>1. Kinds'
  BY DEF IInv, Kinds, RoundTripFails, server
<1>2. Counted' /\ InPlace' /\ Started' /\ LeftFollows' /\ PartialFollows'
  BY DEF IInv, Counted, InPlace, Started, LeftFollows, PartialFollows, RoundTripFails, server, bound
<1>3. OneSource'
  BY DEF IInv, OneSource, RoundTripFails, server
<1>4. Accounted'
  BY DEF IInv, Accounted, RoundTripFails, server, bound
<1> QED
  BY <1>1, <1>2, <1>3, <1>4 DEF IInv

\* A Read begins.
LEMMA ReadKeeps == IInv /\ Read => IInv'
<1> SUFFICES ASSUME IInv, Read PROVE IInv'
  OBVIOUS
<1>1. Kinds'
  BY DEF IInv, Kinds, Read, server, attempts
<1>2. Counted' /\ InPlace' /\ Started' /\ LeftFollows' /\ PartialFollows'
  BY DEF IInv, Counted, InPlace, Started, LeftFollows, PartialFollows, Read, server, bound, attempts
<1>3. OneSource'
  BY DEF IInv, OneSource, PartialFollows, Read, server
<1>4. Accounted'
  BY DEF IInv, Accounted, PartialFollows, Read, server, bound
<1> QED
  BY <1>1, <1>2, <1>3, <1>4 DEF IInv

\* The end of a response is the end of the file.
LEMMA ReadEOFKeeps == IInv /\ ReadEOF => IInv'
<1> SUFFICES ASSUME IInv, ReadEOF PROVE IInv'
  OBVIOUS
<1>1. Kinds'
  BY DEF IInv, Kinds, ReadEOF, server
<1>2. Counted' /\ InPlace' /\ Started' /\ LeftFollows' /\ PartialFollows'
  BY DEF IInv, Counted, InPlace, Started, LeftFollows, PartialFollows, ReadEOF, server, bound
<1>3. OneSource'
  BY DEF IInv, Kinds, OneSource, ReadEOF, server
<1>4. Accounted'
  BY DEF IInv, Accounted, ReadEOF, server, bound
<1> QED
  BY <1>1, <1>2, <1>3, <1>4 DEF IInv

\* An end reported without a look beyond the limit is marked as such.
LEMMA ProbeFailsKeeps == IInv /\ ProbeFails => IInv'
<1> SUFFICES ASSUME IInv, ProbeFails PROVE IInv'
  OBVIOUS
<1>1. Kinds'
  BY DEF IInv, Kinds, ProbeFails, server
<1>2. Counted' /\ InPlace' /\ Started' /\ LeftFollows' /\ PartialFollows'
  BY DEF IInv, Counted, InPlace, Started, LeftFollows, PartialFollows, ProbeFails, server, bound
<1>3. OneSource'
  BY DEF IInv, OneSource, ProbeFails, server
<1>4. Accounted'
  BY DEF IInv, Accounted, ProbeFails, server, bound
<1> QED
  BY <1>1, <1>2, <1>3, <1>4 DEF IInv

\* The first response is a version of the file from its first byte.
LEMMA RoundTripKeeps == IInv /\ RoundTrip => IInv'
<1> SUFFICES ASSUME IInv, RoundTrip PROVE IInv'
  OBVIOUS
<1>1. File(version) \in Seq(Bytes) /\ Len(File(version)) = size[version]
      /\ \A k \in 1..size[version] : File(version)[k] = <<version, k>>
  BY FileFacts DEF IInv, Kinds
<1>2. bound \in Nat \cup {-1} /\ bound' = bound
  BY BoundType DEF IInv, RoundTrip, server, bound
<1>3. left' = File(version) /\ quota' = bound /\ served' = served \cup {version}
  BY DEF RoundTrip, Respond
<1>4. Kinds'
  BY <1>1, <1>2, <1>3 DEF IInv, Kinds, RoundTrip, server
<1>5. Counted' /\ InPlace' /\ Started' /\ PartialFollows'
  BY <1>2, <1>3 DEF IInv, Counted, InPlace, Started, PartialFollows, RoundTrip, server
<1>6. got = <<>> /\ partial = <<>> /\ progress = 0
  BY DEF IInv, Counted, Kinds, PartialFollows, OneSource, Started, RoundTrip
<1>7. LeftFollows'
  BY <1>1, <1>3, <1>6 DEF IInv, Kinds, LeftFollows, RoundTrip
<1>8. OneSource'
  <2>1. ASSUME NEW v \in 1..MaxVersion, served' = {v} PROVE v = version
    BY <1>3, <2>1
  <2>2. served' # {}
    BY <1>3
  <2> QED
    BY <1>1, <1>3, <1>6, <2>1, <2>2 DEF IInv, Kinds, OneSource, RoundTrip, server
<1>9. Accounted'
  BY <1>2, <1>3, <1>6 DEF IInv, Kinds, Accounted, RoundTrip, server
<1> QED
  BY <1>4, <1>5, <1>7, <1>8, <1>9 DEF IInv

\* The data of a read continues what the caller has, and what is left
\* continues the data.
LEMMA ReadDataKeeps ==
  ASSUME NEW k \in Nat, IInv, ReadData(k)
  PROVE  IInv'
<1> DEFINE b == Upto(left, k)
<1>1. left \in Seq(Bytes) /\ k <= Len(left) /\ k > 0
  BY DEF IInv, Kinds, ReadData, Readable
<1>2. /\ b \in Seq(Bytes) /\ Len(b) = k
      /\ \A j \in 1..k : b[j] = left[j]
  <2>1. Len(left) \in Nat
    BY <1>1
  <2> QED BY <1>1, <2>1, UptoFacts
<1>3. /\ left' = From(left, k) /\ left' \in Seq(Bytes) /\ Len(left') = Len(left) - k
      /\ \A j \in 1..Len(left') : left'[j] = left[k + j]
  <2>1. left' = From(left, k)
    BY DEF ReadData, Take
  <2> QED BY <1>1, <2>1, FromFacts
<1> HIDE DEF b
<1>4. \A j \in 1..Len(b) : b[j][2] = progress + j
  BY <1>1, <1>2 DEF IInv, LeftFollows
<1>5. /\ got' \in Seq(Bytes) /\ progress' = Len(got')
      /\ progress' = progress + k /\ progress' \in Nat
      /\ InPlace'
      /\ \A v : (/\ \A j \in 1..Len(got) : got[j][1] = v
                 /\ \A j \in 1..Len(b) : b[j][1] = v)
                => \A j \in 1..Len(got') : got'[j][1] = v
  <2>1. Returned(b)
    BY DEF ReadData, b
  <2> QED BY <1>2, <1>4, <2>1, ReturnedFollows DEF IInv
<1>6. bound \in Nat \cup {-1} /\ bound' = bound
  BY BoundType DEF IInv, ReadData, server, bound
<1>7. /\ bound # -1 => quota' = quota - k /\ k <= quota
      /\ bound = -1 => quota' = quota
  BY DEF ReadData, Readable, Take
<1>8. Kinds'
  BY <1>3, <1>5, <1>6, <1>7 DEF IInv, Kinds, ReadData, server
<1>9. Counted'
  BY <1>5, <1>6, <1>7 DEF IInv, Kinds, Counted, ReadData, server
<1>10. Started' /\ PartialFollows'
  <2>1. partial' = <<>> /\ pc' = "reading"
    BY DEF IInv, PartialFollows, ReadData, server
  <2> QED BY <2>1 DEF Started, PartialFollows
<1>11. LeftFollows'
  <2>1. ASSUME NEW j \in 1..Len(left') PROVE left'[j][2] = progress' + j
    <3>1. k + j \in 1..Len(left) /\ left'[j] = left[k + j]
      BY <1>1, <1>3
    <3>2. left[k + j][2] = progress + (k + j)
      BY <3>1 DEF IInv, LeftFollows
    <3>3. progress + (k + j) = progress' + j
      BY <1>3, <1>5 DEF IInv, Kinds
    <3> QED BY <3>1, <3>2, <3>3
  <2> QED BY <2>1 DEF LeftFollows
<1>12. OneSource'
  <2>1. partial' = <<>> /\ pc' = "reading" /\ pc = "in" /\ served' = served /\ size' = size
    BY DEF IInv, PartialFollows, ReadData, server
  <2>2. served # {}
    BY <2>1 DEF IInv, OneSource
  <2>3. ASSUME NEW v \in 1..MaxVersion, served = {v}
        PROVE  /\ \A j \in 1..Len(got') : got'[j][1] = v
               /\ \A j \in 1..Len(left') : left'[j][1] = v
               /\ progress' + Len(left') = size[v]
    <3>1. /\ \A j \in 1..Len(got) : got[j][1] = v
          /\ \A j \in 1..Len(left) : left[j][1] = v
          /\ progress + Len(left) = size[v]
      BY <2>1, <2>3 DEF IInv, OneSource
    <3>2. \A j \in 1..Len(b) : b[j][1] = v
      BY <1>1, <1>2, <3>1
    <3>3. \A j \in 1..Len(left') : left'[j][1] = v
      BY <1>1, <1>3, <3>1
    <3>4. \A j \in 1..Len(got') : got'[j][1] = v
      BY <1>5, <3>1, <3>2
    <3>5. progress \in Nat /\ Len(left) \in Nat
      BY DEF IInv, Kinds
    <3>6. progress' + Len(left') = size[v]
      BY <1>3, <1>5, <3>1, <3>5
    <3> QED
      BY <3>3, <3>4, <3>6
  <2>4. ASSUME NEW v \in 1..MaxVersion, served = {v}
        PROVE  progress' + Len(partial') <= size'[v]
    BY <1>3, <1>5, <2>1, <2>3, <2>4 DEF IInv, Kinds
  <2> QED
    BY <2>1, <2>2, <2>3, <2>4 DEF OneSource
<1>13. Accounted'
  <2>1. partial' = <<>> /\ pc' = "reading" /\ pc = "in" /\ ranges' = ranges
    BY DEF IInv, PartialFollows, ReadData, server
  <2>2. ASSUME bound # -1, ~ranges
        PROVE  progress' + quota' <= bound /\ quota' >= 0
    BY <1>5, <1>7, <2>1, <2>2 DEF IInv, Kinds, Accounted
  <2>3. ASSUME bound # -1, ~ranges
        PROVE  progress' + Len(partial') <= bound
    BY <1>5, <1>6, <1>8, <2>1, <2>2, <2>3 DEF Kinds
  <2> QED
    BY <1>6, <2>1, <2>2, <2>3 DEF Accounted
<1> QED
  BY <1>5, <1>8, <1>9, <1>10, <1>11, <1>12, <1>13 DEF IInv

\* A read that fails loses the connection; its bytes continue what the caller
\* has, whether they are kept for a reset or returned.
LEMMA FailedReadKeeps ==
  ASSUME NEW k \in Nat, k <= Len(left), bound = -1 \/ k <= quota,
         pc = "in", IInv, FailedRead(k)
  PROVE  IInv'
<1> DEFINE b == Upto(left, k)
<1>1. left \in Seq(Bytes) /\ Len(left) \in Nat
  BY DEF IInv, Kinds
<1>2. /\ b \in Seq(Bytes) /\ Len(b) = k
      /\ \A j \in 1..k : b[j] = left[j]
  BY <1>1, UptoFacts
<1>3. /\ left' = <<>> /\ quota' = quota /\ size' = size /\ version' = version
      /\ ranges' = ranges /\ limit' = limit /\ served' = served /\ unprobed' = unprobed
  BY DEF FailedRead, server
<1>4. bound \in Nat \cup {-1} /\ bound' = bound
  BY <1>3, BoundType DEF IInv, bound
<1> HIDE DEF b
<1>5. \A j \in 1..Len(b) : b[j][2] = progress + j
  BY <1>1, <1>2 DEF IInv, LeftFollows
<1>6. partial = <<>> /\ served # {}
  BY DEF IInv, PartialFollows, OneSource
<1>7. \A v \in 1..MaxVersion : served = {v} =>
        /\ \A j \in 1..Len(got) : got[j][1] = v
        /\ \A j \in 1..Len(b) : b[j][1] = v
        /\ progress + k <= size[v]
  <2>1. ASSUME NEW v \in 1..MaxVersion, served = {v}
        PROVE  /\ \A j \in 1..Len(got) : got[j][1] = v
               /\ \A j \in 1..Len(left) : left[j][1] = v
               /\ progress + Len(left) = size[v]
    BY <2>1 DEF IInv, OneSource
  <2>2. ASSUME NEW v \in 1..MaxVersion, served = {v}
        PROVE  \A j \in 1..Len(b) : b[j][1] = v
    BY <1>1, <1>2, <2>1, <2>2
  <2>3. ASSUME NEW v \in 1..MaxVersion, served = {v}
        PROVE  progress + k <= size[v]
    <3>1. progress \in Nat
      BY DEF IInv, Kinds
    <3> QED BY <1>1, <2>1, <2>3, <3>1
  <2> QED
    BY <2>1, <2>2, <2>3
<1>8. bound # -1 /\ ~ranges => progress + k <= bound
  BY <1>4 DEF IInv, Kinds, Accounted
<1>9. CASE retries # 0
  <2>1. /\ pc' = "reset" /\ partial' = b /\ retries' = retries - 1
        /\ progress' = progress /\ got' = got
    BY <1>9 DEF FailedRead, Fewer, b
  <2>2. Kinds'
    BY <1>2, <1>3, <1>9, <2>1 DEF IInv, Kinds
  <2>3. Counted'
    BY <1>3, <1>4, <1>9, <2>1 DEF IInv, Kinds, Counted, attempts
  <2>4. InPlace' /\ Started' /\ LeftFollows' /\ PartialFollows'
    BY <1>3, <1>5, <2>1 DEF IInv, InPlace, Started, LeftFollows, PartialFollows
  <2>5. OneSource'
    BY <1>2, <1>3, <1>6, <1>7, <2>1 DEF OneSource
  <2>6. Accounted'
    BY <1>2, <1>3, <1>4, <1>8, <2>1 DEF Accounted
  <2> QED
    BY <2>2, <2>3, <2>4, <2>5, <2>6 DEF IInv
<1>10. CASE retries = 0
  <2>1. pc' = "failed" /\ Returned(b) /\ partial' = <<>> /\ retries' = retries
    BY <1>6, <1>10 DEF FailedRead, b
  <2>2. /\ got' \in Seq(Bytes) /\ progress' = Len(got')
        /\ progress' = progress + k /\ progress' \in Nat
        /\ InPlace'
        /\ \A v : (/\ \A j \in 1..Len(got) : got[j][1] = v
                   /\ \A j \in 1..Len(b) : b[j][1] = v)
                  => \A j \in 1..Len(got') : got'[j][1] = v
    BY <1>2, <1>5, <2>1, ReturnedFollows DEF IInv
  <2>3. Kinds'
    BY <1>3, <2>1, <2>2 DEF IInv, Kinds
  <2>4. Counted' /\ Started' /\ LeftFollows' /\ PartialFollows'
    BY <1>3, <1>4, <2>1, <2>2
       DEF IInv, Counted, Started, LeftFollows, PartialFollows
  <2>5. OneSource'
    <3>1. progress' + Len(partial') = progress + k
      BY <2>1, <2>2
    <3>2. ASSUME NEW v \in 1..MaxVersion, served = {v}
          PROVE  /\ \A j \in 1..Len(got') : got'[j][1] = v
                 /\ \A j \in 1..Len(left') : left'[j][1] = v
                 /\ \A j \in 1..Len(partial') : partial'[j][1] = v
                 /\ progress' + Len(partial') <= size[v]
      <4>1. \A j \in 1..Len(got') : got'[j][1] = v
        BY <1>7, <2>2, <3>2
      <4>2. progress' + Len(partial') <= size[v]
        BY <1>7, <3>1, <3>2
      <4> QED BY <1>3, <2>1, <4>1, <4>2
    <3> QED
      BY <1>3, <1>6, <2>1, <3>2 DEF OneSource
  <2>6. Accounted'
    BY <1>3, <1>4, <1>8, <2>1, <2>2 DEF Accounted
  <2> QED
    BY <2>2, <2>3, <2>4, <2>5, <2>6 DEF IInv
<1> QED
  BY <1>9, <1>10

\* A connection that breaks in the middle of a read.
LEMMA ReadBreaksKeeps ==
  ASSUME NEW k \in Nat, IInv, ReadBreaks(k)
  PROVE  IInv'
  BY FailedReadKeeps DEF ReadBreaks, Readable

\* The limit is an error like another, with no bytes.
LEMMA LimitExceededKeeps == IInv /\ LimitExceeded => IInv'
<1> SUFFICES ASSUME IInv, LimitExceeded PROVE IInv'
  OBVIOUS
<1>1. 0 <= Len(left)
  BY DEF IInv, Kinds
<1>2. bound = -1 \/ 0 <= quota
  BY DEF IInv, Counted
<1> QED
  BY <1>1, <1>2, FailedReadKeeps DEF LimitExceeded

\* A response to a reset begins where the caller is, with a Range or without.
LEMMA ResetKeeps == IInv /\ Reset => IInv'
<1> SUFFICES ASSUME IInv, Reset PROVE IInv'
  OBVIOUS
<1>1. /\ File(version) \in Seq(Bytes) /\ Len(File(version)) = size[version]
      /\ \A k \in 1..size[version] : File(version)[k] = <<version, k>>
      /\ size[version] \in Nat
  BY FileFacts DEF IInv, Kinds
<1>2. bound \in Nat \cup {-1} /\ bound' = bound
  BY BoundType DEF IInv, Reset, server, bound
<1>3. progress \in Nat /\ progress <= size[version]
  BY <1>1 DEF IInv, Kinds, Reset, Resumable
<1>4. /\ From(File(version), progress) \in Seq(Bytes)
      /\ Len(From(File(version), progress)) = size[version] - progress
      /\ \A k \in 1..Len(From(File(version), progress)) :
           From(File(version), progress)[k] = File(version)[progress + k]
  BY <1>1, <1>3, FromFacts
<1>5. /\ left' = From(File(version), progress) /\ served' = served \cup {version}
      /\ IF ranges \/ progress = 0 THEN quota' = bound ELSE quota' = bound - progress
  BY DEF Reset, Respond, Skipped, Remaining
<1>6. /\ left' \in Seq(Bytes) /\ progress + Len(left') = size[version]
      /\ \A k \in 1..Len(left') : left'[k] = <<version, progress + k>>
  <2>1. ASSUME NEW k \in 1..size[version] - progress
        PROVE  File(version)[progress + k] = <<version, progress + k>>
    <3>1. progress + k \in 1..size[version]
      BY <1>1, <1>3
    <3> QED BY <1>1, <3>1
  <2> QED BY <1>1, <1>3, <1>4, <1>5, <2>1
<1>7. /\ pc' = "in" /\ partial' = <<>> /\ size' = size /\ version' = version
      /\ ranges' = ranges /\ limit' = limit /\ progress' = progress
      /\ retries' = retries /\ got' = got /\ unprobed' = unprobed
  BY DEF Reset, server
<1>8. bound # -1 => quota' >= 0 /\ quota' <= bound /\ (~ranges => progress + quota' <= bound)
  <2>1. CASE ranges
    BY <1>2, <1>5, <2>1
  <2>2. CASE ~ranges
    BY <1>2, <1>3, <1>5, <2>2 DEF Reset, Resumable
  <2> QED BY <2>1, <2>2
<1>9. Kinds'
  <2>1. quota' \in Int
    BY <1>2, <1>3, <1>5
  <2> QED BY <1>5, <1>6, <1>7, <2>1 DEF IInv, Kinds
<1>10. Counted' /\ InPlace' /\ Started' /\ PartialFollows'
  BY <1>2, <1>7, <1>8 DEF IInv, Counted, InPlace, Started, PartialFollows
<1>11. LeftFollows'
  BY <1>6, <1>7 DEF LeftFollows
<1>12. OneSource'
  <2>1. served' # {}
    BY <1>5
  <2>2. ASSUME NEW v \in 1..MaxVersion, served' = {v}
        PROVE  v = version /\ served = {v}
    <3>1. v = version
      BY <1>5, <2>2
    <3>2. served # {}
      BY DEF IInv, OneSource, Reset
    <3> QED BY <1>5, <2>2, <3>1, <3>2
  <2>3. ASSUME NEW v \in 1..MaxVersion, served' = {v}
        PROVE  \A k \in 1..Len(got) : got[k][1] = v
    BY <2>2, <2>3 DEF IInv, OneSource
  <2>4. progress + Len(partial') <= size[version]
    BY <1>3, <1>7
  <2> QED
    BY <1>6, <1>7, <2>1, <2>2, <2>3, <2>4 DEF OneSource
<1>13. Accounted'
  <2>1. progress + Len(partial') = progress
    BY <1>3, <1>7
  <2>2. bound # -1 /\ ~ranges => progress <= bound
    BY DEF Reset, Resumable
  <2> QED
    BY <1>2, <1>7, <1>8, <2>1, <2>2 DEF Accounted
<1> QED
  BY <1>9, <1>10, <1>11, <1>12, <1>13 DEF IInv

\* After an answer without a body nothing comes of the closed one: the read
\* fails without a byte, or its end is marked as one that was not probed.
LEMMA ResetUnansweredKeeps == IInv /\ ResetUnanswered => IInv'
<1> SUFFICES ASSUME IInv, ResetUnanswered PROVE IInv'
  OBVIOUS
<1>1. pc = "reset" /\ left = <<>> /\ served # {} /\ progress \in Nat /\ got \in Seq(Bytes)
  BY DEF IInv, Kinds, Started, OneSource, ResetUnanswered
<1>2. Upto(left, 0) = <<>>
  <2>1. left \in Seq(Bytes) /\ 0 \in Nat
    BY DEF IInv, Kinds
  <2>2. Upto(left, 0) \in Seq(Bytes) /\ Len(Upto(left, 0)) = 0
    BY <1>1, <2>1, UptoFacts
  <2> QED
    BY <2>2
<1>3. got \o <<>> = got /\ progress + Len(<<>>) = progress
  BY <1>1
<1>4. /\ left' = <<>> /\ quota' = quota /\ size' = size /\ version' = version
      /\ ranges' = ranges /\ limit' = limit /\ served' = served
      /\ progress' = progress /\ got' = got /\ partial' = <<>>
  BY <1>1, <1>2, <1>3 DEF ResetUnanswered, FailedRead, Returned, server
<1>5. \/ pc' = "eof" /\ unprobed' = TRUE /\ retries' = retries
      \/ pc' = "reset" /\ unprobed' = unprobed /\ retries # 0 /\ retries' = retries - 1
      \/ pc' = "failed" /\ unprobed' = unprobed /\ retries' = retries
  BY DEF ResetUnanswered, FailedRead, Fewer
<1>6. bound \in Nat \cup {-1} /\ bound' = bound
  BY <1>4, BoundType DEF IInv, bound
<1>7. Kinds'
  <2>1. retries \in Nat /\ unprobed \in BOOLEAN
    BY DEF IInv, Kinds
  <2>2. retries' \in Nat
    BY <1>5, <2>1
  <2>3. unprobed' \in BOOLEAN
    BY <1>5, <2>1, Zenon
  <2>4. left' \in Seq(Bytes) /\ partial' \in Seq(Bytes)
    BY <1>4
  <2>5. pc' \in {"start", "reading", "in", "reset", "eof", "failed"}
    BY <1>5
  <2> QED
    BY <1>4, <2>2, <2>3, <2>4, <2>5 DEF IInv, Kinds
<1>8. Counted'
  <2>1. retries' <= attempts
    BY <1>5 DEF IInv, Kinds, Counted, attempts
  <2> QED
    BY <1>4, <1>6, <2>1 DEF IInv, Counted
<1>9. InPlace' /\ Started' /\ LeftFollows' /\ PartialFollows'
  BY <1>4, <1>5 DEF IInv, InPlace, Started, LeftFollows, PartialFollows
<1>10. OneSource'
  <2>1. ASSUME NEW v \in 1..MaxVersion, served = {v}
        PROVE  (\A k \in 1..Len(got) : got[k][1] = v) /\ progress <= size[v]
    <3>1. Len(partial) \in Nat /\ size[v] \in Nat
      BY DEF IInv, Kinds
    <3> QED
      BY <1>1, <2>1, <3>1 DEF IInv, OneSource
  <2>2. progress + Len(<<>>) = progress
    BY <1>1
  <2> QED
    BY <1>1, <1>4, <1>5, <2>1, <2>2 DEF OneSource
<1>11. Accounted'
  <2>1. bound # -1 /\ ~ranges => progress <= bound
    <3>1. Len(partial) \in Nat
      BY DEF IInv, Kinds
    <3> QED
      BY <1>1, <1>6, <3>1 DEF IInv, Accounted
  <2> QED
    BY <1>1, <1>3, <1>4, <1>5, <1>6, <2>1 DEF Accounted
<1> QED
  BY <1>7, <1>8, <1>9, <1>10, <1>11 DEF IInv

\* A reset that fails returns the bytes of the failed read with the error.
LEMMA ResetFailsKeeps == IInv /\ ResetFails => IInv'
<1> SUFFICES ASSUME IInv, ResetFails PROVE IInv'
  OBVIOUS
<1>1. partial \in Seq(Bytes) /\ Len(partial) \in Nat
      /\ \A k \in 1..Len(partial) : partial[k][2] = progress + k
  BY DEF IInv, Kinds, PartialFollows
<1>2. /\ got' \in Seq(Bytes) /\ progress' = Len(got')
      /\ progress' = progress + Len(partial) /\ progress' \in Nat
      /\ InPlace'
      /\ \A v : (/\ \A j \in 1..Len(got) : got[j][1] = v
                 /\ \A j \in 1..Len(partial) : partial[j][1] = v)
                => \A j \in 1..Len(got') : got'[j][1] = v
  <2>1. Returned(partial)
    BY DEF ResetFails
  <2> QED BY <1>1, <2>1, ReturnedFollows DEF IInv
<1>3. /\ pc' = "failed" /\ partial' = <<>> /\ size' = size /\ version' = version
      /\ ranges' = ranges /\ limit' = limit /\ served' = served /\ left' = left
      /\ quota' = quota /\ retries' = retries /\ unprobed' = unprobed /\ bound' = bound
  BY DEF ResetFails, server, bound
<1>4. served # {} /\ left = <<>>
  BY DEF IInv, OneSource, Started, ResetFails
<1>5. Kinds'
  BY <1>2, <1>3 DEF IInv, Kinds
<1>6. Counted' /\ Started' /\ LeftFollows' /\ PartialFollows'
  BY <1>2, <1>3, <1>4 DEF IInv, Counted, Started, LeftFollows, PartialFollows
<1>7. OneSource'
  <2>1. ASSUME NEW v \in 1..MaxVersion, served = {v}
        PROVE  /\ \A k \in 1..Len(got) : got[k][1] = v
               /\ \A k \in 1..Len(partial) : partial[k][1] = v
               /\ progress + Len(partial) <= size[v]
    BY <2>1 DEF IInv, OneSource
  <2>2. progress' + Len(partial') = progress + Len(partial)
    BY <1>2, <1>3
  <2>3. ASSUME NEW v \in 1..MaxVersion, served = {v}
        PROVE  /\ \A j \in 1..Len(got') : got'[j][1] = v
               /\ \A j \in 1..Len(left') : left'[j][1] = v
               /\ \A j \in 1..Len(partial') : partial'[j][1] = v
               /\ progress' + Len(partial') <= size[v]
    <3>1. \A j \in 1..Len(got') : got'[j][1] = v
      BY <1>2, <2>1, <2>3
    <3>2. progress' + Len(partial') <= size[v]
      BY <2>1, <2>2, <2>3
    <3> QED BY <1>3, <1>4, <3>1, <3>2
  <2> QED
    BY <1>3, <1>4, <2>3 DEF OneSource
<1>8. Accounted'
  <2>1. progress' + Len(<<>>) = progress'
    BY <1>2
  <2> QED BY <1>2, <1>3, <2>1 DEF IInv, Accounted
<1> QED
  BY <1>2, <1>5, <1>6, <1>7, <1>8 DEF IInv

-----------------------------------------------------------------------------
(* The theorems.                                                           *)

\* Every step keeps the invariant.
LEMMA NextKeeps == IInv /\ [Next]_vars => IInv'
<1> SUFFICES ASSUME IInv, [Next]_vars PROVE IInv'
  OBVIOUS
<1>1. CASE UNCHANGED vars
  BY <1>1, StutterKeeps
<1>2. CASE Replace
  BY <1>2, ReplaceKeeps
<1>3. CASE RoundTrip \/ RoundTripFails \/ Read \/ ReadEOF \/ ProbeFails
  BY <1>3, RoundTripKeeps, RoundTripFailsKeeps, ReadKeeps, ReadEOFKeeps, ProbeFailsKeeps
<1>4. CASE LimitExceeded \/ Reset \/ ResetUnanswered \/ ResetFails
  BY <1>4, LimitExceededKeeps, ResetKeeps, ResetUnansweredKeeps, ResetFailsKeeps
<1>5. ASSUME NEW k \in 0..MaxBuf, ReadData(k) \/ ReadBreaks(k)
      PROVE  IInv'
  <2>1. k \in Nat
    OBVIOUS
  <2> QED BY <1>5, <2>1, ReadDataKeeps, ReadBreaksKeeps
<1> QED
  BY <1>1, <1>2, <1>3, <1>4, <1>5 DEF Next, Step

\* The invariant holds throughout.
LEMMA Invariance == Spec => []IInv
  BY InitEstablishes, NextKeeps, PTL DEF Spec

\* The counters stay in their ranges: the bytes counted are the bytes returned,
\* a body is reset at most twice in one Read, and the limited reader never has
\* less than nothing left.
THEOREM TypeCorrect == Spec => []TypeOK
<1>1. IInv => TypeOK
  BY BoundType DEF IInv, Kinds, Counted, TypeOK, attempts
<1> QED
  BY <1>1, Invariance, PTL

\* However a download was broken and resumed, byte k of what the caller has been
\* given is byte k of a version of the file.
THEOREM BytesInPlace == Spec => []InPlace
<1>1. IInv => InPlace
  BY DEF IInv
<1> QED
  BY <1>1, Invariance, PTL

\* If one version answered every request and the look beyond the limit worked,
\* a Read that reports the end has returned the whole file.
THEOREM EndIsTheEnd == Spec => []EofIsWhole
<1>1. IInv => EofIsWhole
  <2> SUFFICES ASSUME IInv, NEW v \in 1..MaxVersion, pc = "eof", served = {v}, ~unprobed
               PROVE  got = File(v)
    BY DEF EofIsWhole
  <2>1. size[v] \in Nat /\ got \in Seq(Bytes) /\ Len(got) = size[v]
    BY DEF IInv, Kinds, Counted, OneSource
  <2>2. ASSUME NEW k \in 1..size[v] PROVE got[k] = <<v, k>>
    <3>1. got[k] \in Bytes
      BY <2>1
    <3>2. got[k][1] = v /\ got[k][2] = k
      BY <2>1 DEF IInv, OneSource, InPlace
    <3> QED BY <3>1, <3>2 DEF Bytes
  <2>3. got = [k \in 1..size[v] |-> got[k]]
    BY <2>1
  <2> QED
    BY <2>2, <2>3 DEF File
<1> QED
  BY <1>1, Invariance, PTL

\* A caller never gets more than the limit from a server that does not honour
\* ranges, however often the download is resumed.
THEOREM LimitIsKept == Spec => []LimitHolds
<1>1. IInv => LimitHolds
  BY BoundType DEF IInv, Kinds, Counted, Accounted, LimitHolds
<1> QED
  BY <1>1, Invariance, PTL
=============================================================================
