------------------------------ MODULE Download ------------------------------
(***************************************************************************)
(* A package or an index being downloaded: the body that resumes with a    *)
(* Range request when a read fails (pkg/apk/apk/transport.go), over the    *)
(* size limit of each HTTP response (limited_transport.go, pkg/limitio),   *)
(* over a connection that may break anywhere and a server that may honour  *)
(* ranges or not and may replace the file in between. Byte k of version v  *)
(* of the file is <<v, k>>.                                                *)
(***************************************************************************)
EXTENDS Integers, Sequences

CONSTANTS
  MaxVersion,  \* versions of the file
  MaxSize,     \* longest file
  MaxBuf,      \* longest buffer the caller reads into
  Limits,      \* limits to check, -1 for none and 0 for the default
  DefaultLimit \* DefaultHTTPResponseSize

ASSUME BoundsAssumption ==
  /\ {MaxVersion, MaxSize, MaxBuf, DefaultLimit} \subseteq Nat \ {0}
  /\ Limits \subseteq Nat \cup {-1}

VARIABLES
  size,      \* size of each version of the file
  version,   \* the version the server has
  ranges,    \* whether the server honours Range
  limit,     \* HTTPResponseMaxSize
  offline,   \* whether requests are blocked
  pc,        \* "start", "reading", "in" (Read), "reset", "eof", "failed"
  served,    \* the versions that answered a request
  left,      \* bytes the connection still has for the current response
  quota,     \* io.LimitedReader.N of that response
  progress,  \* bytes returned to the caller before this Read
  partial,   \* bytes the last failed read of this Read had put into the buffer
  retries,   \* reads of the body this Read may still repeat
  got,       \* all bytes the caller has been given
  unprobed   \* whether the read that looks beyond the limit failed

vars == <<size, version, ranges, limit, offline, pc, served, left, quota, progress,
          partial, retries, got, unprobed>>
server == <<size, ranges, limit, offline>>

File(v) == [k \in 1..size[v] |-> <<v, k>>]

Upto(seq, n) == SubSeq(seq, 1, IF n < Len(seq) THEN n ELSE Len(seq))
From(seq, n) == SubSeq(seq, n + 1, Len(seq))

\* NewLimitedReaderWithDefault
bound == IF limit = 0 THEN DefaultLimit ELSE limit

Init ==
  /\ size \in [1..MaxVersion -> 0..MaxSize] /\ version = 1
  /\ ranges \in BOOLEAN /\ limit \in Limits /\ offline \in BOOLEAN
  /\ pc = "start" /\ served = {} /\ left = <<>> /\ quota = 0
  /\ progress = 0 /\ partial = <<>> /\ retries = 0 /\ got = <<>> /\ unprobed = FALSE

\* The file is replaced on the server.
Replace ==
  /\ version < MaxVersion /\ version' = version + 1
  /\ UNCHANGED <<server, pc, served, left, quota, progress, partial, retries, got, unprobed>>

\* A response, its limit counted from its first byte.
Respond(bytes, n) ==
  /\ left' = bytes /\ quota' = n
  /\ served' = served \cup {version}

\* rangeRetryTransport.RoundTrip: the first request, without a Range.
RoundTrip ==
  /\ pc = "start" /\ ~offline
  /\ Respond(File(version), bound)
  /\ pc' = "reading"
  /\ UNCHANGED <<server, version, progress, partial, retries, got, unprobed>>

\* No connection, a status that is no success, or offlineTransport.
RoundTripFails ==
  /\ pc = "start" /\ pc' = "failed"
  /\ UNCHANGED <<server, version, served, left, quota, progress, partial, retries, got, unprobed>>

-----------------------------------------------------------------------------
(* Read: the body is read, and reset at most twice.                        *)

\* for _, retry := range []bool{true, true, false}
attempts == 2

Read ==
  /\ pc = "reading"
  /\ pc' = "in" /\ retries' = attempts /\ partial' = <<>>
  /\ UNCHANGED <<server, version, served, left, quota, progress, got, unprobed>>

\* Bytes one read of the body may bring: no more than the limit leaves.
Readable(k) ==
  /\ k <= Len(left)
  /\ bound = -1 \/ k <= quota

Take(k) ==
  /\ left' = From(left, k)
  /\ quota' = IF bound = -1 THEN quota ELSE quota - k

\* Read returns n bytes, with or without an error; the deferred function counts
\* them.
Returned(bytes) == got' = got \o bytes /\ progress' = progress + Len(bytes)

ReadData(k) ==
  /\ pc = "in" /\ Readable(k) /\ k > 0
  /\ Take(k) /\ Returned(Upto(left, k))
  /\ pc' = "reading"
  /\ UNCHANGED <<server, version, served, partial, retries, unprobed>>

\* The limit: at zero, io.LimitedReader reports the end, and one more byte is
\* asked for.
AtLimit == bound # -1 /\ quota <= 0

ReadEOF ==
  /\ pc = "in" /\ left = <<>>
  /\ pc' = "eof"
  /\ UNCHANGED <<server, version, served, left, quota, progress, partial, retries, got, unprobed>>

\* Faulty variant of ProbeFails: the end is reported without a look beyond.
BugProbeFails ==
  /\ pc = "in" /\ AtLimit
  /\ pc' = "eof"
  /\ UNCHANGED <<server, version, served, left, quota, progress, partial, retries, got, unprobed>>

\* The error of that extra read is dropped, and the end reported.
ProbeFails ==
  /\ pc = "in" /\ AtLimit
  /\ pc' = "eof" /\ unprobed' = TRUE
  /\ UNCHANGED <<server, version, served, left, quota, progress, partial, retries, got>>

\* Faulty variant of Fewer: a read that fails is repeated without end.
BugFewer(n) == n

Fewer(n) == n - 1

\* A read of the body that fails, with the k bytes it read before: repeated
\* after a reset, or returned.
FailedRead(k) ==
  /\ left' = <<>> /\ quota' = quota
  /\ IF retries # 0
     THEN /\ pc' = "reset" /\ partial' = Upto(left, k)
          /\ retries' = Fewer(retries)
          /\ UNCHANGED <<progress, got>>
     ELSE /\ pc' = "failed" /\ partial' = <<>> /\ Returned(Upto(left, k))
          /\ UNCHANGED retries
  /\ UNCHANGED <<server, version, served, unprobed>>

ReadBreaks(k) == pc = "in" /\ ~AtLimit /\ Readable(k) /\ FailedRead(k)

\* SizeLimitExceededError is an error like others to rangeRetryReader.
LimitExceeded == pc = "in" /\ AtLimit /\ left # <<>> /\ FailedRead(0)

\* Faulty variant of Skipped: nothing is discarded of a whole answer.
BugSkipped(bytes) == bytes

\* A server that does not honour ranges sends it all again, and what the caller
\* already has is discarded.
Skipped(bytes) == From(bytes, progress)

\* Faulty variant of Remaining: what is discarded does not count.
BugRemaining == bound

\* What is discarded counts against the limit of the new response.
Remaining == bound - progress

Resumable ==
  IF ranges THEN progress < size[version] \/ progress = 0
  ELSE progress <= size[version] /\ (bound = -1 \/ progress <= bound)

Reset ==
  /\ pc = "reset" /\ Resumable
  /\ IF ranges \/ progress = 0
     THEN Respond(From(File(version), progress), bound)
     ELSE Respond(Skipped(File(version)), Remaining)
  /\ pc' = "in" /\ partial' = <<>>
  /\ UNCHANGED <<server, version, progress, retries, got, unprobed>>

\* No connection, 416, a shorter file: the bytes of the failed read are
\* returned with the error.
ResetFails ==
  /\ pc = "reset"
  /\ pc' = "failed" /\ Returned(partial) /\ partial' = <<>>
  /\ UNCHANGED <<server, version, served, left, quota, retries, unprobed>>

\* The failed read had used up the limit of its response, without an error of
\* the limit itself.
Spent == bound # -1 /\ quota > 0 /\ Len(partial) = quota

\* A redirect or an answer without a body is no error, but it leaves the body
\* that was closed: the next read fails without a byte, or, when the limit is
\* used up, is taken for the end.
ResetUnanswered ==
  /\ pc = "reset"
  /\ IF Spent
     THEN /\ pc' = "eof" /\ unprobed' = TRUE /\ partial' = <<>>
          /\ UNCHANGED <<server, version, served, left, quota, progress, retries, got>>
     ELSE FailedRead(0)

Step ==
  \/ RoundTrip \/ RoundTripFails \/ Read \/ ReadEOF \/ ProbeFails \/ LimitExceeded
  \/ \E k \in 0..MaxBuf : ReadData(k) \/ ReadBreaks(k)
  \/ Reset \/ ResetUnanswered \/ ResetFails

Next == Step \/ Replace

\* The caller reads to the end or the first error, and the network answers or
\* fails.
Spec == Init /\ [][Next]_vars /\ WF_vars(Step)

-----------------------------------------------------------------------------
(* Properties.                                                             *)

TypeOK ==
  /\ version \in 1..MaxVersion /\ served \subseteq 1..MaxVersion
  /\ pc \in {"start", "reading", "in", "reset", "eof", "failed"}
  /\ progress = Len(got) /\ retries \in 0..attempts
  /\ bound # -1 => quota \in 0..bound

\* However often it was resumed, and whoever answered, no byte of a download is
\* lost, doubled or shifted: what is returned with an error included.
InPlace == \A k \in 1..Len(got) : got[k][2] = k

\* A download that ends without an error is the whole file, if one version
\* answered all requests and the read beyond the limit did not fail (its error
\* is dropped, limitio.go:75).
EofIsWhole ==
  \A v \in 1..MaxVersion :
    pc = "eof" /\ served = {v} /\ ~unprobed => got = File(v)

\* The size limit bounds a download from a server that does not honour ranges
\* (each resumed response has a limit of its own), and one that was never
\* resumed.
LimitHolds == bound # -1 /\ Len(got) > bound => ranges

\* Every download ends: with the file or with an error.
DownloadEnds == <>(pc \in {"eof", "failed"})
=============================================================================
