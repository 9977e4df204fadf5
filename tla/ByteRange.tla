----------------------------- MODULE ByteRange -----------------------------
(***************************************************************************)
(* Range requests: the parser of internal/mirror/range.go, what the four   *)
(* places that answer from a known size make of it, and the S3 request of  *)
(* tryPackageGet.                                                          *)
(*                                                                         *)
(* A Range header is what rangeRE takes it apart into: two numbers, either *)
(* of which may be missing.  A position is the offset of a byte.           *)
(***************************************************************************)
EXTENDS Integers, FiniteSets

CONSTANTS
    Sizes,      \* lengths of the objects
    Numbers,    \* the numbers clients write in Range headers
    MaxInt      \* the largest number strconv.ParseInt(_, 10, 64) accepts

Missing == -1
ASSUME NumbersAssumption == Sizes \subseteq Nat /\ Numbers \subseteq Nat
ASSUME MaxIntAssumption  == MaxInt \in Nat /\ \A size \in Sizes : size <= MaxInt

(* No header, several ranges, a header rangeRE does not match, or a match. *)
Headers == [form : {"none", "list", "unmatched"}, first : {Missing}, last : {Missing}]
           \cup [form : {"range"}, first : Numbers \cup {Missing}, last : Numbers \cup {Missing}]

NoHeader == [form |-> "none", first |-> Missing, last |-> Missing]
From(n)  == [form |-> "range", first |-> n, last |-> Missing]

-----------------------------------------------------------------------------
(* parseBytesRange.                                                        *)

IsSuffix(h) == h.first = Missing

(* What the parser calls invalid before it looks at the size.              *)
Malformed(h) ==
    \/ h.form = "unmatched"
    \/ h.first = Missing /\ h.last = Missing
    \/ h.first > MaxInt \/ h.last > MaxInt
    \/ IsSuffix(h) /\ h.last = 0

Start(h, size) ==
    IF ~IsSuffix(h) THEN h.first ELSE IF h.last >= size THEN 0 ELSE size - h.last
(* Mutant: an end past the object is not clipped.                          *)
EndUnclipped(h, size) ==
    IF IsSuffix(h) \/ h.last = Missing THEN size - 1 ELSE h.last
End(h, size) ==
    IF IsSuffix(h) \/ h.last = Missing \/ h.last >= size THEN size - 1 ELSE h.last

(* Mutant: a range of one byte counts as ending before it starts.          *)
IgnoresSingleByte(h, size) ==
    \/ h.form \in {"none", "list"}
    \/ Malformed(h)
    \/ size # 0 /\ Start(h, size) < size /\ Start(h, size) >= End(h, size)
Ignores(h, size) ==
    \/ h.form \in {"none", "list"}
    \/ Malformed(h)
    \/ size # 0 /\ Start(h, size) < size /\ Start(h, size) > End(h, size)

(* Mutants: off by one at the end of the object, either way.               *)
RefusesLastByte(h, size) ==
    /\ h.form \notin {"none", "list"} /\ ~Malformed(h)
    /\ size = 0 \/ Start(h, size) >= size - 1
AcceptsTheEnd(h, size) ==
    /\ h.form \notin {"none", "list"} /\ ~Malformed(h)
    /\ size = 0 \/ Start(h, size) > size
Refuses(h, size) ==
    /\ h.form \notin {"none", "list"} /\ ~Malformed(h)
    /\ size = 0 \/ Start(h, size) >= size

Parse(h, size) ==
    IF Ignores(h, size) THEN [verdict |-> "full", start |-> -1, end |-> -1]
    ELSE IF Refuses(h, size) THEN [verdict |-> "unsatisfiable", start |-> 0, end |-> 0]
    ELSE [verdict |-> "part", start |-> Start(h, size), end |-> End(h, size)]

(* The meaning of a header, as HTTP defines it: the positions it selects.  *)
Selected(h, size) ==
    IF h.form # "range" THEN {}
    ELSE {i \in 0 .. size - 1 :
            IF IsSuffix(h) THEN h.last # Missing /\ i >= size - h.last
            ELSE i >= h.first /\ (h.last = Missing \/ i <= h.last)}

-----------------------------------------------------------------------------
(* The responses.                                                          *)

Whole(size)   == 0 .. size - 1
Full(size)    == [status |-> 200, length |-> size, positions |-> Whole(size)]
Refused       == [status |-> 416, length |-> 0, positions |-> {}]
Part(from, to) == [status |-> 206, length |-> to - from + 1, positions |-> from .. to]

(* tryDisk, serveFromSpool and headResponseS3.                             *)
Answer(h, size) ==
    LET p == Parse(h, size) IN
    CASE p.verdict = "unsatisfiable" -> Refused
      [] p.verdict = "part"          -> Part(p.start, p.end)
      [] p.verdict = "full"          -> Full(size)

(* streamS3 refuses any Range header, good or bad, for an empty object.    *)
StreamAnswer(h, size) ==
    IF size = 0 /\ h.form # "none" THEN Refused ELSE Answer(h, size)

(* S3's own reading of the header tryPackageGet passes on: one it cannot   *)
(* read, or that ends before it starts, is ignored.                        *)
S3Answer(h, size) ==
    IF \/ h.form # "range" \/ (h.first = Missing /\ h.last = Missing)
       \/ h.last # Missing /\ h.last < h.first
    THEN Full(size)
    ELSE IF Selected(h, size) = {} THEN Refused
    ELSE Part(Start(h, size), End(h, size))

(* tryPackageGet drops a list of ranges and passes any other header on.    *)
PackageAnswer(h, size) ==
    S3Answer(IF h.form = "list" THEN NoHeader ELSE h, size)

Tiers == {"disk", "spool", "head", "stream", "package"}

Respond(tier, h, size) ==
    CASE tier = "stream"  -> StreamAnswer(h, size)
      [] tier = "package" -> PackageAnswer(h, size)
      [] OTHER            -> Answer(h, size)
=============================================================================
