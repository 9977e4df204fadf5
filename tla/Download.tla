------------------------------ MODULE Download ------------------------------
(***************************************************************************)
(* One client downloads one object, piece by piece, from whichever tier    *)
(* holds it: tryDisk, tryPackageGet, streamS3 and serveFromSpool of        *)
(* internal/mirror, with copyBuf.                                          *)
(*                                                                         *)
(* A whole body that comes from S3 is teed: what the handler reads from S3 *)
(* goes through an io.Pipe to the goroutine that writes the disk cache     *)
(* (populateDisk and Cache.PutReader) before it goes to the client.  The   *)
(* pipe has no buffer, so the handler waits for the goroutine, which waits *)
(* for the handler; and once the goroutine has closed its end, the handler *)
(* cannot write any more, and copies nothing further to the client.        *)
(*                                                                         *)
(* A body is the positions it consists of, in order; it is sent in blocks. *)
(***************************************************************************)
EXTENDS ByteRange

CONSTANTS
    Caches,     \* {TRUE}: LOCAL_CACHE_BYTES # 0; {FALSE}: it is 0; or both
    MaxBlock,   \* bound: bytes read from a body at a time
    MaxFaults   \* bound: failures of S3, of the client and of the disk

ASSUME TransferAssumption ==
    Caches \subseteq BOOLEAN /\ MaxBlock \in Nat \ {0} /\ MaxFaults \in Nat

VARIABLES
    size,       \* the object's length, chosen once
    enabled,    \* the disk cache is on, chosen once
    file,       \* the length of the file in the disk cache; 0: none
    have,       \* the client holds positions 0 .. have - 1
    complete,   \* the client has concluded that it holds the object
    last,       \* the last request and what the handler answers
    handler,    \* where the handler is
    sent,       \* bytes of the body the client has been sent
    block,      \* bytes read from the body and not yet sent
    taken,      \* how many of them the pipe's reader has taken
    populate,   \* where the populate goroutine is; "gone": its end of the pipe is closed
    got,        \* bytes it has written to its temporary file
    faults,     \* failures so far
    lost        \* what failed during this response

chosen    == <<size, enabled>>
client    == <<have, complete, last>>
transfer  == <<handler, sent, block, taken>>
goroutine == <<populate, got>>
vars      == <<chosen, file, client, transfer, goroutine, faults, lost>>

Nothing   == [tier |-> "spool", header |-> NoHeader, response |-> Full(size)]

Failures  == {"body", "client", "cache"}

Init ==
    /\ size \in Sizes
    /\ enabled \in Caches
    /\ file \in {0, size} /\ (file = 0 \/ enabled)
    /\ have = 0
    /\ complete = FALSE
    /\ last = Nothing
    /\ handler = "idle"
    /\ sent = 0 /\ block = 0 /\ taken = 0
    /\ populate = "gone" /\ got = 0
    /\ faults = 0 /\ lost = {}

-----------------------------------------------------------------------------
(* The disk answers for its file, the others for the object.               *)
LengthAt(tier) == IF tier = "disk" THEN file ELSE size

(* The bytes of a response; a HEAD has none.                               *)
BodyLength(answer) == IF answer.tier = "head" THEN 0 ELSE answer.response.length

(* streamS3 tees every whole body, tryPackageGet one that it asked S3 for  *)
(* without a Range header.                                                 *)
Teed(answer) ==
    /\ answer.response.status = 200 /\ answer.response.length > 0
    /\ \/ answer.tier = "stream"
       \/ answer.tier = "package" /\ answer.header.form \in {"none", "list"}

(* The client asks for the object, for the rest of it or for anything else.*)
Ask(tier, h) ==
    LET answer == [tier |-> tier, header |-> h, response |-> Respond(tier, h, LengthAt(tier))] IN
    /\ handler = "idle" /\ populate = "gone"
    /\ tier = "disk" => file # 0
    /\ last' = answer
    /\ handler' = IF BodyLength(answer) = 0 THEN "close" ELSE "read"
    /\ populate' = IF Teed(answer) THEN "start" ELSE "gone"
    /\ UNCHANGED <<chosen, file, have, complete, sent, block, taken, got, faults, lost>>

-----------------------------------------------------------------------------
(* copyBuf, from the body through the tee to the client.                   *)

ReadBody(n) ==
    /\ handler = "read"
    /\ n <= BodyLength(last) - sent
    /\ block' = n /\ taken' = 0
    /\ handler' = IF Teed(last) THEN "tee" ELSE "write"
    /\ UNCHANGED <<chosen, file, client, sent, goroutine, faults, lost>>

EndOfBody ==
    /\ handler = "read" /\ sent = BodyLength(last)
    /\ handler' = "close"
    /\ UNCHANGED <<chosen, file, client, sent, block, taken, goroutine, faults, lost>>

Fails(what) ==
    /\ faults < MaxFaults
    /\ faults' = faults + 1
    /\ lost' = lost \cup {what}

(* S3 (or the file) stops before the end.                                  *)
BodyBreaks ==
    /\ handler = "read" /\ Fails("body")
    /\ handler' = "close"
    /\ UNCHANGED <<chosen, file, client, sent, block, taken, goroutine>>

ReaderClosed == populate = "gone"

(* Mutants: the write is over when a part was taken; one that finds the    *)
(* pipe closed is tried again.                                             *)
TeeWrittenPartly ==
    /\ handler = "tee" /\ taken > 0
    /\ handler' = "write"
    /\ UNCHANGED <<chosen, file, client, sent, block, taken, goroutine, faults, lost>>
TeeBrokenRetries ==
    /\ handler = "tee" /\ taken < block /\ ReaderClosed
    /\ handler' = "read" /\ block' = 0 /\ taken' = 0
    /\ UNCHANGED <<chosen, file, client, sent, goroutine, faults, lost>>

(* PipeWriter.Write: returns when the reader has taken the whole block, or *)
(* has closed.  Then only what it took is still sent.                      *)
TeeWritten ==
    /\ handler = "tee" /\ taken = block
    /\ handler' = "write"
    /\ UNCHANGED <<chosen, file, client, sent, block, taken, goroutine, faults, lost>>

TeeBroken ==
    /\ handler = "tee" /\ taken < block /\ ReaderClosed
    /\ handler' = "lastwrite"
    /\ block' = taken
    /\ UNCHANGED <<chosen, file, client, sent, taken, goroutine, faults, lost>>

WriteClient ==
    /\ handler \in {"write", "lastwrite"}
    /\ handler' = IF handler = "write" THEN "read" ELSE "close"
    /\ sent' = sent + block /\ block' = 0 /\ taken' = 0
    /\ UNCHANGED <<chosen, file, client, goroutine, faults, lost>>

ClientLeaves ==
    /\ handler \in {"write", "lastwrite"} /\ Fails("client")
    /\ handler' = "close"
    /\ UNCHANGED <<chosen, file, client, sent, block, taken, goroutine>>

(* bytes=have-, with or without an end, or all of it.                      *)
Resumes(h) == /\ h.form = "range" /\ h.first = have
              /\ h.last = Missing \/ (have <= h.last /\ h.last <= MaxInt)
Starts(h)  == h = NoHeader /\ have = 0

(* The handler and its goroutine have both returned.                       *)
Forget == last' = Nothing /\ sent' = 0 /\ block' = 0 /\ taken' = 0 /\ got' = 0 /\ lost' = {}
Keep   == UNCHANGED <<last, sent, block, taken, got, lost>>

(* pw.Close, and the handler returns.  A client that got less than was     *)
(* announced sees its connection closed, keeps what it got and asks for    *)
(* the rest; a 416 for the rest tells it that there is none.               *)
Return ==
    LET answer == last.response
        pieces == last.tier # "head" /\ (Resumes(last.header) \/ Starts(last.header))
    IN
    /\ handler = "close"
    /\ handler' = "idle"
    /\ have' = IF complete \/ ~pieces THEN have
               ELSE IF answer.status = 206 THEN have + sent
               ELSE IF answer.status = 200 THEN sent ELSE have
    /\ complete' = (\/ complete
                    \/ pieces /\ answer.status = 416
                    \/ pieces /\ answer.status = 200 /\ sent = answer.length)
    /\ IF populate = "gone" THEN Forget ELSE Keep
    /\ UNCHANGED <<chosen, file, populate, faults>>

WriterClosed == handler = "idle"

-----------------------------------------------------------------------------
(* The goroutine: populateDisk, with PutReader when the cache is on.       *)

(* Mutant: PutReader returns at once when it has the file already.         *)
StartUnlessCached ==
    /\ populate = "start"
    /\ populate' = IF enabled /\ file = 0 THEN "copy" ELSE "close"
    /\ lost' = IF enabled THEN lost ELSE lost \cup {"cache"}
    /\ UNCHANGED <<chosen, file, client, transfer, got, faults>>

PopulateStarts ==
    /\ populate = "start"
    /\ populate' = IF enabled THEN "copy" ELSE "close"
    /\ lost' = IF enabled THEN lost ELSE lost \cup {"cache"}
    /\ UNCHANGED <<chosen, file, client, transfer, got, faults>>

(* There is no space, the file cannot be created, or a write fails.        *)
PopulateFails ==
    /\ populate \in {"start", "copy"} /\ enabled /\ Fails("cache")
    /\ populate' = "close"
    /\ UNCHANGED <<chosen, file, client, transfer, got>>

(* The pipe has no buffer: the reader takes from the writer's block, no    *)
(* more than it was told to expect (io.LimitReader).                       *)
Take(n) ==
    /\ populate = "copy" /\ handler = "tee"
    /\ n <= block - taken /\ n <= BodyLength(last) - got
    /\ taken' = taken + n
    /\ got' = got + n
    /\ UNCHANGED <<chosen, file, client, handler, sent, block, populate, faults, lost>>

(* Mutant: a short body is installed.                                      *)
InstallShort ==
    /\ populate = "copy" /\ WriterClosed
    /\ file' = got
    /\ populate' = "close"
    /\ UNCHANGED <<chosen, client, transfer, got, faults, lost>>

PopulateShort ==
    /\ populate = "copy" /\ got < BodyLength(last) /\ WriterClosed
    /\ populate' = "close"
    /\ UNCHANGED <<chosen, file, client, transfer, got, faults, lost>>

(* Mutant: the temporary file is never renamed.                            *)
InstallNothing ==
    /\ populate = "copy" /\ got = BodyLength(last)
    /\ populate' = "close"
    /\ UNCHANGED <<chosen, file, client, transfer, got, faults, lost>>

Install ==
    /\ populate = "copy" /\ got = BodyLength(last)
    /\ file' = got
    /\ populate' = "close"
    /\ UNCHANGED <<chosen, client, transfer, got, faults, lost>>

(* pr.Close.                                                               *)
PopulateCloses ==
    /\ populate = "close"
    /\ populate' = "gone"
    /\ IF handler = "idle" THEN Forget ELSE Keep
    /\ UNCHANGED <<chosen, file, have, complete, handler, faults>>

(* The cache makes room for another object; an open file stays readable.   *)
Evict ==
    /\ file # 0
    /\ file' = 0
    /\ UNCHANGED <<chosen, client, transfer, goroutine, faults, lost>>

-----------------------------------------------------------------------------
(* What the client may ask: it starts over only when it has nothing.       *)
AskAnything ==
    \E tier \in Tiers, h \in Headers : (h = NoHeader => have = 0) /\ Ask(tier, h)
AskRest == ~complete /\ \E tier \in Tiers \ {"head"} : Ask(tier, From(have))

Copy ==
    \/ \E n \in 1 .. MaxBlock : ReadBody(n)
    \/ EndOfBody \/ TeeWritten \/ TeeBroken \/ WriteClient \/ Return
Fill ==
    \/ PopulateStarts \/ PopulateShort \/ Install \/ PopulateCloses
    \/ \E n \in 1 .. MaxBlock : Take(n)

Next ==
    \/ AskAnything
    \/ Copy \/ BodyBreaks \/ ClientLeaves
    \/ Fill \/ PopulateFails \/ Evict

(* Both goroutines run; the client does not for ever ask for other things. *)
Spec     == Init /\ [][Next]_vars
FairSpec == Spec /\ WF_vars(Copy) /\ WF_vars(Fill) /\ SF_vars(AskRest)

-----------------------------------------------------------------------------
TypeOK ==
    /\ size \in Sizes /\ enabled \in BOOLEAN
    /\ file \in 0 .. size /\ have \in 0 .. size /\ complete \in BOOLEAN
    /\ last \in [tier : Tiers, header : Headers,
                 response : [status : {200, 206, 416}, length : Nat, positions : SUBSET Nat]]
    /\ handler \in {"idle", "read", "tee", "write", "lastwrite", "close"}
    /\ sent \in Nat /\ block \in Nat /\ taken \in 0 .. block
    /\ populate \in {"gone", "start", "copy", "close"}
    /\ got \in Nat /\ faults \in 0 .. MaxFaults /\ lost \subseteq Failures

(* A 206 sends exactly what the header selects and announces its length; a *)
(* 200 sends the whole object; whichever tier answers (range.go:18-74).    *)
SendsSelection ==
    LET answer == last.response IN
    /\ answer.status = 206 => /\ answer.positions = Selected(last.header, size)
                              /\ answer.positions # {}
    /\ answer.status = 200 => answer.positions = Whole(size)
    /\ answer.length = Cardinality(answer.positions)

(* 416 is answered only when nothing of the object is selected, so that a  *)
(* client never takes a prefix for the whole (range.go:61-66).             *)
RefusesOnlyEmpty ==
    last.response.status = 416 => Selected(last.header, size) = {}

(* A single range that selects something is honoured with a 206, unless    *)
(* its numbers do not fit an int64.                                        *)
HonoursSelection ==
    /\ Selected(last.header, size) # {}
    /\ last.header.first <= MaxInt /\ last.header.last <= MaxInt
    => last.response.status = 206

(* Whatever breaks while a body is teed, what the goroutine installs is the*)
(* whole object, never the part that had arrived (cache.go:318-331).       *)
WarmsWhole == file \in {0, size}

(* The pieces join up: when the client is told there is no more, it holds  *)
(* every position, whichever tiers answered, and however often it was cut  *)
(* off on the way.                                                         *)
CompleteIsWhole == complete => have = size

(* Neither side of the pipe gets ahead of the other by more than the block *)
(* between them: what the client was sent, the goroutine has, and the      *)
(* goroutine has nothing that is not on its way to the client              *)
(* (handler.go:454-469, 628-642).                                          *)
PipeInStep ==
    Teed(last) /\ handler \in {"read", "tee", "write", "lastwrite"} =>
        /\ sent <= got
        /\ got = sent + (IF handler = "read" THEN 0 ELSE taken)

(* Filling the disk costs the client nothing as long as it works: a body   *)
(* that S3 sends in full reaches a client that stays in full.              *)
TeeTransparent ==
    handler = "close" /\ lost = {} => sent = BodyLength(last)

(* The handler and the goroutine never wait for each other for ever, and   *)
(* neither outlives the response (handler.go:454-469, 628-642).            *)
NothingHangs ==
    (handler # "idle" \/ populate # "gone") ~> (handler = "idle" /\ populate = "gone")

(* A body that has come through the pipe in full fills the disk cache,     *)
(* whatever becomes of the client by then (README.md:16).                  *)
Warms ==
    populate = "copy" /\ got = size ~> (file = size \/ "cache" \in lost)

(* A client that keeps asking for the rest is one day done.                *)
DownloadEnds == <>complete

(* "if the object is already in the bucket, stream it (HIT-S3) and warm the*)
(* disk cache" (README.md:16): the stream does not depend on the warming.  *)
StreamsWhole ==
    handler = "close" /\ lost \cap {"body", "client"} = {} => sent = BodyLength(last)
=============================================================================
