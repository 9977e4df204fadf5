--------------------------- MODULE DownloadProofs ---------------------------
(***************************************************************************)
(* What the range parser and the tiers answer, for objects of every length *)
(* and headers with every number; and what a client is sent and the disk   *)
(* cache is filled with, for blocks of every length and any number of      *)
(* failures.                                                               *)
(*                                                                         *)
(* The argument: the answer to the last request stays exact for the object *)
(* (EveryTierExact; the disk answers for its own file, which is whole), and*)
(* Flow relates the two ends of the pipe to it.                            *)
(***************************************************************************)
EXTENDS Download, FiniteSetTheorems, TLAPS

-----------------------------------------------------------------------------
(* The range parser and the tiers.                                         *)

Exact(answer, h, n) ==
    /\ answer.status \in {200, 206, 416}
    /\ answer.length \in Nat
    /\ answer.positions \subseteq Nat
    /\ answer.length = Cardinality(answer.positions)
    /\ answer.status = 206 => /\ answer.positions = Selected(h, n)
                              /\ answer.positions # {}
    /\ answer.status = 200 => answer.positions = Whole(n) /\ answer.length = n
    /\ answer.status = 416 => Selected(h, n) = {}
    /\ Selected(h, n) # {} /\ h.first <= MaxInt /\ h.last <= MaxInt => answer.status = 206
    (* What a client that resumes at h.first relies on.                    *)
    /\ answer.status = 206 /\ h.first # Missing => h.first + answer.length <= n
    /\ answer.status = 416 /\ h.first # Missing => h.first >= n
    /\ answer.status # 200 => h.form # "none"

LEMMA HeaderType ==
    ASSUME NEW h \in Headers
    PROVE  /\ h.form \in {"none", "list", "unmatched", "range"}
           /\ h.first \in Nat \cup {Missing} /\ h.last \in Nat \cup {Missing}
           /\ h.form # "range" => h.first = Missing /\ h.last = Missing
BY NumbersAssumption DEF Headers, Missing

(* A whole object, a part that lies in it, and a refusal are well formed.  *)
LEMMA WholeLength == ASSUME NEW n \in Nat PROVE Cardinality(Whole(n)) = n
<1>1. n - 1 \in Int OBVIOUS
<1> QED BY <1>1, FS_Interval DEF Whole

LEMMA PartLength ==
    ASSUME NEW from \in Nat, NEW to \in Nat, from <= to
    PROVE  Cardinality(from .. to) = to - from + 1
BY FS_Interval

(* A header that matches, in the terms of Start and End.                   *)
LEMMA SelectedIsInterval ==
    ASSUME NEW h \in Headers, NEW n \in Nat, h.form = "range",
           h.first # Missing \/ h.last # Missing
    PROVE  /\ Start(h, n) \in Nat /\ End(h, n) \in Int
           /\ End(h, n) <= n - 1
           /\ Selected(h, n) = Start(h, n) .. End(h, n)
           /\ h.first # Missing => Start(h, n) = h.first
<1>1. h.first \in Nat \cup {Missing} /\ h.last \in Nat \cup {Missing}
  BY HeaderType
<1>2. CASE h.first = Missing
  <2>1. h.last \in Nat BY <1>1, <1>2
  <2> QED BY <1>2, <2>1 DEF Selected, Start, End, IsSuffix, Missing
<1>3. CASE h.first # Missing
  <2>1. h.first \in Nat BY <1>1, <1>3
  <2>2. CASE h.last = Missing
    BY <1>3, <2>1, <2>2 DEF Selected, Start, End, IsSuffix, Missing
  <2>3. CASE h.last # Missing
    <3>1. h.last \in Nat BY <1>1, <2>3
    <3> QED BY <1>3, <2>1, <2>3, <3>1 DEF Selected, Start, End, IsSuffix, Missing
  <2> QED BY <2>2, <2>3
<1> QED BY <1>2, <1>3

(* The parser of range.go selects what the header means: for every length  *)
(* and header, a part is a non-empty selection that lies in the object, a  *)
(* refusal means that nothing is selected, and a selection is only ignored *)
(* when a number overflows (range.go:18-74).                               *)
THEOREM ParserExact ==
    ASSUME NEW h \in Headers, NEW n \in Nat
    PROVE  LET p == Parse(h, n) IN
           /\ p.verdict \in {"full", "part", "unsatisfiable"}
           /\ p.verdict = "part" =>
                /\ p.start \in Nat /\ p.end \in Nat /\ p.start <= p.end /\ p.end < n
                /\ p.start .. p.end = Selected(h, n)
                /\ h.first # Missing => p.start = h.first
           /\ p.verdict = "unsatisfiable" =>
                /\ Selected(h, n) = {} /\ h.form = "range"
                /\ h.first # Missing => h.first >= n
           /\ p.verdict = "full" /\ h.first <= MaxInt /\ h.last <= MaxInt => Selected(h, n) = {}
<1> DEFINE p == Parse(h, n)
<1>1. CASE h.form # "range"
  <2>1. Selected(h, n) = {} BY <1>1 DEF Selected
  <2>2. Ignores(h, n) BY <1>1, HeaderType DEF Ignores, Malformed
  <2>3. p.verdict = "full" BY <2>2 DEF Parse
  <2> QED BY <2>1, <2>3
<1>2. CASE h.form = "range" /\ h.first = Missing /\ h.last = Missing
  <2>1. Selected(h, n) = {} BY <1>2 DEF Selected, IsSuffix
  <2>2. p.verdict = "full" BY <1>2 DEF Parse, Ignores, Malformed
  <2> QED BY <2>1, <2>2
<1>3. CASE h.form = "range" /\ (h.first # Missing \/ h.last # Missing)
  <2> DEFINE s == Start(h, n)
             e == End(h, n)
  <2>1. /\ s \in Nat /\ e \in Int /\ e <= n - 1
        /\ Selected(h, n) = s .. e
        /\ h.first # Missing => s = h.first
    BY <1>3, SelectedIsInterval
  <2> HIDE DEF s, e
  <2>2. CASE Ignores(h, n)
    <3>1. p.verdict = "full" BY <2>2 DEF Parse
    <3>2. ASSUME h.first <= MaxInt, h.last <= MaxInt
          PROVE  Selected(h, n) = {}
      <4>1. CASE IsSuffix(h) /\ h.last = 0
        BY <4>1 DEF Selected
      <4>2. CASE s > e
        BY <2>1, <4>2
      <4>3. (IsSuffix(h) /\ h.last = 0) \/ s > e
        <5>1. ~(h.first > MaxInt) /\ ~(h.last > MaxInt)
          BY <3>2, HeaderType, MaxIntAssumption DEF Missing
        <5> QED BY <1>3, <2>2, <5>1 DEF Ignores, Malformed, s, e
      <4> QED BY <4>1, <4>2, <4>3
    <3> QED BY <3>1, <3>2
  <2>3. CASE ~Ignores(h, n) /\ Refuses(h, n)
    <3>1. p.verdict = "unsatisfiable" BY <2>3 DEF Parse
    <3>2. n = 0 \/ s >= n BY <2>3 DEF Refuses, s
    <3>3. s > e BY <2>1, <3>2
    <3>4. h.first # Missing => h.first >= n BY <2>1, <3>2
    <3> QED BY <1>3, <2>1, <3>1, <3>3, <3>4
  <2>4. CASE ~Ignores(h, n) /\ ~Refuses(h, n)
    <3>1. p = [verdict |-> "part", start |-> s, end |-> e]
      BY <2>4 DEF Parse, s, e
    <3>2. n # 0 /\ s < n /\ s <= e
      BY <1>3, <2>1, <2>4 DEF Ignores, Refuses, s, e
    <3> QED BY <2>1, <3>1, <3>2
  <2> QED BY <2>2, <2>3, <2>4
<1> QED BY <1>1, <1>2, <1>3, HeaderType

LEMMA FullExact ==
    ASSUME NEW h \in Headers, NEW n \in Nat,
           h.first <= MaxInt /\ h.last <= MaxInt => Selected(h, n) = {}
    PROVE  Exact(Full(n), h, n)
BY WholeLength DEF Exact, Full, Whole

LEMMA RefusedExact ==
    ASSUME NEW h \in Headers, NEW n \in Nat, Selected(h, n) = {},
           h.first # Missing => h.first >= n, h.form # "none"
    PROVE  Exact(Refused, h, n)
BY FS_EmptySet DEF Exact, Refused

LEMMA PartExact ==
    ASSUME NEW h \in Headers, NEW n \in Nat, NEW from \in Nat, NEW to \in Nat,
           from <= to, to < n, Selected(h, n) = from .. to,
           h.first # Missing => from = h.first
    PROVE  Exact(Part(from, to), h, n)
<1>1. /\ to - from + 1 \in Nat
      /\ from .. to # {}
      /\ from .. to \subseteq Nat
  <2>1. to - from + 1 \in Nat OBVIOUS
  <2>2. from \in from .. to OBVIOUS
  <2>3. from .. to \subseteq Nat OBVIOUS
  <2> QED BY <2>1, <2>2, <2>3
<1>2. h.first # Missing => h.first + (to - from + 1) <= n
  OBVIOUS
<1>3. h.form # "none" BY <1>1 DEF Selected
<1> QED BY <1>1, <1>2, <1>3, PartLength DEF Exact, Part

LEMMA AnswerExact ==
    ASSUME NEW h \in Headers, NEW n \in Nat
    PROVE  Exact(Answer(h, n), h, n)
<1> DEFINE p == Parse(h, n)
<1>1. CASE p.verdict = "full"
  <2>1. Answer(h, n) = Full(n) BY <1>1 DEF Answer
  <2> QED BY <1>1, <2>1, ParserExact, FullExact
<1>2. CASE p.verdict = "unsatisfiable"
  <2>1. Answer(h, n) = Refused BY <1>2 DEF Answer
  <2> QED BY <1>2, <2>1, ParserExact, RefusedExact
<1>3. CASE p.verdict = "part"
  <2>1. Answer(h, n) = Part(p.start, p.end) BY <1>3 DEF Answer
  <2> HIDE DEF p
  <2>2. /\ p.start \in Nat /\ p.end \in Nat /\ p.start <= p.end /\ p.end < n
        /\ Selected(h, n) = p.start .. p.end
        /\ h.first # Missing => p.start = h.first
    BY <1>3, ParserExact DEF p
  <2>3. Exact(Part(p.start, p.end), h, n) BY <2>2, PartExact
  <2> QED BY <2>1, <2>3
<1> QED BY <1>1, <1>2, <1>3, ParserExact

LEMMA StreamExact ==
    ASSUME NEW h \in Headers, NEW n \in Nat
    PROVE  Exact(StreamAnswer(h, n), h, n)
<1>1. CASE n = 0 /\ h.form # "none"
  <2>1. Selected(h, n) = {} BY <1>1 DEF Selected
  <2>2. h.first # Missing => h.first >= n BY <1>1, HeaderType
  <2> QED BY <1>1, <2>1, <2>2, RefusedExact DEF StreamAnswer
<1>2. CASE ~(n = 0 /\ h.form # "none")
  BY <1>2, AnswerExact DEF StreamAnswer
<1> QED BY <1>1, <1>2

LEMMA S3Exact ==
    ASSUME NEW h \in Headers, NEW n \in Nat
    PROVE  Exact(S3Answer(h, n), h, n)
<1>0. h.first \in Nat \cup {Missing} /\ h.last \in Nat \cup {Missing}
  BY HeaderType
<1>1. CASE h.form # "range" \/ (h.first = Missing /\ h.last = Missing)
  <2>1. Selected(h, n) = {} BY <1>1 DEF Selected, IsSuffix
  <2> QED BY <1>1, <2>1, FullExact DEF S3Answer
<1>2. CASE h.form = "range" /\ h.last # Missing /\ h.last < h.first
  <2>1. h.first # Missing BY <1>0, <1>2 DEF Missing
  <2>2. Selected(h, n) = {}
    BY <1>0, <1>2, <2>1 DEF Selected, IsSuffix, Missing
  <2> QED BY <1>2, <2>2, FullExact DEF S3Answer
<1>3. CASE /\ h.form = "range" /\ (h.first # Missing \/ h.last # Missing)
           /\ ~(h.last # Missing /\ h.last < h.first)
  <2> DEFINE s == Start(h, n)
             e == End(h, n)
  <2>1. /\ s \in Nat /\ e \in Int /\ e <= n - 1
        /\ Selected(h, n) = s .. e
        /\ h.first # Missing => s = h.first
    BY <1>3, SelectedIsInterval
  <2>2. CASE Selected(h, n) = {}
    <3>1. S3Answer(h, n) = Refused BY <1>3, <2>2 DEF S3Answer
    <3>2. ASSUME h.first # Missing PROVE h.first >= n
      BY <1>0, <1>3, <2>1, <2>2, <3>2 DEF Start, End, IsSuffix, Missing
    <3> QED BY <1>3, <2>2, <3>1, <3>2, RefusedExact
  <2>3. CASE Selected(h, n) # {}
    <3>1. S3Answer(h, n) = Part(s, e) BY <1>3, <2>3 DEF S3Answer
    <3>2. e \in Nat /\ s <= e /\ e < n
      <4> HIDE DEF s, e
      <4> QED BY <2>1, <2>3
    <3>3. Exact(Part(s, e), h, n)
      <4> HIDE DEF s, e
      <4> QED BY <2>1, <3>2, PartExact
    <3> QED BY <3>1, <3>3
  <2> QED BY <2>2, <2>3
<1> QED BY <1>1, <1>2, <1>3

(* Every tier answers every header exactly: a 206 sends and counts what is *)
(* selected, a 200 the object, and a 416 means that nothing is selected    *)
(* (handler.go:328-381, 403-452, 579-627, 645-673; spool.go:193-232).      *)
THEOREM EveryTierExact ==
    ASSUME NEW tier \in Tiers, NEW h \in Headers, NEW n \in Nat
    PROVE  Exact(Respond(tier, h, n), h, n)
<1>1. CASE tier = "package"
  <2>1. CASE h.form = "list"
    <3>1. NoHeader \in Headers BY DEF NoHeader, Headers
    <3>2. Respond(tier, h, n) = Full(n)
      BY <1>1, <2>1 DEF Respond, PackageAnswer, S3Answer, NoHeader
    <3>3. Selected(h, n) = {} BY <2>1 DEF Selected
    <3> QED BY <3>2, <3>3, FullExact
  <2>2. CASE h.form # "list"
    BY <1>1, <2>2, S3Exact DEF Respond, PackageAnswer
  <2> QED BY <2>1, <2>2
<1>2. CASE tier = "stream"
  BY <1>2, StreamExact DEF Respond
<1>3. CASE tier \notin {"package", "stream"}
  BY <1>3, AnswerExact DEF Respond
<1> QED BY <1>1, <1>2, <1>3

(* A response is a status, a length and the positions it sends.            *)
LEMMA RespondType ==
    ASSUME NEW tier \in Tiers, NEW h \in Headers, NEW n \in Nat
    PROVE  Respond(tier, h, n) \in
               [status : {200, 206, 416}, length : Nat, positions : SUBSET Nat]
<1> DEFINE a == Respond(tier, h, n)
<1>1. Exact(a, h, n) BY EveryTierExact
<1>2. a = Refused \/ (\E i, j : a = Part(i, j)) \/ a = Full(n)
  <2>1. \A g \in Headers : Answer(g, n) = Refused
            \/ (\E i, j : Answer(g, n) = Part(i, j)) \/ Answer(g, n) = Full(n)
    BY ParserExact DEF Answer
  <2>2. \A g : S3Answer(g, n) = Refused
            \/ (\E i, j : S3Answer(g, n) = Part(i, j)) \/ S3Answer(g, n) = Full(n)
    BY DEF S3Answer
  <2> QED BY <2>1, <2>2 DEF Respond, StreamAnswer, PackageAnswer
<1>3. a = [status |-> a.status, length |-> a.length, positions |-> a.positions]
  BY <1>2 DEF Refused, Part, Full
<1> HIDE DEF a
<1> QED BY <1>1, <1>3 DEF Exact, a

-----------------------------------------------------------------------------
(* A download.                                                             *)

Flow ==
    /\ sent + block <= BodyLength(last)
    /\ handler = "idle" /\ populate = "gone" =>
           sent = 0 /\ block = 0 /\ taken = 0 /\ got = 0 /\ lost = {}
    /\ handler = "read" => block = 0 /\ taken = 0
    /\ handler \in {"tee", "lastwrite"} \/ populate # "gone" => Teed(last)
    /\ handler = "write" /\ Teed(last) => taken = block
    /\ handler # "idle" /\ Teed(last) /\ populate \in {"close", "gone"} /\ lost = {} =>
           got = BodyLength(last)
    /\ handler = "lastwrite" => lost # {}

DownInv ==
    /\ TypeOK
    /\ Exact(last.response, last.header, size)
    /\ WarmsWhole
    /\ CompleteIsWhole
    /\ Flow
    /\ PipeInStep
    /\ TeeTransparent

Kinds == [status : {200, 206, 416}, length : Nat, positions : SUBSET Nat]

LEMMA NothingExact ==
    ASSUME NEW n \in Nat
    PROVE  /\ NoHeader \in Headers
           /\ Exact(Full(n), NoHeader, n)
           /\ Full(n) \in Kinds
<1>1. NoHeader \in Headers BY DEF NoHeader, Headers
<1>2. Selected(NoHeader, n) = {} BY DEF Selected, NoHeader
<1>3. Exact(Full(n), NoHeader, n) BY <1>1, <1>2, FullExact
<1>4. Whole(n) \subseteq Nat BY DEF Whole
<1> QED BY <1>1, <1>3, <1>4 DEF Full, Kinds

(* What a state says about the numbers, in one place.                      *)
LEMMA Facts ==
    ASSUME DownInv
    PROVE  /\ size \in Nat /\ file \in {0, size} /\ have \in 0 .. size
           /\ sent \in Nat /\ block \in Nat /\ taken \in 0 .. block /\ got \in Nat
           /\ MaxFaults \in Nat /\ faults \in 0 .. MaxFaults
           /\ BodyLength(last) \in Nat
           /\ last.tier \in Tiers /\ last.header \in Headers /\ last.response \in Kinds
           /\ Teed(last) => BodyLength(last) = size /\ size # 0
<1>1. size \in Nat BY NumbersAssumption DEF DownInv, TypeOK
<1>2. /\ file \in {0, size} /\ have \in 0 .. size
      /\ sent \in Nat /\ block \in Nat /\ taken \in 0 .. block /\ got \in Nat
      /\ MaxFaults \in Nat /\ faults \in 0 .. MaxFaults
  BY TransferAssumption DEF DownInv, TypeOK, WarmsWhole
<1>3. last.tier \in Tiers /\ last.header \in Headers /\ last.response \in Kinds
  BY DEF DownInv, TypeOK, Kinds
<1>4. BodyLength(last) \in Nat BY <1>3 DEF BodyLength, Kinds
<1>5. Teed(last) => BodyLength(last) = size /\ size # 0
  <2>1. Teed(last) => last.response.status = 200 /\ last.tier # "head" /\ last.response.length > 0
    BY DEF Teed
  <2>2. last.response.status = 200 => last.response.length = size BY DEF DownInv, Exact
  <2> QED BY <1>1, <2>1, <2>2 DEF BodyLength
<1> QED BY <1>1, <1>2, <1>3, <1>4, <1>5

(* What a step that neither answers nor returns has to preserve.           *)
Quiet ==
    /\ file \in {0, size}
    /\ handler \in {"idle", "read", "tee", "write", "lastwrite", "close"}
    /\ sent \in Nat /\ block \in Nat /\ taken \in 0 .. block
    /\ populate \in {"gone", "start", "copy", "close"}
    /\ got \in Nat /\ faults \in 0 .. MaxFaults /\ lost \subseteq Failures

LEMMA QuietStep ==
    ASSUME DownInv, UNCHANGED <<chosen, have, complete, last>>,
           Quiet', Flow', PipeInStep', TeeTransparent'
    PROVE  DownInv'
<1>1. size' = size /\ enabled' = enabled /\ have' = have /\ complete' = complete /\ last' = last
  BY DEF chosen
<1>2. TypeOK'
  <2>1. size \in Nat BY Facts
  <2>2. (file \in 0 .. size)' BY <1>1, <2>1 DEF Quiet
  <2> QED BY <1>1, <2>2 DEF DownInv, TypeOK, Quiet
<1>3. Exact(last.response, last.header, size)' BY <1>1 DEF DownInv
<1>4. WarmsWhole' /\ CompleteIsWhole' BY <1>1 DEF DownInv, WarmsWhole, CompleteIsWhole, Quiet
<1> QED BY <1>2, <1>3, <1>4 DEF DownInv

LEMMA CopySteps ==
    ASSUME DownInv,
           \/ \E n \in 1 .. MaxBlock : ReadBody(n)
           \/ EndOfBody \/ BodyBreaks \/ TeeWritten \/ TeeBroken \/ WriteClient \/ ClientLeaves
    PROVE  DownInv'
<1> USE Facts
<1>0. /\ TypeOK /\ Flow /\ PipeInStep /\ TeeTransparent
      /\ MaxBlock \in Nat
  BY TransferAssumption DEF DownInv
<1>1. ASSUME NEW n \in 1 .. MaxBlock, ReadBody(n) PROVE DownInv'
  <2>1. UNCHANGED <<chosen, have, complete, last>> BY <1>1 DEF ReadBody, client
  <2>2. Quiet' BY <1>0, <1>1 DEF ReadBody, Quiet, TypeOK, goroutine, chosen
  <2>3. Flow' BY <1>0, <1>1, <2>1 DEF ReadBody, Flow, TypeOK, goroutine, chosen
  <2>4. PipeInStep' /\ TeeTransparent'
    BY <1>0, <1>1, <2>1 DEF ReadBody, Flow, PipeInStep, TeeTransparent, TypeOK, goroutine, chosen
  <2> QED BY <2>1, <2>2, <2>3, <2>4, QuietStep
<1>2. CASE EndOfBody
  <2>1. UNCHANGED <<chosen, have, complete, last>> BY <1>2 DEF EndOfBody, client
  <2>2. Quiet' BY <1>0, <1>2 DEF EndOfBody, Quiet, TypeOK, goroutine, chosen
  <2>3. Flow' BY <1>0, <1>2, <2>1 DEF EndOfBody, Flow, TypeOK, goroutine, chosen
  <2>4. PipeInStep' /\ TeeTransparent'
    BY <1>0, <1>2, <2>1 DEF EndOfBody, Flow, PipeInStep, TeeTransparent, TypeOK, goroutine, chosen
  <2> QED BY <2>1, <2>2, <2>3, <2>4, QuietStep
<1>3. CASE BodyBreaks
  <2>1. UNCHANGED <<chosen, have, complete, last>> BY <1>3 DEF BodyBreaks, client
  <2>2. Quiet' BY <1>0, <1>3 DEF BodyBreaks, Fails, Failures, Quiet, TypeOK, goroutine, chosen
  <2>5. lost' # {} BY <1>3 DEF BodyBreaks, Fails
  <2>3. Flow' BY <1>0, <1>3, <2>1, <2>5 DEF BodyBreaks, Flow, TypeOK, goroutine, chosen
  <2>4. PipeInStep' /\ TeeTransparent'
    BY <1>0, <1>3, <2>1, <2>5 DEF BodyBreaks, PipeInStep, TeeTransparent, TypeOK, goroutine, chosen
  <2> QED BY <2>1, <2>2, <2>3, <2>4, QuietStep
<1>4. CASE TeeWritten
  <2>1. UNCHANGED <<chosen, have, complete, last>> BY <1>4 DEF TeeWritten, client
  <2>2. Quiet' BY <1>0, <1>4 DEF TeeWritten, Quiet, TypeOK, goroutine, chosen
  <2>3. Flow' BY <1>0, <1>4, <2>1 DEF TeeWritten, Flow, TypeOK, goroutine, chosen
  <2>4. PipeInStep' /\ TeeTransparent'
    BY <1>0, <1>4, <2>1 DEF TeeWritten, Flow, PipeInStep, TeeTransparent, TypeOK, goroutine, chosen
  <2> QED BY <2>1, <2>2, <2>3, <2>4, QuietStep
<1>5. CASE TeeBroken
  <2>1. UNCHANGED <<chosen, have, complete, last>> BY <1>5 DEF TeeBroken, client
  <2>2. Quiet' BY <1>0, <1>5 DEF TeeBroken, Quiet, TypeOK, goroutine, chosen
  <2>5. lost # {}
    <3>1. Teed(last) /\ got = sent + taken BY <1>0, <1>5 DEF TeeBroken, Flow, PipeInStep
    <3>2. got < BodyLength(last) BY <1>0, <1>5, <3>1 DEF TeeBroken, Flow
    <3> QED BY <1>0, <1>5, <3>1, <3>2 DEF TeeBroken, ReaderClosed, Flow
  <2>3. Flow' BY <1>0, <1>5, <2>1, <2>5 DEF TeeBroken, Flow, TypeOK, goroutine, chosen
  <2>4. PipeInStep' /\ TeeTransparent'
    BY <1>0, <1>5, <2>1 DEF TeeBroken, Flow, PipeInStep, TeeTransparent, TypeOK, goroutine, chosen
  <2> QED BY <2>1, <2>2, <2>3, <2>4, QuietStep
<1>6. CASE WriteClient
  <2>1. UNCHANGED <<chosen, have, complete, last>> BY <1>6 DEF WriteClient, client
  <2>2. Quiet' BY <1>0, <1>6 DEF WriteClient, Quiet, TypeOK, goroutine, chosen
  <2>3. Flow' BY <1>0, <1>6, <2>1 DEF WriteClient, Flow, TypeOK, goroutine, chosen
  <2>4. PipeInStep' /\ TeeTransparent'
    BY <1>0, <1>6, <2>1 DEF WriteClient, Flow, PipeInStep, TeeTransparent, TypeOK, goroutine, chosen
  <2> QED BY <2>1, <2>2, <2>3, <2>4, QuietStep
<1>7. CASE ClientLeaves
  <2>1. UNCHANGED <<chosen, have, complete, last>> BY <1>7 DEF ClientLeaves, client
  <2>2. Quiet' BY <1>0, <1>7 DEF ClientLeaves, Fails, Failures, Quiet, TypeOK, goroutine, chosen
  <2>5. lost' # {} BY <1>7 DEF ClientLeaves, Fails
  <2>3. Flow' BY <1>0, <1>7, <2>1, <2>5 DEF ClientLeaves, Flow, TypeOK, goroutine, chosen
  <2>4. PipeInStep' /\ TeeTransparent'
    BY <1>0, <1>7, <2>1, <2>5 DEF ClientLeaves, PipeInStep, TeeTransparent, TypeOK, goroutine, chosen
  <2> QED BY <2>1, <2>2, <2>3, <2>4, QuietStep
<1> QED BY <1>1, <1>2, <1>3, <1>4, <1>5, <1>6, <1>7
LEMMA FillSteps ==
    ASSUME DownInv,
           \/ PopulateStarts \/ PopulateFails \/ PopulateShort \/ Install \/ Evict
           \/ \E n \in 1 .. MaxBlock : Take(n)
    PROVE  DownInv'
<1> USE Facts
<1>0. /\ TypeOK /\ Flow /\ PipeInStep /\ TeeTransparent
      /\ MaxBlock \in Nat
  BY TransferAssumption DEF DownInv
<1>1. CASE PopulateStarts
  <2>1. UNCHANGED <<chosen, have, complete, last>> BY <1>1 DEF PopulateStarts, client
  <2>2. Quiet' BY <1>0, <1>1 DEF PopulateStarts, Quiet, TypeOK, transfer, chosen, Failures
  <2>3. Flow' BY <1>0, <1>1, <2>1 DEF PopulateStarts, Flow, TypeOK, transfer, chosen, Failures
  <2>4. PipeInStep' /\ TeeTransparent'
    BY <1>0, <1>1, <2>1 DEF PopulateStarts, Flow, PipeInStep, TeeTransparent, TypeOK, transfer, chosen, Failures
  <2> QED BY <2>1, <2>2, <2>3, <2>4, QuietStep
<1>2. CASE PopulateFails
  <2>1. UNCHANGED <<chosen, have, complete, last>> BY <1>2 DEF PopulateFails, client
  <2>2. Quiet' BY <1>0, <1>2 DEF PopulateFails, Quiet, TypeOK, transfer, chosen, Fails, Failures
  <2>3. Flow' BY <1>0, <1>2, <2>1 DEF PopulateFails, Flow, TypeOK, transfer, chosen, Fails, Failures
  <2>4. PipeInStep' /\ TeeTransparent'
    BY <1>0, <1>2, <2>1 DEF PopulateFails, Flow, PipeInStep, TeeTransparent, TypeOK, transfer, chosen, Fails, Failures
  <2> QED BY <2>1, <2>2, <2>3, <2>4, QuietStep
<1>3. CASE PopulateShort
  <2>1. UNCHANGED <<chosen, have, complete, last>> BY <1>3 DEF PopulateShort, client
  <2>2. Quiet' BY <1>0, <1>3 DEF PopulateShort, Quiet, TypeOK, transfer, chosen, WriterClosed
  <2>3. Flow' BY <1>0, <1>3, <2>1 DEF PopulateShort, Flow, TypeOK, transfer, chosen, WriterClosed
  <2>4. PipeInStep' /\ TeeTransparent'
    BY <1>0, <1>3, <2>1 DEF PopulateShort, Flow, PipeInStep, TeeTransparent, TypeOK, transfer, chosen, WriterClosed
  <2> QED BY <2>1, <2>2, <2>3, <2>4, QuietStep
<1>4. CASE Install
  <2>1. UNCHANGED <<chosen, have, complete, last>> BY <1>4 DEF Install, client
  <2>2. Quiet' BY <1>0, <1>4 DEF Install, Flow, Quiet, TypeOK, transfer, chosen
  <2>3. Flow' BY <1>0, <1>4, <2>1 DEF Install, Flow, TypeOK, transfer, chosen
  <2>4. PipeInStep' /\ TeeTransparent'
    BY <1>0, <1>4, <2>1 DEF Install, Flow, PipeInStep, TeeTransparent, TypeOK, transfer, chosen
  <2> QED BY <2>1, <2>2, <2>3, <2>4, QuietStep
<1>5. CASE Evict
  <2>1. UNCHANGED <<chosen, have, complete, last>> BY <1>5 DEF Evict, client
  <2>2. Quiet' BY <1>0, <1>5 DEF Evict, Quiet, TypeOK, transfer, chosen, goroutine
  <2>3. Flow' BY <1>0, <1>5, <2>1 DEF Evict, Flow, TypeOK, transfer, chosen, goroutine
  <2>4. PipeInStep' /\ TeeTransparent'
    BY <1>0, <1>5, <2>1 DEF Evict, Flow, PipeInStep, TeeTransparent, TypeOK, transfer, chosen, goroutine
  <2> QED BY <2>1, <2>2, <2>3, <2>4, QuietStep
<1>6. ASSUME NEW n \in 1 .. MaxBlock, Take(n) PROVE DownInv'
  <2>1. UNCHANGED <<chosen, have, complete, last>> BY <1>6 DEF Take, client
  <2>2. Quiet' BY <1>0, <1>6 DEF Take, Quiet, TypeOK, chosen
  <2>3. Flow' BY <1>0, <1>6, <2>1 DEF Take, Flow, TypeOK, chosen
  <2>4. PipeInStep' /\ TeeTransparent'
    BY <1>0, <1>6, <2>1 DEF Take, Flow, PipeInStep, TeeTransparent, TypeOK, chosen
  <2> QED BY <2>1, <2>2, <2>3, <2>4, QuietStep
<1> QED BY <1>1, <1>2, <1>3, <1>4, <1>5, <1>6

(* The one that returns last leaves the initial response behind.           *)
LEMMA Forgotten ==
    ASSUME Forget, size' = size, size \in Nat
    PROVE  /\ last'.response = Full(size) /\ last'.header = NoHeader
           /\ last' \in [tier : Tiers, header : Headers, response : Kinds]
           /\ Exact(last.response, last.header, size)'
           /\ ~Teed(last)' /\ BodyLength(last)' = size
<1>1. last' = [tier |-> "spool", header |-> NoHeader, response |-> Full(size)]
  BY DEF Forget, Nothing
<1>2. NoHeader \in Headers /\ Exact(Full(size), NoHeader, size) /\ Full(size) \in Kinds
  BY NothingExact
<1>3. "spool" \in Tiers BY DEF Tiers
<1>4. last' \in [tier : Tiers, header : Headers, response : Kinds] BY <1>1, <1>2, <1>3
<1>5. ~Teed(last)' BY <1>1 DEF Teed
<1>6. BodyLength(last)' = size BY <1>1 DEF BodyLength, Full
<1> QED BY <1>1, <1>2, <1>4, <1>5, <1>6

LEMMA PopulateClosesStep == ASSUME DownInv, PopulateCloses PROVE DownInv'
<1> USE Facts
<1>0. TypeOK /\ Flow /\ PipeInStep /\ TeeTransparent BY DEF DownInv
<1>1. /\ size' = size /\ enabled' = enabled /\ file' = file
      /\ have' = have /\ complete' = complete /\ handler' = handler /\ faults' = faults
      /\ populate = "close" /\ populate' = "gone"
  BY DEF PopulateCloses, chosen
<1>2. CASE handler # "idle"
  <2>1. UNCHANGED <<chosen, have, complete, last>> BY <1>1, <1>2 DEF PopulateCloses, Keep, chosen
  <2>2. Quiet' BY <1>0, <1>1, <1>2 DEF PopulateCloses, Keep, Quiet, TypeOK
  <2>3. Flow' BY <1>0, <1>1, <1>2, <2>1 DEF PopulateCloses, Keep, Flow, TypeOK
  <2>4. PipeInStep' /\ TeeTransparent'
    BY <1>0, <1>1, <1>2, <2>1 DEF PopulateCloses, Keep, PipeInStep, TeeTransparent, TypeOK
  <2> QED BY <2>1, <2>2, <2>3, <2>4, QuietStep
<1>3. CASE handler = "idle"
  <2>1. Forget BY <1>3 DEF PopulateCloses
  <2>2. /\ last' \in [tier : Tiers, header : Headers, response : Kinds]
        /\ Exact(last.response, last.header, size)'
        /\ ~Teed(last)' /\ BodyLength(last)' = size
    BY <1>1, <2>1, Forgotten
  <2>3. sent' = 0 /\ block' = 0 /\ taken' = 0 /\ got' = 0 /\ lost' = {} BY <2>1 DEF Forget
  <2>4. TypeOK' BY <1>0, <1>1, <2>2, <2>3 DEF TypeOK, Kinds
  <2>5. Flow' BY <1>1, <1>3, <2>2, <2>3 DEF Flow
  <2>6. PipeInStep' /\ TeeTransparent' BY <1>1, <1>3 DEF PipeInStep, TeeTransparent
  <2>7. WarmsWhole' /\ CompleteIsWhole' BY <1>1 DEF DownInv, WarmsWhole, CompleteIsWhole
  <2> QED BY <2>2, <2>4, <2>5, <2>6, <2>7 DEF DownInv
<1> QED BY <1>2, <1>3

LEMMA AskStep ==
    ASSUME DownInv, NEW tier \in Tiers, NEW h \in Headers, Ask(tier, h)
    PROVE  DownInv'
<1> USE Facts
<1> DEFINE a == Respond(tier, h, LengthAt(tier))
<1>0. TypeOK /\ Flow BY DEF DownInv
<1>1. /\ UNCHANGED <<chosen, file, have, complete, sent, block, taken, got, faults, lost>>
      /\ size' = size /\ enabled' = enabled
      /\ handler = "idle" /\ populate = "gone"
      /\ tier = "disk" => file # 0
      /\ last' = [tier |-> tier, header |-> h, response |-> a]
      /\ handler' = IF BodyLength(last') = 0 THEN "close" ELSE "read"
      /\ populate' = IF Teed(last') THEN "start" ELSE "gone"
  BY DEF Ask, chosen
<1>2. LengthAt(tier) = size BY <1>1 DEF LengthAt
<1>3. Exact(a, h, size) /\ a \in Kinds
  <2>1. a = Respond(tier, h, size) BY <1>2
  <2>2. size \in Nat OBVIOUS
  <2> HIDE DEF a
  <2>3. Exact(Respond(tier, h, size), h, size) BY <2>2, EveryTierExact
  <2>4. Respond(tier, h, size) \in Kinds BY <2>2, RespondType DEF Kinds
  <2> QED BY <2>1, <2>3, <2>4
<1> HIDE DEF a
<1>4. /\ last'.tier = tier /\ last'.header = h /\ last'.response = a
      /\ last' \in [tier : Tiers, header : Headers, response : Kinds]
  BY <1>1, <1>3
<1>5. sent = 0 /\ block = 0 /\ taken = 0 /\ got = 0 /\ lost = {}
  BY <1>0, <1>1 DEF Flow
<1>6. BodyLength(last') \in Nat BY <1>4 DEF BodyLength, Kinds
<1>7. handler' \in {"close", "read"} /\ populate' \in {"start", "gone"} BY <1>1
<1>8. TypeOK' BY <1>0, <1>1, <1>4, <1>7 DEF TypeOK, Kinds
<1>9. Flow' BY <1>1, <1>5, <1>6, <1>7 DEF Flow
<1>10. PipeInStep' /\ TeeTransparent' BY <1>1, <1>5, <1>6 DEF PipeInStep, TeeTransparent
<1>11. WarmsWhole' /\ CompleteIsWhole' BY <1>1 DEF DownInv, WarmsWhole, CompleteIsWhole
<1>12. Exact(last.response, last.header, size)' BY <1>1, <1>3, <1>4
<1> QED BY <1>8, <1>9, <1>10, <1>11, <1>12 DEF DownInv

(* Here a client puts the piece it got behind those it has.                *)
LEMMA ReturnStep == ASSUME DownInv, Return PROVE DownInv'
<1> USE Facts
<1> DEFINE pieces == last.tier # "head" /\ (Resumes(last.header) \/ Starts(last.header))
           r == last.response
<1>0. TypeOK /\ Flow /\ Exact(r, last.header, size) /\ CompleteIsWhole BY DEF DownInv
<1>1. /\ size' = size /\ enabled' = enabled /\ file' = file
      /\ populate' = populate /\ faults' = faults /\ handler = "close" /\ handler' = "idle"
      /\ have' = IF complete \/ ~pieces THEN have
                 ELSE IF r.status = 206 THEN have + sent
                 ELSE IF r.status = 200 THEN sent ELSE have
      /\ complete' = (\/ complete
                      \/ pieces /\ r.status = 416
                      \/ pieces /\ r.status = 200 /\ sent = r.length)
      /\ IF populate = "gone" THEN Forget ELSE Keep
  BY DEF Return, chosen
<1>2. have' \in 0 .. size /\ complete' \in BOOLEAN /\ CompleteIsWhole'
  <2>1. complete' \in BOOLEAN BY <1>1, Zenon
  <2>2. CASE complete \/ ~pieces
    BY <1>0, <1>1, <2>2, <2>1 DEF CompleteIsWhole
  <2>3. CASE ~complete /\ pieces
    <3>1. BodyLength(last) = r.length /\ sent <= r.length /\ r.length \in Nat
      BY <1>0, <2>3 DEF BodyLength, Flow, Kinds
    <3>2. \/ last.header.form = "range" /\ last.header.first = have
          \/ last.header = NoHeader /\ have = 0
      BY <2>3 DEF Resumes, Starts
    <3>3. have # Missing BY DEF Missing
    <3>4. NoHeader.form = "none" BY DEF NoHeader
    <3>5. r.status \in {200, 206, 416} BY DEF Kinds
    <3> HIDE DEF pieces, r
    <3>6. CASE r.status = 206
      <4>1. last.header.first = have BY <1>0, <3>2, <3>4, <3>6 DEF Exact
      <4>2. have + r.length <= size BY <1>0, <3>3, <3>6, <4>1 DEF Exact
      <4>3. have' = have + sent /\ ~complete' BY <1>1, <2>3, <3>6
      <4> QED BY <3>1, <4>2, <4>3, <2>1 DEF CompleteIsWhole
    <3>7. CASE r.status = 416
      <4>1. last.header.first = have BY <1>0, <3>2, <3>4, <3>7 DEF Exact
      <4>2. have >= size BY <1>0, <3>3, <3>7, <4>1 DEF Exact
      <4>3. have' = have BY <1>1, <3>7
      <4> QED BY <1>1, <4>2, <4>3, <2>1 DEF CompleteIsWhole
    <3>8. CASE r.status = 200
      <4>1. r.length = size BY <1>0, <3>8 DEF Exact
      <4>2. have' = sent BY <1>1, <2>3, <3>8
      <4>3. r.status # 416 BY <3>8
      <4>4. complete' => sent = r.length BY <1>1, <2>3, <4>3, Zenon
      <4> QED BY <1>1, <3>1, <4>1, <4>2, <4>4, <2>1 DEF CompleteIsWhole
    <3> QED BY <3>5, <3>6, <3>7, <3>8
  <2> QED BY <2>2, <2>3
<1> HIDE DEF pieces, r
<1>3. PipeInStep' /\ TeeTransparent' /\ WarmsWhole'
  BY <1>1 DEF PipeInStep, TeeTransparent, DownInv, WarmsWhole
<1>4. CASE populate = "gone"
  <2>1. Forget BY <1>1, <1>4
  <2>2. /\ last' \in [tier : Tiers, header : Headers, response : Kinds]
        /\ Exact(last.response, last.header, size)'
        /\ ~Teed(last)' /\ BodyLength(last)' = size
    BY <1>1, <2>1, Forgotten
  <2>3. sent' = 0 /\ block' = 0 /\ taken' = 0 /\ got' = 0 /\ lost' = {} BY <2>1 DEF Forget
  <2>4. TypeOK' BY <1>0, <1>1, <1>2, <2>2, <2>3 DEF TypeOK, Kinds
  <2>5. Flow' BY <1>1, <1>4, <2>2, <2>3 DEF Flow
  <2> QED BY <1>2, <1>3, <2>2, <2>4, <2>5 DEF DownInv
<1>5. CASE populate # "gone"
  <2>1. UNCHANGED <<last, sent, block, taken, got, lost>> BY <1>1, <1>5 DEF Keep
  <2>2. TypeOK' BY <1>0, <1>1, <1>2, <2>1 DEF TypeOK
  <2>3. Flow' BY <1>0, <1>1, <1>5, <2>1 DEF Flow
  <2>4. Exact(last.response, last.header, size)' BY <1>0, <1>1, <2>1 DEF r
  <2> QED BY <1>2, <1>3, <2>2, <2>3, <2>4 DEF DownInv
<1> QED BY <1>4, <1>5

LEMMA DownInvariance == Spec => []DownInv
<1>1. Init => DownInv
  <2> SUFFICES ASSUME Init PROVE DownInv OBVIOUS
  <2>1. /\ size \in Nat /\ size \in Sizes
        /\ file \in {0, size} /\ have = 0 /\ complete = FALSE /\ handler = "idle"
        /\ sent = 0 /\ block = 0 /\ taken = 0 /\ populate = "gone" /\ got = 0
        /\ faults = 0 /\ lost = {}
    BY NumbersAssumption DEF Init
  <2>2. last = [tier |-> "spool", header |-> NoHeader, response |-> Full(size)]
    BY DEF Init, Nothing
  <2>3. NoHeader \in Headers /\ Exact(Full(size), NoHeader, size) /\ Full(size) \in Kinds
    BY <2>1, NothingExact
  <2>4. enabled \in BOOLEAN BY TransferAssumption DEF Init
  <2>5. last \in [tier : Tiers, header : Headers, response : Kinds]
    <3>1. "spool" \in Tiers BY DEF Tiers
    <3> QED BY <2>2, <2>3, <3>1
  <2>6. complete \in BOOLEAN BY <2>1, Zenon
  <2>7. TypeOK
    <3>1. file \in 0 .. size /\ have \in 0 .. size /\ faults \in 0 .. MaxFaults
          /\ sent \in Nat /\ block \in Nat /\ taken \in 0 .. block /\ got \in Nat
      BY <2>1, TransferAssumption
    <3> QED BY <2>1, <2>4, <2>5, <2>6, <3>1 DEF TypeOK, Kinds
  <2>8. Flow
    <3>1. ~Teed(last) BY <2>2 DEF Teed
    <3>2. BodyLength(last) = size BY <2>2 DEF BodyLength, Full
    <3> QED BY <2>1, <3>1, <3>2 DEF Flow
  <2>9. PipeInStep /\ TeeTransparent /\ WarmsWhole /\ CompleteIsWhole
    BY <2>1 DEF PipeInStep, TeeTransparent, WarmsWhole, CompleteIsWhole
  <2> QED BY <2>2, <2>3, <2>7, <2>8, <2>9 DEF DownInv
<1>2. DownInv /\ [Next]_vars => DownInv'
  <2> SUFFICES ASSUME DownInv, [Next]_vars PROVE DownInv' OBVIOUS
  <2>1. CASE AskAnything BY <2>1, AskStep DEF AskAnything
  <2>2. CASE Copy BY <2>2, CopySteps, ReturnStep DEF Copy
  <2>3. CASE BodyBreaks \/ ClientLeaves BY <2>3, CopySteps
  <2>4. CASE Fill \/ PopulateFails \/ Evict BY <2>4, FillSteps, PopulateClosesStep DEF Fill
  <2>5. CASE UNCHANGED vars
    <3>1. UNCHANGED <<chosen, size, enabled, have, complete, last>> BY <2>5 DEF vars, client, chosen
    <3>2. Quiet' BY <2>5 DEF vars, transfer, goroutine, DownInv, TypeOK, WarmsWhole, Quiet, chosen
    <3>3. Flow' /\ PipeInStep' /\ TeeTransparent'
      BY <2>5, <3>1 DEF vars, transfer, goroutine, DownInv, Flow, PipeInStep, TeeTransparent, chosen
    <3> QED BY <3>1, <3>2, <3>3, QuietStep
  <2> QED BY <2>1, <2>2, <2>3, <2>4, <2>5 DEF Next
<1> QED BY <1>1, <1>2, PTL DEF Spec

(* The state of a download has its type, whatever the sizes and failures.  *)
THEOREM DownloadTypeCorrect == Spec => []TypeOK
<1>1. DownInv => TypeOK BY DEF DownInv
<1> QED BY <1>1, DownInvariance, PTL

(* Every 206 and 200 sends what it should (range.go:18-74).                *)
THEOREM SelectionsSent == Spec => []SendsSelection
<1>1. DownInv => SendsSelection BY DEF DownInv, SendsSelection, Exact
<1> QED BY <1>1, DownInvariance, PTL

(* 416 only when nothing is selected (range.go:61-66).                     *)
THEOREM RefusalsJustified == Spec => []RefusesOnlyEmpty
<1>1. DownInv => RefusesOnlyEmpty BY DEF DownInv, RefusesOnlyEmpty, Exact
<1> QED BY <1>1, DownInvariance, PTL

(* A selection is honoured unless a number overflows (range.go:35, 49).    *)
THEOREM SelectionsHonoured == Spec => []HonoursSelection
<1>1. DownInv => HonoursSelection BY DEF DownInv, HonoursSelection, Exact
<1> QED BY <1>1, DownInvariance, PTL

(* A download put together from pieces, out of any mix of tiers and after  *)
(* any failures, is the object (handler.go:329, 582, 652).                 *)
THEOREM DownloadsWhole == Spec => []CompleteIsWhole
<1>1. DownInv => CompleteIsWhole BY DEF DownInv
<1> QED BY <1>1, DownInvariance, PTL

(* The disk is filled with the whole object or not at all, whichever end   *)
(* of the pipe gives up (handler.go:454-469, cache.go:318-331).            *)
THEOREM FilesWhole == Spec => []WarmsWhole
<1>1. DownInv => WarmsWhole BY DEF DownInv
<1> QED BY <1>1, DownInvariance, PTL

(* The two ends of the pipe stay a block apart (handler.go:628-642).       *)
THEOREM PipeStaysInStep == Spec => []PipeInStep
<1>1. DownInv => PipeInStep BY DEF DownInv
<1> QED BY <1>1, DownInvariance, PTL

(* A transfer in which nothing failed reached the client in full, however  *)
(* the goroutine was scheduled (handler.go:454-469, 628-642).              *)
THEOREM WarmingIsTransparent == Spec => []TeeTransparent
<1>1. DownInv => TeeTransparent BY DEF DownInv
<1> QED BY <1>1, DownInvariance, PTL
=============================================================================
