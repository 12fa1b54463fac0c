--------------------------- MODULE Records_proofs ---------------------------
(***************************************************************************)
(* Proofs about what is recorded: export vouchers, the numbering check and *)
(* the book of purchases, for any number of posts, groups and requests.    *)
(***************************************************************************)
EXTENDS MCParts, TLAPS, FiniteSetTheorems, WellFoundedInduction

-----------------------------------------------------------------------------
(* Exports.  The inductive invariant.                                         *)

Steps == InSection \cup
  {"new", "refused", "not_found", "waiting", "failed", "rejected", "issued"}

\* The steps of a post whose content can no longer change.
Sent == {"sending", "recording", "creating"}

PostRecord ==
  [step : Steps, issuer : Issuers \cup {None}, input : ExportInputs \cup {None},
   number : Nat, requestId : Nat,
   reply : [cae : {None} \cup (Range(IssuerCuit) \X Nat), observed : BOOLEAN]]

\* Reads are made in the section of the issuer, which waited for its turn.
PostShape(p) ==
  /\ posts[p].step \in {"waiting"} \cup InSection =>
       posts[p].issuer \in Issuers \ {None} /\ posts[p].input \in ExportInputs
  /\ posts[p].step = "new" => posts[p].issuer = None
  /\ posts[p].step \in {"new", "waiting", "auth"} => posts[p].number = 0 /\ posts[p].requestId = 0
  /\ posts[p].step \in Sent => posts[p].number # 0 /\ posts[p].requestId # 0

OneInSection ==
  \A p, q \in Posts : p # q /\ posts[p].step \in InSection /\ posts[q].step \in InSection =>
    posts[p].issuer # posts[q].issuer

\* WSFEX gives the ids of a CUIT in order and each once; no post is ahead of it.
IdsInOrder ==
  /\ \A a \in fex : a.observed \in BOOLEAN /\ a.request.Id \in 1..LastRequestId(a.cuit)
  /\ \A a, b \in fex : a.cuit = b.cuit /\ a.request.Id = b.request.Id => a = b
  /\ \A p \in Posts : posts[p].requestId # 0 =>
       posts[p].requestId <= 1 + LastRequestId(CuitOf(p))

\* Another row of the issuer table with the CUIT of the post is at work.
Raced(p) ==
  \E other \in Posts : /\ other # p /\ posts[other].issuer \notin {None, posts[p].issuer}
                       /\ CuitOf(other) = CuitOf(p)

\* What a post has read is still so when it sends, unless it raced.
ReadsAreCurrent ==
  \A p \in Posts : posts[p].step \in {"reading", "sending"} =>
    \/ Raced(p)
    \/ /\ posts[p].requestId # 0 => posts[p].requestId = 1 + LastRequestId(CuitOf(p))
       /\ posts[p].number # 0 =>
            posts[p].number = 1 + LastExportNumber(CuitOf(p), posts[p].input)

ReplyOf(a) == [cae |-> Cae(a.cuit, a.request.Id), observed |-> a.observed]

\* What WSFEX has of the post, and what it answered.
Authorised(p, a) == a.cuit = CuitOf(p) /\ a.request = FexRequest(p)

RepliesAreTrue ==
  \A p \in Posts : posts[p].step \in {"recording", "creating"} =>
    \E a \in fex : Authorised(p, a) /\ posts[p].reply = ReplyOf(a)

\* The row an authorisation makes.
RowOf(issuer, a) ==
  [issuer |-> issuer, salesPoint |-> a.request.Punto_vta, voucherType |-> a.request.Cbte_tipo,
   number |-> a.request.Cbte_nro, concept |-> 1, netAmount |-> 0, ivaAmount |-> 0,
   exemptAmount |-> a.request.Imp_total, totalAmount |-> a.request.Imp_total,
   status |-> IF a.observed THEN "OBSERVED" ELSE "APPROVED",
   cae |-> Cae(a.cuit, a.request.Id), requestId |-> a.request.Id,
   associatedVouchers |-> a.request.Cmps_asoc,
   exportDetail |-> [exportType |-> a.request.Tipo_expo, language |-> a.request.Idioma_cbte,
                     incoterm |-> a.request.Incoterms, shippingPermits |-> a.request.Permisos],
   subtotals |-> [i \in DOMAIN a.request.Items |-> a.request.Items[i].total]]

RowsAreAuthorised ==
  \A row \in exports : \E a \in fex :
    a.cuit = IssuerCuit[row.issuer] /\ row = RowOf(row.issuer, a)

\* The items of a request add up to its total.
AddsUp(request) ==
  SumOf([i \in DOMAIN request.Items |-> request.Items[i].total], LAMBDA s : s) = request.Imp_total

RequestsAddUp == \A a \in fex : AddsUp(a.request)

ExportsInv ==
  /\ posts \in [Posts -> PostRecord] /\ IsFiniteSet(fex)
  /\ \A p \in Posts : PostShape(p)
  /\ OneInSection /\ IdsInOrder /\ ReadsAreCurrent /\ RepliesAreTrue
  /\ RowsAreAuthorised /\ RequestsAddUp
  /\ LossWasAnswered /\ RejectedOnlyByRace

-----------------------------------------------------------------------------
(* Lemmas about the posts *)

LEMMA StepNames ==
  /\ InSection \subseteq Steps /\ Sent \subseteq InSection
  /\ \A s \in Steps, p \in PostRecord : [p EXCEPT !.step = s] \in PostRecord
BY DEF Steps, InSection, Sent, PostRecord

\* The items a row keeps add up to the total that was sent.
LEMMA SubtotalsAddUp ==
  ASSUME NEW items
  PROVE  SumOf([i \in DOMAIN items |-> exportItemTotal(items[i])], LAMBDA s : s) = exportVoucherTotal(items)
<1> DEFINE f == [i \in DOMAIN items |-> exportItemTotal(items[i])]
<1>1. [i \in DOMAIN f |-> f[i]] = f
  OBVIOUS
<1> QED BY <1>1 DEF SumOf, exportVoucherTotal

\* The number and the id last given are natural numbers.
LEMMA Counted ==
  ASSUME IsFiniteSet(fex), NEW cuit, NEW input
  PROVE  /\ IsFiniteSet(FexOf(cuit))
         /\ LastRequestId(cuit) \in Nat
         /\ LastExportNumber(cuit, input) \in Nat
<1>1. FexOf(cuit) \subseteq fex
  BY DEF FexOf
<1> DEFINE T == {a \in FexOf(cuit) : /\ a.request.Punto_vta = input.salesPoint
                                    /\ a.request.Cbte_tipo = input.voucherType}
<1>2. IsFiniteSet(FexOf(cuit))
  BY <1>1, FS_Subset
<1>3. IsFiniteSet(T)
  <2>1. T \subseteq FexOf(cuit)
    OBVIOUS
  <2> HIDE DEF T
  <2> QED BY <1>2, <2>1, FS_Subset
<1>4. Cardinality(FexOf(cuit)) \in Nat
  BY <1>2, FS_CardinalityType
<1>5. Cardinality(T) \in Nat
  <2> HIDE DEF T
  <2> QED BY <1>3, FS_CardinalityType
<1> QED BY <1>2, <1>4, <1>5 DEF LastRequestId, LastExportNumber

\* What is known of a post depends on its content, which r keeps.
SameContent(r, s) ==
  r.issuer = s.issuer /\ r.input = s.input /\ r.number = s.number /\ r.requestId = s.requestId

LEMMA ContentKept ==
  ASSUME posts \in [Posts -> PostRecord], NEW p \in Posts, NEW r \in PostRecord,
         SameContent(r, posts[p]), posts' = [posts EXCEPT ![p] = r]
  PROVE  /\ posts' \in [Posts -> PostRecord]
         /\ posts'[p] = r
         /\ \A q \in Posts : q # p => posts'[q] = posts[q]
         /\ \A q \in Posts :
              /\ SameContent(posts'[q], posts[q])
              /\ CuitOf(q)' = CuitOf(q)
              /\ FexRequest(q)' = FexRequest(q)
              /\ Raced(q)' <=> Raced(q)
<1>1. posts' \in [Posts -> PostRecord] /\ posts'[p] = r /\ \A q \in Posts : q # p => posts'[q] = posts[q]
  OBVIOUS
<1>2. ASSUME NEW q \in Posts PROVE SameContent(posts'[q], posts[q])
  BY <1>1 DEF SameContent
<1>3. ASSUME NEW q \in Posts PROVE CuitOf(q)' = CuitOf(q)
  BY <1>2 DEF CuitOf, SameContent
<1>4. ASSUME NEW q \in Posts PROVE FexRequest(q)' = FexRequest(q)
  BY <1>2 DEF FexRequest, SameContent
<1>5. ASSUME NEW q \in Posts PROVE Raced(q)' <=> Raced(q)
  BY <1>2, <1>3 DEF Raced, SameContent
<1> QED BY <1>1, <1>2, <1>3, <1>4, <1>5

\* The request of a post adds up, and its row says what the request does.
LEMMA RequestAddsUp ==
  ASSUME NEW p PROVE AddsUp(FexRequest(p))
<1> DEFINE items == posts[p].input.items
           request == FexRequest(p)
           totals == [i \in DOMAIN request.Items |-> request.Items[i].total]
<1>1. /\ request.Items = [i \in DOMAIN items |->
                           [qty |-> items[i].quantity, price |-> items[i].unitPrice,
                            bonificacion |-> items[i].discount, total |-> exportItemTotal(items[i])]]
      /\ request.Imp_total = exportVoucherTotal(items)
  BY DEF FexRequest
<1>2. totals = [i \in DOMAIN items |-> exportItemTotal(items[i])]
  BY <1>1
<1>3. SumOf([i \in DOMAIN items |-> exportItemTotal(items[i])], LAMBDA s : s) = exportVoucherTotal(items)
  BY SubtotalsAddUp
<1> HIDE DEF items, request
<1> QED BY <1>1, <1>2, <1>3 DEF AddsUp, request

LEMMA RowOfPost ==
  ASSUME NEW p, NEW a, Authorised(p, a), posts[p].reply = ReplyOf(a)
  PROVE  ExportRow(p) = RowOf(posts[p].issuer, a)
<1> DEFINE items == posts[p].input.items
<1>1. [i \in DOMAIN a.request.Items |-> a.request.Items[i].total]
        = [i \in DOMAIN items |-> exportItemTotal(items[i])]
  BY DEF Authorised, FexRequest
<1>2. /\ a.request.Id = posts[p].requestId /\ a.request.Cbte_nro = posts[p].number
      /\ a.request.Cbte_tipo = posts[p].input.voucherType
      /\ a.request.Punto_vta = posts[p].input.salesPoint
      /\ a.request.Cmps_asoc = posts[p].input.associatedVouchers
      /\ a.request.Tipo_expo = posts[p].input.exportType
      /\ a.request.Permisos = posts[p].input.shippingPermits
      /\ a.request.Incoterms = posts[p].input.incoterm
      /\ a.request.Idioma_cbte = posts[p].input.language
      /\ a.request.Imp_total = exportVoucherTotal(items)
  BY DEF Authorised, FexRequest
<1>3. posts[p].reply.cae = Cae(a.cuit, a.request.Id) /\ posts[p].reply.observed = a.observed
  BY DEF ReplyOf
<1> HIDE DEF items
<1> QED BY ONLY <1>1, <1>2, <1>3 DEF ExportRow, RowOf, items

-----------------------------------------------------------------------------
(* Initially, and when a post only moves on *)

LEMMA ExportsInitInv == ExportsInit => ExportsInv
<1> SUFFICES ASSUME ExportsInit PROVE ExportsInv
  OBVIOUS
<1>1. posts \in [Posts -> PostRecord]
  BY DEF ExportsInit, PostRecord, Steps, NoReply
<1>2. IsFiniteSet(fex)
  BY FS_EmptySet DEF ExportsInit
<1>3. \A p \in Posts : posts[p].step = "new" /\ posts[p].issuer = None /\ posts[p].number = 0 /\ posts[p].requestId = 0
  BY DEF ExportsInit
<1>4. fex = {} /\ exports = {}
  BY DEF ExportsInit
<1>5. (\A p \in Posts : PostShape(p)) /\ OneInSection /\ ReadsAreCurrent /\ RepliesAreTrue /\ RejectedOnlyByRace
  BY <1>3 DEF PostShape, OneInSection, ReadsAreCurrent, RepliesAreTrue, RejectedOnlyByRace, InSection, Sent
<1>6. IdsInOrder /\ RowsAreAuthorised /\ RequestsAddUp /\ LossWasAnswered
  BY <1>3, <1>4 DEF IdsInOrder, RowsAreAuthorised, RequestsAddUp, LossWasAnswered
<1> QED BY <1>1, <1>2, <1>5, <1>6 DEF ExportsInv

\* Post p moves to r, and nothing else changes that the invariant is about.
LEMMA MoveInv ==
  ASSUME ExportsInv, NEW p \in Posts, NEW r \in PostRecord,
         SameContent(r, posts[p]), posts' = [posts EXCEPT ![p] = r],
         UNCHANGED fex,
         \/ /\ UNCHANGED exports
            /\ posts[p].step \in {"recording", "creating", "failed"} =>
                 r.step \in {"recording", "creating", "failed"}
         \/ posts[p].step = "creating" /\ exports' = exports \cup {ExportRow(p)},
         r.step \in {"waiting"} \cup InSection => posts[p].step \in {"waiting"} \cup InSection,
         r.step \in InSection => posts[p].step \in InSection \/ LockFree(posts[p].issuer),
         r.step \notin {"new", "waiting"},
         r.step \in Sent => posts[p].step \in Sent,
         r.step = "auth" => posts[p].step = "waiting",
         r.step # "sending",
         r.step \in {"recording", "creating"} =>
           \E a \in fex : Authorised(p, a) /\ r.reply = ReplyOf(a),
         r.step = "rejected" => Raced(p),
         r.step = "reading" => posts[p].step = "auth"
  PROVE  ExportsInv'
<1>0. posts \in [Posts -> PostRecord] /\ fex' = fex /\ exports \subseteq exports'
  BY DEF ExportsInv
<1>1. /\ posts' \in [Posts -> PostRecord] /\ posts'[p] = r
      /\ \A q \in Posts : q # p => posts'[q] = posts[q]
      /\ \A q \in Posts : /\ SameContent(posts'[q], posts[q]) /\ CuitOf(q)' = CuitOf(q)
                          /\ FexRequest(q)' = FexRequest(q) /\ (Raced(q)' <=> Raced(q))
  BY <1>0, ContentKept
<1>2. ASSUME NEW q \in Posts PROVE PostShape(q)'
  BY <1>1 DEF ExportsInv, PostShape, SameContent, InSection, Sent
<1>3. OneInSection'
  BY <1>1 DEF ExportsInv, OneInSection, SameContent, LockFree
<1>4. \A c : LastRequestId(c)' = LastRequestId(c) /\ \A i : LastExportNumber(c, i)' = LastExportNumber(c, i)
  BY <1>0 DEF LastRequestId, LastExportNumber, FexOf
<1>5. IdsInOrder'
  BY <1>0, <1>1, <1>4 DEF ExportsInv, IdsInOrder, SameContent
<1>6. ReadsAreCurrent'
  <2>1. ASSUME NEW q \in Posts, posts[q].step = "auth"
        PROVE  posts[q].number = 0 /\ posts[q].requestId = 0
    BY <2>1 DEF ExportsInv, PostShape
  <2> QED BY <1>1, <1>4, <2>1 DEF ExportsInv, ReadsAreCurrent, SameContent
<1>7. RepliesAreTrue'
  <2> SUFFICES ASSUME NEW q \in Posts, posts'[q].step \in {"recording", "creating"}
               PROVE  \E a \in fex : Authorised(q, a)' /\ posts'[q].reply = ReplyOf(a)
    BY <1>0 DEF RepliesAreTrue
  <2>1. PICK a \in fex : Authorised(q, a) /\ posts'[q].reply = ReplyOf(a)
    BY <1>1 DEF ExportsInv, RepliesAreTrue
  <2> QED BY <1>1, <2>1 DEF Authorised
<1>8. RequestsAddUp'
  BY <1>0 DEF ExportsInv, RequestsAddUp
<1>9. RowsAreAuthorised' /\ LossWasAnswered'
  <2>1. CASE UNCHANGED exports /\ (posts[p].step \in {"recording", "creating", "failed"} =>
               r.step \in {"recording", "creating", "failed"})
    BY <1>0, <1>1, <2>1 DEF ExportsInv, RowsAreAuthorised, LossWasAnswered
  <2>2. CASE posts[p].step = "creating" /\ exports' = exports \cup {ExportRow(p)}
    <3>1. PICK a \in fex : Authorised(p, a) /\ posts[p].reply = ReplyOf(a)
      BY <2>2 DEF ExportsInv, RepliesAreTrue
    <3>2. ExportRow(p) = RowOf(posts[p].issuer, a) /\ ExportRow(p).issuer = posts[p].issuer
      BY <3>1, RowOfPost DEF RowOf
    <3>3. a.cuit = IssuerCuit[posts[p].issuer] /\ ExportRow(p).cae = Cae(a.cuit, a.request.Id)
      BY <3>1, <3>2 DEF Authorised, CuitOf, RowOf
    <3>4. RowsAreAuthorised'
      BY <1>0, <2>2, <3>2, <3>3 DEF ExportsInv, RowsAreAuthorised
    <3>5. ASSUME NEW b \in fex
          PROVE  \/ \E row \in exports' : row.cae = Cae(b.cuit, b.request.Id)
                 \/ \E q \in Posts :
                      /\ posts'[q].step \in {"recording", "creating", "failed"}
                      /\ CuitOf(q)' = b.cuit /\ FexRequest(q)' = b.request
      <4>1. CASE \E row \in exports : row.cae = Cae(b.cuit, b.request.Id)
        BY <1>0, <4>1
      <4>2. CASE \E q \in Posts : /\ posts[q].step \in {"recording", "creating", "failed"}
                                  /\ CuitOf(q) = b.cuit /\ FexRequest(q) = b.request
        <5>1. PICK q \in Posts : /\ posts[q].step \in {"recording", "creating", "failed"}
                                 /\ CuitOf(q) = b.cuit /\ FexRequest(q) = b.request
          BY <4>2
        <5>2. CASE q = p
          BY <2>2, <3>1, <3>3, <5>1, <5>2 DEF Authorised
        <5>3. CASE q # p
          BY <1>1, <5>1, <5>3
        <5> QED BY <5>2, <5>3
      <4> QED BY <4>1, <4>2 DEF ExportsInv, LossWasAnswered
    <3> QED BY <1>0, <3>4, <3>5 DEF LossWasAnswered
  <2> QED BY <2>1, <2>2
<1>10. RejectedOnlyByRace'
  BY <1>1 DEF ExportsInv, RejectedOnlyByRace, Raced
<1> QED BY <1>0, <1>1, <1>2, <1>3, <1>5, <1>6, <1>7, <1>8, <1>9, <1>10 DEF ExportsInv

\* The actions that only move a post on, or store its row.
MovesOn(p) ==
  \/ EnterSection(p) \/ ExportAuth(p) \/ ArcaFails(p) \/ ReprocessExport(p) \/ RejectExport(p)
  \/ UpsertSalesPoint(p) \/ CreateExportRow(p) \/ RecordFails(p)

LEMMA MovesOnInv ==
  ASSUME ExportsInv, NEW p \in Posts, MovesOn(p) PROVE ExportsInv'
<1>0. posts \in [Posts -> PostRecord] /\ posts[p] \in PostRecord /\ PostShape(p)
  BY DEF ExportsInv
<1>1. ASSUME NEW s \in Steps, posts' = Step(p, s)
      PROVE  \E r \in PostRecord : /\ r = [posts[p] EXCEPT !.step = s] /\ r.step = s
                                   /\ SameContent(r, posts[p]) /\ r.reply = posts[p].reply
                                   /\ posts' = [posts EXCEPT ![p] = r]
  <2> DEFINE r == [posts[p] EXCEPT !.step = s]
  <2>1. r \in PostRecord
    BY <1>0, StepNames
  <2>2. r.step = s /\ SameContent(r, posts[p]) /\ r.reply = posts[p].reply
    BY <1>0 DEF PostRecord, SameContent
  <2>3. posts' = [posts EXCEPT ![p] = r]
    BY <1>1 DEF Step
  <2> HIDE DEF r
  <2> QED BY <2>1, <2>2, <2>3 DEF r
<1>2. CASE EnterSection(p)
  <2>1. PICK r \in PostRecord : r.step = "auth" /\ SameContent(r, posts[p]) /\ posts' = [posts EXCEPT ![p] = r]
    BY <1>1, <1>2 DEF EnterSection, Steps, InSection
  <2> QED BY <1>2, <2>1, MoveInv DEF EnterSection, UnchangedButPosts, Sent
<1>3. CASE ExportAuth(p)
  <2>1. PICK r \in PostRecord : r.step = "reading" /\ SameContent(r, posts[p]) /\ posts' = [posts EXCEPT ![p] = r]
    BY <1>1, <1>3 DEF ExportAuth, Steps, InSection
  <2> QED BY <1>3, <2>1, MoveInv DEF ExportAuth, UnchangedButPosts, Sent, InSection
<1>4. CASE ArcaFails(p) \/ RecordFails(p)
  <2>1. PICK r \in PostRecord : r.step = "failed" /\ SameContent(r, posts[p]) /\ posts' = [posts EXCEPT ![p] = r]
    BY <1>1, <1>4 DEF ArcaFails, RecordFails, Steps
  <2> QED BY <1>4, <2>1, MoveInv DEF ArcaFails, RecordFails, UnchangedButPosts, Sent, InSection
<1>5. CASE ReprocessExport(p)
  <2>1. PICK a \in FexOf(CuitOf(p)) :
          /\ a.request = FexRequest(p)
          /\ posts' = [posts EXCEPT ![p].step = "recording",
                        ![p].reply = [cae |-> Cae(a.cuit, a.request.Id), observed |-> a.observed]]
    BY <1>5 DEF ReprocessExport
  <2> DEFINE r == [posts[p] EXCEPT !.step = "recording", !.reply = ReplyOf(a)]
  <2>2. a \in fex /\ a.cuit = CuitOf(p) /\ Authorised(p, a)
    BY <2>1 DEF FexOf, Authorised
  <2>3. ReplyOf(a) \in [cae : {None} \cup (Range(IssuerCuit) \X Nat), observed : BOOLEAN]
    <3>1. a.observed \in BOOLEAN /\ a.request.Id \in Nat
      BY <2>2 DEF ExportsInv, IdsInOrder
    <3>2. a.cuit \in Range(IssuerCuit)
      BY <1>0, <1>5, <2>2 DEF ReprocessExport, PostShape, InSection, CuitOf, Issuers, Range
    <3> QED BY <3>1, <3>2 DEF ReplyOf, Cae
  <2>4. r \in PostRecord /\ r.step = "recording" /\ r.reply = ReplyOf(a) /\ SameContent(r, posts[p])
    BY <1>0, <2>3, StepNames DEF PostRecord, SameContent, Steps, InSection
  <2>5. posts' = [posts EXCEPT ![p] = r]
    BY <1>0, <2>1 DEF ReplyOf
  <2> HIDE DEF r
  <2> QED BY <1>5, <2>2, <2>4, <2>5, MoveInv DEF ReprocessExport, UnchangedButPosts, Sent, InSection
<1>6. CASE RejectExport(p)
  <2>1. PICK r \in PostRecord : r.step = "rejected" /\ SameContent(r, posts[p]) /\ posts' = [posts EXCEPT ![p] = r]
    BY <1>1, <1>6 DEF RejectExport, Steps
  <2>2. Raced(p)
    BY <1>0, <1>6, Counted DEF RejectExport, Authorisable, ExportsInv, ReadsAreCurrent, PostShape, Sent
  <2> QED BY <1>6, <2>1, <2>2, MoveInv DEF RejectExport, UnchangedButPosts, Sent, InSection
<1>7. CASE UpsertSalesPoint(p)
  <2>1. PICK r \in PostRecord : /\ r.step = "creating" /\ SameContent(r, posts[p]) /\ r.reply = posts[p].reply
                                /\ posts' = [posts EXCEPT ![p] = r]
    BY <1>1, <1>7 DEF UpsertSalesPoint, Steps, InSection
  <2>2. \E a \in fex : Authorised(p, a) /\ r.reply = ReplyOf(a)
    BY <1>7, <2>1 DEF UpsertSalesPoint, ExportsInv, RepliesAreTrue
  <2> QED BY <1>7, <2>1, <2>2, MoveInv DEF UpsertSalesPoint, Sent, InSection
<1>8. CASE CreateExportRow(p)
  <2>1. PICK r \in PostRecord : r.step = "issued" /\ SameContent(r, posts[p]) /\ posts' = [posts EXCEPT ![p] = r]
    BY <1>1, <1>8 DEF CreateExportRow, Steps
  <2> QED BY <1>8, <2>1, MoveInv DEF CreateExportRow, Sent, InSection
<1> QED BY <1>2, <1>3, <1>4, <1>5, <1>6, <1>7, <1>8 DEF MovesOn

-----------------------------------------------------------------------------
(* The other actions *)

LEMMA PostExportInv ==
  ASSUME ExportsInv, NEW p \in Posts, NEW issuer \in Issuers \cup {None}, NEW input \in ExportInputs,
         PostExport(p, issuer, input)
  PROVE  ExportsInv'
<1> DEFINE s == CASE ~issueExportVoucherSchema(input) -> "refused"
                  [] issuer = None -> "not_found"
                  [] OTHER -> "waiting"
           r == [posts[p] EXCEPT !.issuer = issuer, !.input = input, !.step = s]
<1>0. /\ posts \in [Posts -> PostRecord] /\ posts[p] \in PostRecord /\ PostShape(p)
      /\ posts[p].step = "new" /\ fex' = fex /\ exports' = exports
  BY DEF ExportsInv, PostExport, UnchangedButPosts
<1>1. s \in {"refused", "not_found", "waiting"} /\ (s = "waiting" => issuer # None)
  OBVIOUS
<1>2. posts' = [posts EXCEPT ![p].issuer = issuer, ![p].input = input, ![p].step = s]
  BY DEF PostExport
<1> HIDE DEF s
<1>3. /\ r \in PostRecord /\ r.step = s /\ r.issuer = issuer /\ r.input = input
      /\ r.number = 0 /\ r.requestId = 0
  BY <1>0, <1>1 DEF PostRecord, Steps, PostShape
<1>r. posts' = [posts EXCEPT ![p] = r]
  BY <1>0, <1>2
<1> HIDE DEF r
<1>4. /\ posts' \in [Posts -> PostRecord] /\ posts'[p] = r
      /\ \A q \in Posts : q # p => /\ posts'[q] = posts[q] /\ CuitOf(q)' = CuitOf(q)
                                   /\ FexRequest(q)' = FexRequest(q)
  BY <1>0, <1>r, <1>3 DEF CuitOf, FexRequest
<1>5. ASSUME NEW q \in Posts, q # p PROVE Raced(q) => Raced(q)'
  BY <1>0, <1>4, <1>5 DEF Raced, PostShape
<1>6. ASSUME NEW q \in Posts PROVE PostShape(q)'
  BY <1>1, <1>3, <1>4 DEF ExportsInv, PostShape, InSection, Sent
<1>7. OneInSection'
  BY <1>1, <1>3, <1>4 DEF ExportsInv, OneInSection, InSection
<1>8. \A c : LastRequestId(c)' = LastRequestId(c) /\ \A i : LastExportNumber(c, i)' = LastExportNumber(c, i)
  BY <1>0 DEF LastRequestId, LastExportNumber, FexOf
<1>9. IdsInOrder'
  BY <1>0, <1>3, <1>4, <1>8 DEF ExportsInv, IdsInOrder
<1>10. ReadsAreCurrent'
  BY <1>1, <1>3, <1>4, <1>5, <1>8 DEF ExportsInv, ReadsAreCurrent
<1>11. RepliesAreTrue'
  BY <1>0, <1>1, <1>3, <1>4 DEF ExportsInv, RepliesAreTrue, Authorised
<1>12. RowsAreAuthorised' /\ RequestsAddUp' /\ LossWasAnswered'
  BY <1>0, <1>4 DEF ExportsInv, RowsAreAuthorised, RequestsAddUp, LossWasAnswered
<1>13. RejectedOnlyByRace'
  BY <1>1, <1>3, <1>4, <1>5 DEF ExportsInv, RejectedOnlyByRace, Raced
<1> QED BY <1>0, <1>4, <1>6, <1>7, <1>9, <1>10, <1>11, <1>12, <1>13 DEF ExportsInv

\* A read of the number or of the id: r is the post with what it read.
LEMMA ReadInv ==
  ASSUME ExportsInv, NEW p \in Posts, posts[p].step = "reading", UNCHANGED <<exports, fex>>,
         NEW r \in PostRecord, posts' = [posts EXCEPT ![p] = r],
         r.step \in {"reading", "sending"},
         r.step = "sending" => r.number # 0 /\ r.requestId # 0,
         r.issuer = posts[p].issuer, r.input = posts[p].input,
         \/ r.requestId = posts[p].requestId
         \/ r.requestId = 1 + LastRequestId(CuitOf(p)),
         \/ r.number = posts[p].number
         \/ r.number = 1 + LastExportNumber(CuitOf(p), posts[p].input)
  PROVE  ExportsInv'
<1>0. /\ posts \in [Posts -> PostRecord] /\ PostShape(p) /\ fex' = fex /\ exports' = exports
      /\ IsFiniteSet(fex)
  BY DEF ExportsInv
<1>1. /\ posts' \in [Posts -> PostRecord] /\ posts'[p] = r
      /\ \A q \in Posts : /\ q # p => posts'[q] = posts[q] /\ FexRequest(q)' = FexRequest(q)
                          /\ posts'[q].issuer = posts[q].issuer /\ CuitOf(q)' = CuitOf(q)
  BY <1>0 DEF CuitOf, FexRequest
<1>2. \A q \in Posts : Raced(q)' <=> Raced(q)
  BY <1>1 DEF Raced
<1>3. ASSUME NEW q \in Posts PROVE PostShape(q)'
  BY <1>0, <1>1 DEF ExportsInv, PostShape, InSection, Sent
<1>4. OneInSection'
  BY <1>0, <1>1 DEF ExportsInv, OneInSection, InSection
<1>5. \A c : LastRequestId(c)' = LastRequestId(c) /\ \A i : LastExportNumber(c, i)' = LastExportNumber(c, i)
  BY <1>0 DEF LastRequestId, LastExportNumber, FexOf
<1>6. LastRequestId(CuitOf(p)) \in Nat
  BY <1>0, Counted
<1>7. IdsInOrder'
  BY <1>0, <1>1, <1>5, <1>6 DEF ExportsInv, IdsInOrder
<1>8. ReadsAreCurrent'
  BY <1>0, <1>1, <1>2, <1>5 DEF ExportsInv, ReadsAreCurrent
<1>9. RepliesAreTrue'
  BY <1>0, <1>1 DEF ExportsInv, RepliesAreTrue, Authorised
<1>10. RowsAreAuthorised' /\ RequestsAddUp' /\ LossWasAnswered'
  BY <1>0, <1>1 DEF ExportsInv, RowsAreAuthorised, RequestsAddUp, LossWasAnswered
<1>11. RejectedOnlyByRace'
  BY <1>1, <1>2 DEF ExportsInv, RejectedOnlyByRace, Raced
<1> QED BY <1>0, <1>1, <1>3, <1>4, <1>7, <1>8, <1>9, <1>10, <1>11 DEF ExportsInv

LEMMA ReadsInv ==
  ASSUME ExportsInv, NEW p \in Posts, ReadLastNumber(p) \/ ReadLastRequestId(p) PROVE ExportsInv'
<1>0. /\ posts \in [Posts -> PostRecord] /\ posts[p] \in PostRecord /\ IsFiniteSet(fex)
      /\ LastRequestId(CuitOf(p)) \in Nat /\ LastExportNumber(CuitOf(p), posts[p].input) \in Nat
  BY Counted DEF ExportsInv
<1>1. CASE ReadLastNumber(p)
  <2> DEFINE n == 1 + LastExportNumber(CuitOf(p), posts[p].input)
             s == IF posts[p].requestId = 0 THEN "reading" ELSE "sending"
             r == [posts[p] EXCEPT !.number = n, !.step = s]
  <2>1. n \in Nat /\ n # 0 /\ s \in {"reading", "sending"} /\ (s = "sending" => posts[p].requestId # 0)
    BY <1>0
  <2>2. posts' = [posts EXCEPT ![p] = r] /\ posts[p].step = "reading" /\ UNCHANGED <<exports, fex>>
    BY <1>0, <1>1 DEF ReadLastNumber, UnchangedButPosts
  <2> HIDE DEF s
  <2>3. /\ r \in PostRecord /\ r.step = s /\ r.number = n /\ r.requestId = posts[p].requestId
        /\ r.issuer = posts[p].issuer /\ r.input = posts[p].input
    BY <1>0, <2>1 DEF PostRecord, Steps, InSection
  <2> HIDE DEF r
  <2> QED BY <2>1, <2>2, <2>3, ReadInv
<1>2. CASE ReadLastRequestId(p)
  <2> DEFINE n == 1 + LastRequestId(CuitOf(p))
             s == IF posts[p].number = 0 THEN "reading" ELSE "sending"
             r == [posts[p] EXCEPT !.requestId = n, !.step = s]
  <2>1. n \in Nat /\ n # 0 /\ s \in {"reading", "sending"} /\ (s = "sending" => posts[p].number # 0)
    BY <1>0
  <2>2. posts' = [posts EXCEPT ![p] = r] /\ posts[p].step = "reading" /\ UNCHANGED <<exports, fex>>
    BY <1>0, <1>2 DEF ReadLastRequestId, UnchangedButPosts
  <2> HIDE DEF s
  <2>3. /\ r \in PostRecord /\ r.step = s /\ r.requestId = n /\ r.number = posts[p].number
        /\ r.issuer = posts[p].issuer /\ r.input = posts[p].input
    BY <1>0, <2>1 DEF PostRecord, Steps, InSection
  <2> HIDE DEF r
  <2> QED BY <2>1, <2>2, <2>3, ReadInv
<1> QED BY <1>1, <1>2

\* WSFEX authorises the post: its number and id were the next ones.
LEMMA AuthoriseInv ==
  ASSUME ExportsInv, NEW p \in Posts, AuthorizeExport(p) PROVE ExportsInv'
<1>c. PICK c : c = CuitOf(p)
  OBVIOUS
<1>0. /\ posts \in [Posts -> PostRecord] /\ posts[p] \in PostRecord /\ IsFiniteSet(fex)
      /\ posts[p].step = "sending" /\ exports' = exports /\ PostShape(p)
  BY DEF ExportsInv, AuthorizeExport
<1>1. PICK observed \in BOOLEAN, arrives \in BOOLEAN :
        /\ fex' = fex \cup {[cuit |-> c, request |-> FexRequest(p), observed |-> observed]}
        /\ posts' = IF arrives
                    THEN [posts EXCEPT ![p].step = "recording",
                            ![p].reply = [cae |-> Cae(c, posts[p].requestId), observed |-> observed]]
                    ELSE Step(p, "failed")
  BY <1>c DEF AuthorizeExport
<1> DEFINE new == [cuit |-> c, request |-> FexRequest(p), observed |-> observed]
           r == IF arrives THEN [posts[p] EXCEPT !.step = "recording", !.reply = ReplyOf(new)]
                ELSE [posts[p] EXCEPT !.step = "failed"]
<1>2. /\ new.cuit = c /\ new.request = FexRequest(p) /\ new.observed = observed
      /\ new.request.Id = posts[p].requestId
  BY DEF FexRequest
<1>3. fex' = fex \cup {new} /\ posts' = [posts EXCEPT ![p] = r]
  BY <1>0, <1>1, <1>2 DEF ReplyOf, Step
<1>4. r \in PostRecord /\ r.step \in {"recording", "failed"} /\ SameContent(r, posts[p])
      /\ (r.step = "recording" => r.reply = ReplyOf(new))
  <2>1. c \in Range(IssuerCuit)
    BY <1>c, <1>0 DEF PostShape, InSection, CuitOf, Issuers, Range
  <2>2. ReplyOf(new) \in [cae : {None} \cup (Range(IssuerCuit) \X Nat), observed : BOOLEAN]
    BY <1>0, <1>2, <2>1 DEF ReplyOf, Cae, PostRecord
  <2> QED BY <1>0, <2>2 DEF PostRecord, SameContent, Steps, InSection
<1> HIDE DEF r, new
<1>5. /\ posts' \in [Posts -> PostRecord] /\ posts'[p] = r
      /\ \A q \in Posts : q # p => posts'[q] = posts[q]
      /\ \A q \in Posts : /\ SameContent(posts'[q], posts[q]) /\ CuitOf(q)' = CuitOf(q)
                          /\ FexRequest(q)' = FexRequest(q) /\ (Raced(q)' <=> Raced(q))
  BY <1>0, <1>3, <1>4, ContentKept
<1>6. ASSUME NEW q \in Posts PROVE PostShape(q)'
  BY <1>0, <1>4, <1>5 DEF ExportsInv, PostShape, SameContent, InSection, Sent
<1>7. OneInSection'
  BY <1>0, <1>4, <1>5 DEF ExportsInv, OneInSection, SameContent, InSection
\* The ids of the CUIT, and those of the others.
<1>8. IsFiniteSet(fex') /\ \A d : LastRequestId(d) \in Nat
  BY <1>0, <1>3, FS_AddElement, Counted
<1>9. posts[p].requestId = 1 + LastRequestId(c)
  <2>1. posts[p].requestId > LastRequestId(c) /\ posts[p].requestId \in Nat
    BY <1>c, <1>0 DEF AuthorizeExport, Authorisable, PostRecord
  <2>2. posts[p].requestId # 0 => posts[p].requestId <= 1 + LastRequestId(c)
    BY <1>c DEF ExportsInv, IdsInOrder
  <2> QED BY <1>8, <2>1, <2>2
<1>10. new \notin fex
  BY <1>2, <1>8, <1>9 DEF ExportsInv, IdsInOrder
<1>11. LastRequestId(c)' = 1 + LastRequestId(c)
  <2>1. FexOf(c)' = FexOf(c) \cup {new} /\ new \notin FexOf(c) /\ IsFiniteSet(FexOf(c))
    BY <1>0, <1>2, <1>3, <1>10, Counted DEF FexOf
  <2>2. Cardinality(FexOf(c) \cup {new}) = Cardinality(FexOf(c)) + 1
    BY <2>1, FS_AddElement
  <2>3. LastRequestId(c) \in Nat
    BY <1>8
  <2> QED BY <2>1, <2>2, <2>3 DEF LastRequestId
<1>12. ASSUME NEW d, d # c
       PROVE  LastRequestId(d)' = LastRequestId(d) /\ \A i : LastExportNumber(d, i)' = LastExportNumber(d, i)
  <2>1. FexOf(d)' = FexOf(d)
    BY <1>2, <1>3, <1>12 DEF FexOf
  <2> QED BY <2>1 DEF LastRequestId, LastExportNumber
<1>13. IdsInOrder'
  <2>1. ASSUME NEW a \in fex' PROVE a.observed \in BOOLEAN /\ a.request.Id \in 1..LastRequestId(a.cuit)'
    <3>1. CASE a = new
      BY <1>2, <1>8, <1>9, <1>11, <3>1
    <3>2. CASE a \in fex
      BY <1>8, <1>11, <1>12, <3>2 DEF ExportsInv, IdsInOrder
    <3> QED BY <1>3, <3>1, <3>2
  <2>2. ASSUME NEW a \in fex', NEW b \in fex', a.cuit = b.cuit, a.request.Id = b.request.Id PROVE a = b
    <3>1. ASSUME NEW e \in fex, e.cuit = c PROVE e.request.Id # new.request.Id
      BY <1>2, <1>8, <1>9, <3>1 DEF ExportsInv, IdsInOrder
    <3> QED BY <1>2, <1>3, <2>2, <3>1 DEF ExportsInv, IdsInOrder
  <2>3. ASSUME NEW q \in Posts, posts'[q].requestId # 0
        PROVE  posts'[q].requestId <= 1 + LastRequestId(CuitOf(q))'
    <3>1. posts'[q].requestId = posts[q].requestId /\ posts[q].requestId \in Nat
      BY <1>0, <1>5 DEF SameContent, PostRecord
    <3>2. PICK d : d = CuitOf(q)
      OBVIOUS
    <3>3. CuitOf(q)' = d /\ posts[q].requestId <= 1 + LastRequestId(d)
      BY <1>5, <2>3, <3>1, <3>2 DEF ExportsInv, IdsInOrder
    <3>4. posts[q].requestId <= 1 + LastRequestId(d)'
      BY <1>8, <1>11, <1>12, <3>1, <3>3
    <3> QED BY <3>1, <3>3, <3>4
  <2> QED BY <1>3, <2>1, <2>2, <2>3 DEF IdsInOrder
<1>14. ReadsAreCurrent'
  <2> SUFFICES ASSUME NEW q \in Posts, posts'[q].step \in {"reading", "sending"}, ~Raced(q)
               PROVE  /\ posts'[q].requestId # 0 => posts'[q].requestId = 1 + LastRequestId(CuitOf(q))'
                      /\ posts'[q].number # 0 =>
                           posts'[q].number = 1 + LastExportNumber(CuitOf(q), posts[q].input)'
    BY <1>5 DEF ReadsAreCurrent
  <2>1. q # p /\ posts'[q] = posts[q]
    BY <1>4, <1>5
  <2>2. PICK d : d = CuitOf(q)
    OBVIOUS
  <2>3. d # c
    <3>1. posts[q].issuer # posts[p].issuer
      BY <1>0, <2>1 DEF ExportsInv, OneInSection, InSection
    <3> QED BY <1>c, <1>0, <2>1, <2>2, <3>1 DEF Raced, PostShape, InSection
  <2>4. CuitOf(q)' = d
    BY <1>5, <2>2
  <2>5. PICK i : i = posts[q].input
    OBVIOUS
  <2>6. LastRequestId(d)' = LastRequestId(d) /\ LastExportNumber(d, i)' = LastExportNumber(d, i)
    BY <1>12, <2>3
  <2>7. /\ posts[q].requestId # 0 => posts[q].requestId = 1 + LastRequestId(d)
        /\ posts[q].number # 0 => posts[q].number = 1 + LastExportNumber(d, i)
    BY <2>1, <2>2, <2>5 DEF ExportsInv, ReadsAreCurrent
  <2> QED BY <2>1, <2>4, <2>5, <2>6, <2>7
<1>15. RepliesAreTrue'
  <2> SUFFICES ASSUME NEW q \in Posts, posts'[q].step \in {"recording", "creating"}
               PROVE  \E a \in fex' : Authorised(q, a)' /\ posts'[q].reply = ReplyOf(a)
    BY DEF RepliesAreTrue
  <2>1. CASE q = p
    BY <1>c, <1>2, <1>3, <1>4, <1>5, <2>1 DEF Authorised
  <2>2. CASE q # p
    <3>1. PICK a \in fex : Authorised(q, a) /\ posts[q].reply = ReplyOf(a)
      BY <1>5, <2>2 DEF ExportsInv, RepliesAreTrue
    <3> QED BY <1>3, <1>5, <2>2, <3>1 DEF Authorised
  <2> QED BY <2>1, <2>2
<1>16. RowsAreAuthorised' /\ RequestsAddUp'
  BY <1>0, <1>2, <1>3, RequestAddsUp DEF ExportsInv, RowsAreAuthorised, RequestsAddUp
<1>17. LossWasAnswered'
  BY <1>c, <1>0, <1>2, <1>3, <1>4, <1>5 DEF ExportsInv, LossWasAnswered
<1>18. RejectedOnlyByRace'
  BY <1>4, <1>5 DEF ExportsInv, RejectedOnlyByRace, Raced
<1> QED BY <1>5, <1>6, <1>7, <1>8, <1>13, <1>14, <1>15, <1>16, <1>17, <1>18 DEF ExportsInv

-----------------------------------------------------------------------------
(* The theorem *)

\* The rows two issuers make of one authorisation differ in their issuer only.
LEMMA RowsOfOneCae ==
  ASSUME NEW a, NEW i, NEW j PROVE [RowOf(i, a) EXCEPT !.issuer = j] = RowOf(j, a)
<1> DEFINE status == IF a.observed THEN "OBSERVED" ELSE "APPROVED"
           detail == [exportType |-> a.request.Tipo_expo, language |-> a.request.Idioma_cbte,
                      incoterm |-> a.request.Incoterms, shippingPermits |-> a.request.Permisos]
           subtotals == [k \in DOMAIN a.request.Items |-> a.request.Items[k].total]
           Row(k) ==
             [issuer |-> k, salesPoint |-> a.request.Punto_vta, voucherType |-> a.request.Cbte_tipo,
              number |-> a.request.Cbte_nro, concept |-> 1, netAmount |-> 0, ivaAmount |-> 0,
              exemptAmount |-> a.request.Imp_total, totalAmount |-> a.request.Imp_total,
              status |-> status, cae |-> Cae(a.cuit, a.request.Id), requestId |-> a.request.Id,
              associatedVouchers |-> a.request.Cmps_asoc, exportDetail |-> detail,
              subtotals |-> subtotals]
<1>1. RowOf(i, a) = Row(i) /\ RowOf(j, a) = Row(j)
  BY DEF RowOf
<1>2. [Row(i) EXCEPT !.issuer = j] = Row(j)
  <2> HIDE DEF status, detail, subtotals
  <2> QED OBVIOUS
<1> QED BY <1>1, <1>2

LEMMA ExportsInvImplies == ExportsInv => ExportsHold
<1> SUFFICES ASSUME ExportsInv PROVE StoredAsAuthorised /\ StoredOnce
  BY DEF ExportsInv, ExportsHold
<1>1. StoredAsAuthorised
  <2> SUFFICES ASSUME NEW row \in exports, NEW a \in fex,
                      a.cuit = IssuerCuit[row.issuer], row = RowOf(row.issuer, a)
               PROVE  /\ row.cae = Cae(a.cuit, a.request.Id) /\ a.cuit = IssuerCuit[row.issuer]
                      /\ row.requestId = a.request.Id /\ row.number = a.request.Cbte_nro
                      /\ row.salesPoint = a.request.Punto_vta /\ row.voucherType = a.request.Cbte_tipo
                      /\ row.totalAmount = a.request.Imp_total
                      /\ SumOf(row.subtotals, LAMBDA s : s) = row.totalAmount
                      /\ row.exportDetail.shippingPermits = a.request.Permisos
    BY DEF ExportsInv, RowsAreAuthorised, StoredAsAuthorised
  <2>1. row.subtotals = [i \in DOMAIN a.request.Items |-> a.request.Items[i].total]
    BY DEF RowOf
  <2>2. row.totalAmount = a.request.Imp_total
    BY DEF RowOf
  <2>3. SumOf(row.subtotals, LAMBDA s : s) = row.totalAmount
    BY <2>1, <2>2 DEF ExportsInv, RequestsAddUp, AddsUp
  <2> QED BY <2>2, <2>3 DEF RowOf
<1>2. StoredOnce
  <2> SUFFICES ASSUME NEW x \in exports, NEW y \in exports, x # y, x.cae = y.cae
               PROVE  x.issuer # y.issuer /\ [x EXCEPT !.issuer = y.issuer] = y
    BY DEF StoredOnce
  <2>1. PICK a \in fex : x = RowOf(x.issuer, a)
    BY DEF ExportsInv, RowsAreAuthorised
  <2>2. PICK b \in fex : y = RowOf(y.issuer, b)
    BY DEF ExportsInv, RowsAreAuthorised
  <2>3. Cae(a.cuit, a.request.Id) = Cae(b.cuit, b.request.Id)
    BY <2>1, <2>2 DEF RowOf
  <2>4. a = b
    BY <2>3 DEF Cae, ExportsInv, IdsInOrder
  <2>5. [RowOf(x.issuer, a) EXCEPT !.issuer = y.issuer] = RowOf(y.issuer, a)
    BY RowsOfOneCae
  <2> QED BY <2>1, <2>2, <2>4, <2>5
<1> QED BY <1>1, <1>2

LEMMA ExportsStepInv == ExportsInv /\ [ExportsNext]_exportVars => ExportsInv'
<1> SUFFICES ASSUME ExportsInv, [ExportsNext]_exportVars PROVE ExportsInv'
  OBVIOUS
<1>1. CASE UNCHANGED exportVars
  <2>1. posts' = posts /\ fex' = fex /\ exports' = exports
    BY <1>1 DEF exportVars
  <2>2. \A q : /\ CuitOf(q)' = CuitOf(q) /\ FexRequest(q)' = FexRequest(q) /\ (Raced(q)' <=> Raced(q))
               /\ PostShape(q)' <=> PostShape(q)
    BY <2>1 DEF CuitOf, FexRequest, Raced, PostShape
  <2>3. \A c : LastRequestId(c)' = LastRequestId(c) /\ \A i : LastExportNumber(c, i)' = LastExportNumber(c, i)
    BY <2>1 DEF LastRequestId, LastExportNumber, FexOf
  <2>4. OneInSection' /\ IdsInOrder' /\ ReadsAreCurrent'
    BY <2>1, <2>2, <2>3 DEF ExportsInv, OneInSection, IdsInOrder, ReadsAreCurrent
  <2>5. RepliesAreTrue' /\ RowsAreAuthorised' /\ RequestsAddUp'
    BY <2>1, <2>2 DEF ExportsInv, RepliesAreTrue, Authorised, RowsAreAuthorised, RequestsAddUp
  <2>6. LossWasAnswered' /\ RejectedOnlyByRace'
    BY <2>1, <2>2 DEF ExportsInv, LossWasAnswered, RejectedOnlyByRace, Raced
  <2> QED BY <2>1, <2>2, <2>4, <2>5, <2>6 DEF ExportsInv
<1>2. CASE ExportsNext
  <2>1. PICK p \in Posts :
          \/ \E issuer \in Issuers \cup {None}, input \in ExportInputs : PostExport(p, issuer, input)
          \/ ReadLastNumber(p) \/ ReadLastRequestId(p)
          \/ AuthorizeExport(p)
          \/ MovesOn(p)
    BY <1>2 DEF ExportsNext, MovesOn
  <2> QED BY <2>1, PostExportInv, ReadsInv, AuthoriseInv, MovesOnInv
<1> QED BY <1>1, <1>2

\* Whatever posts overlap, every export stored is the one authorised under its
\* CAE, and adds up; a CAE is stored twice only by two rows of one CUIT; one
\* that is lost was answered with an error; and a post is rejected for its
\* number only when it raced with another row of the CUIT.
THEOREM ExportsAreFaithful == ExportsSpec => []ExportsHold
<1>1. ExportsInit => ExportsInv
  BY ExportsInitInv
<1>2. ExportsInv /\ [ExportsNext]_exportVars => ExportsInv'
  BY ExportsStepInv
<1>3. ExportsInv => ExportsHold
  BY ExportsInvImplies
<1> QED BY <1>1, <1>2, <1>3, PTL DEF ExportsSpec

-----------------------------------------------------------------------------
(* Facts about sets and naturals.                                             *)

Below == {pair \in Nat \X Nat : pair[1] < pair[2]}

\* A set of naturals has a least element.
LEMMA LeastElement ==
  ASSUME NEW T \in SUBSET Nat, T # {}
  PROVE  \E least \in T : \A x \in T : least <= x
<1>1. IsWellFoundedOn(Below, Nat)
  BY NatLessThanWellFounded DEF OpToRel, Below
<1>2. PICK least \in T : \A x \in T : ~ (<<x, least>> \in Below)
  BY <1>1, WFMin
<1>3. \A x \in T : least <= x
  <2> TAKE x \in T
  <2>1. <<x, least>> \notin Below /\ x \in Nat /\ least \in Nat
    BY <1>2
  <2> QED BY <2>1 DEF Below
<1> QED BY <1>3

\* What holds of zero and of the next of each holds of every natural.
LEMMA EveryNatural ==
  ASSUME NEW T \in SUBSET Nat, 0 \in T, \A n \in T : n + 1 \in T
  PROVE  T = Nat
<1> SUFFICES ASSUME Nat \ T # {} PROVE FALSE
  OBVIOUS
<1>1. PICK least \in Nat \ T : \A x \in Nat \ T : least <= x
  BY LeastElement
<1>2. least # 0 /\ least - 1 \in Nat
  BY <1>1
<1>3. least - 1 \in T
  BY <1>1, <1>2
<1> QED BY <1>1, <1>2, <1>3

\* Naturals can be added up: a sum over 1..n is defined by its first terms.
SumsUpTo(sum, n, term) ==
  DOMAIN sum = 0..n /\ \A m \in 0..n : sum[m] = IF m = 0 THEN 0 ELSE sum[m - 1] + term[m]

LEMMA SumsExist ==
  ASSUME NEW term
  PROVE  \E sum : sum = [n \in Nat |-> IF n = 0 THEN 0 ELSE sum[n - 1] + term[n]]
<1>1. \A n \in Nat : \E sum : SumsUpTo(sum, n, term)
  <2> DEFINE T == {n \in Nat : \E sum : SumsUpTo(sum, n, term)}
  <2>1. 0 \in T
    <3>1. SumsUpTo([m \in 0..0 |-> 0], 0, term)
      BY DEF SumsUpTo
    <3> QED BY <3>1
  <2>2. ASSUME NEW n \in T PROVE n + 1 \in T
    <3>1. PICK sum : SumsUpTo(sum, n, term)
      OBVIOUS
    <3>2. SumsUpTo([m \in 0..(n + 1) |-> IF m = n + 1 THEN sum[n] + term[n + 1] ELSE sum[m]], n + 1, term)
      BY <3>1 DEF SumsUpTo
    <3> QED BY <3>2
  <2> HIDE DEF T
  <2>3. T = Nat
    <3>1. T \in SUBSET Nat
      BY DEF T
    <3> QED BY <2>1, <2>2, <3>1, EveryNatural
  <2> QED BY <2>3 DEF T
<1> DEFINE first == [n \in Nat |-> CHOOSE sum : SumsUpTo(sum, n, term)]
           all == [n \in Nat |-> first[n][n]]
<1>2. \A n \in Nat : SumsUpTo(first[n], n, term)
  BY <1>1
<1> HIDE DEF first
<1>3. \A m \in Nat : \A n \in Nat : m <= n => first[n][m] = first[m][m]
  <2> DEFINE T == {m \in Nat : \A n \in Nat : m <= n => first[n][m] = first[m][m]}
  <2>1. 0 \in T
    BY <1>2 DEF SumsUpTo
  <2>2. ASSUME NEW m \in T PROVE m + 1 \in T
    <3>1. ASSUME NEW n \in Nat, m + 1 <= n PROVE first[n][m + 1] = first[m + 1][m + 1]
      <4>1. first[n][m] = first[m][m] /\ first[m + 1][m] = first[m][m]
        BY <3>1
      <4>2. first[n][m + 1] = first[n][m] + term[m + 1]
        BY <1>2, <3>1 DEF SumsUpTo
      <4>3. first[m + 1][m + 1] = first[m + 1][m] + term[m + 1]
        BY <1>2 DEF SumsUpTo
      <4> QED BY <4>1, <4>2, <4>3
    <3> QED BY <3>1
  <2> HIDE DEF T
  <2>3. T = Nat
    <3>1. T \in SUBSET Nat
      BY DEF T
    <3> QED BY <2>1, <2>2, <3>1, EveryNatural
  <2> QED BY <2>3 DEF T
<1>4. ASSUME NEW n \in Nat PROVE all[n] = IF n = 0 THEN 0 ELSE all[n - 1] + term[n]
  <2>1. CASE n = 0
    BY <1>2, <2>1 DEF SumsUpTo
  <2>2. CASE n # 0
    <3>1. n - 1 \in Nat /\ n - 1 <= n
      BY <2>2
    <3>2. first[n][n] = first[n][n - 1] + term[n]
      BY <1>2, <2>2 DEF SumsUpTo
    <3>3. first[n][n - 1] = first[n - 1][n - 1]
      BY <1>3, <3>1
    <3> QED BY <2>2, <3>1, <3>2, <3>3
  <2> QED BY <2>1, <2>2
<1>5. all = [n \in Nat |-> IF n = 0 THEN 0 ELSE all[n - 1] + term[n]]
  <2> DEFINE g == [n \in Nat |-> IF n = 0 THEN 0 ELSE all[n - 1] + term[n]]
  <2>1. \A n \in Nat : g[n] = all[n]
    BY <1>4
  <2>2. DOMAIN g = Nat /\ DOMAIN all = Nat
    OBVIOUS
  <2> QED BY <2>1, <2>2, Zenon
<1> HIDE DEF all
<1> QED BY <1>5

\* A bounded set of naturals has a largest element, and Max is it.
LEMMA MaxOfBounded ==
  ASSUME NEW T \in SUBSET Nat, T # {}, NEW bound \in Nat, \A x \in T : x <= bound
  PROVE  Max(T) \in T /\ \A x \in T : x <= Max(T)
<1> DEFINE Short == {bound - x : x \in T}
<1>1. Short \in SUBSET Nat /\ Short # {}
  <2>1. \A x \in T : bound - x \in Nat
    OBVIOUS
  <2> QED BY <2>1
<1>2. PICK least \in Short : \A y \in Short : least <= y
  BY <1>1, LeastElement
<1>3. PICK largest \in T : least = bound - largest
  BY <1>2
<1>4. \A x \in T : x <= largest
  BY <1>2, <1>3
<1>5. \E x \in T : \A y \in T : x >= y
  BY <1>4
<1> QED BY <1>5 DEF Max

\* A finite set is the range of its sequence.
LEMMA SetToSeqOf ==
  ASSUME NEW S, IsFiniteSet(S)
  PROVE  SetToSeq(S) \in [1..Cardinality(S) -> S]
<1>1. \E f \in [1..Cardinality(S) -> S] : IsInjective(f)
  BY FS_CardinalityType DEF ExistsBijection, Bijection, Injection
<1> QED BY <1>1 DEF SetToSeq

-----------------------------------------------------------------------------
(* The numbering check.  The inductive invariant.                             *)

GroupRow == [group : Groups, last : Nat]
Status == [group : Groups, lastInDatabase : Nat, lastInArca : Nat, missingInDatabase : Nat]

StoredWasAuthorised ==
  /\ atArca \in [Groups -> Nat]
  /\ stored \in [Groups -> SUBSET Nat]
  /\ \A group \in Groups : stored[group] \subseteq 1..atArca[group]

Earlier(before) == before \in [Groups -> Nat] /\ \A group \in Groups : before[group] <= atArca[group]

\* What a report says of a group, and what was authorised before it.
StatusHolds(status, before) ==
  IF status.group \in ExportGroups THEN status.missingInDatabase = 0
  ELSE /\ status.missingInDatabase >=
            Cardinality({n \in 1..before[status.group] : n > status.lastInDatabase})
       /\ status.lastInArca <= atArca[status.group]
       /\ status.lastInDatabase \in stored[status.group]
       /\ status.missingInDatabase = status.lastInArca - status.lastInDatabase

StatusesHold(statuses, before) ==
  statuses \in Seq(Status) /\ \A i \in DOMAIN statuses : StatusHolds(statuses[i], before)

GroupsAreStored(groups) ==
  groups \in Seq(GroupRow) /\ \A i \in DOMAIN groups : groups[i].last \in stored[groups[i].group]

ReconciliationInv ==
  /\ StoredWasAuthorised
  /\ DOMAIN check = {"step", "groups", "statuses", "before"} /\ Earlier(check.before)
  /\ GroupsAreStored(check.groups) /\ StatusesHold(check.statuses, check.before)
  /\ Earlier(report.before) /\ StatusesHold(report.statuses, report.before)

LEMMA ReconciliationInitInv == ReconciliationInit => ReconciliationInv
<1> SUFFICES ASSUME ReconciliationInit PROVE ReconciliationInv
  OBVIOUS
<1>1. StoredWasAuthorised /\ Earlier(atArca) /\ Earlier(NoCheck.before)
  BY DEF ReconciliationInit, StoredWasAuthorised, Earlier, NoCheck
<1>2. \A before : GroupsAreStored(<<>>) /\ StatusesHold(<<>>, before)
  BY DEF GroupsAreStored, StatusesHold
<1> QED BY <1>1, <1>2 DEF ReconciliationInit, ReconciliationInv, NoCheck

\* ARCA's last number of a group and its stored rows only grow.
LEMMA GrowingKeepsReports ==
  ASSUME ReconciliationInv, StoredWasAuthorised', UNCHANGED <<check, report>>,
         \A group \in Groups : atArca[group] <= atArca'[group] /\ stored[group] \subseteq stored'[group]
  PROVE  ReconciliationInv'
<1>1. ASSUME NEW before, Earlier(before) PROVE Earlier(before)'
  BY <1>1 DEF Earlier, StoredWasAuthorised, ReconciliationInv
<1>2. ASSUME NEW groups, GroupsAreStored(groups) PROVE GroupsAreStored(groups)'
  <2>1. ASSUME NEW i \in DOMAIN groups PROVE groups[i].last \in stored'[groups[i].group]
    <3>1. groups[i] \in GroupRow /\ groups[i].last \in stored[groups[i].group]
      BY <1>2 DEF GroupsAreStored
    <3> QED BY <3>1 DEF GroupRow
  <2> QED BY <1>2, <2>1 DEF GroupsAreStored
<1>3. ASSUME NEW statuses, NEW before, StatusesHold(statuses, before) PROVE StatusesHold(statuses, before)'
  <2>1. ASSUME NEW i \in DOMAIN statuses PROVE StatusHolds(statuses[i], before)'
    <3>1. PICK status \in Status : status = statuses[i]
      BY <1>3 DEF StatusesHold
    <3>2. StatusHolds(status, before) /\ status.group \in Groups /\ status.lastInArca \in Nat
      BY <1>3, <3>1 DEF StatusesHold, Status
    <3>3. StatusHolds(status, before)'
      BY <3>2 DEF StatusHolds, StoredWasAuthorised, ReconciliationInv
    <3> QED BY <3>1, <3>3
  <2> QED BY <1>3, <2>1 DEF StatusesHold
<1>4. PICK b, c, g, s, t : b = check.before /\ c = report.before /\ g = check.groups /\ s = check.statuses
                           /\ t = report.statuses
  OBVIOUS
<1>5. Earlier(b) /\ Earlier(c) /\ GroupsAreStored(g) /\ StatusesHold(s, b) /\ StatusesHold(t, c)
  BY <1>4 DEF ReconciliationInv
<1>6. Earlier(b)' /\ Earlier(c)' /\ GroupsAreStored(g)' /\ StatusesHold(s, b)' /\ StatusesHold(t, c)'
  BY <1>1, <1>2, <1>3, <1>5
<1>7. check'.before = b /\ report'.before = c /\ check'.groups = g /\ check'.statuses = s /\ report'.statuses = t
  BY <1>4
<1> QED BY <1>6, <1>7 DEF ReconciliationInv

\* The check changes neither ARCA nor the table.
LEMMA CheckKeepsReports ==
  ASSUME ReconciliationInv, UNCHANGED <<atArca, stored>>,
         NEW before, NEW groups, NEW statuses, NEW reportBefore, NEW reportStatuses,
         Earlier(before), GroupsAreStored(groups), StatusesHold(statuses, before),
         Earlier(reportBefore), StatusesHold(reportStatuses, reportBefore),
         DOMAIN check' = {"step", "groups", "statuses", "before"},
         check'.before = before, check'.groups = groups, check'.statuses = statuses,
         report'.before = reportBefore, report'.statuses = reportStatuses
  PROVE  ReconciliationInv'
<1>1. /\ StoredWasAuthorised' /\ Earlier(before)' /\ GroupsAreStored(groups)' /\ StatusesHold(statuses, before)'
      /\ Earlier(reportBefore)' /\ StatusesHold(reportStatuses, reportBefore)'
  BY DEF ReconciliationInv, StoredWasAuthorised, Earlier, GroupsAreStored, StatusesHold, StatusHolds
<1> QED BY <1>1 DEF ReconciliationInv

\* ARCA's answer accounts for what is above the largest row.
LEMMA AboveTheLargest ==
  ASSUME NEW low \in Nat, NEW high \in Nat, NEW last \in Nat, low <= last, high <= last
  PROVE  Cardinality({n \in 1..high : n > low}) <= last - low
<1>1. {n \in 1..high : n > low} = (low + 1)..high
  OBVIOUS
<1>2. Cardinality((low + 1)..high) = IF low + 1 > high THEN 0 ELSE high - (low + 1) + 1
  <2>1. low + 1 \in Int /\ high \in Int
    OBVIOUS
  <2> QED BY <2>1, FS_Interval
<1>3. (IF low + 1 > high THEN 0 ELSE high - (low + 1) + 1) <= last - low
  OBVIOUS
<1>4. Cardinality({n \in 1..high : n > low}) = Cardinality((low + 1)..high)
  BY <1>1
<1> QED BY <1>2, <1>3, <1>4

LEMMA AnswerAccounts ==
  ASSUME StoredWasAuthorised, NEW before, Earlier(before), NEW row \in GroupRow,
         row.last \in stored[row.group],
         NEW last, last = IF row.group \in ExportGroups THEN 0 ELSE atArca[row.group],
         NEW status, status = NumberingStatus(row.group, row.last, last)
  PROVE  status \in Status /\ StatusHolds(status, before)
<1>1. row.group \in Groups /\ row.last \in Nat /\ last \in Nat
  BY DEF GroupRow, StoredWasAuthorised
<1>2. status \in Status
  BY <1>1 DEF NumberingStatus, Status
<1>3. /\ status.group = row.group /\ status.lastInDatabase = row.last /\ status.lastInArca = last
      /\ status.missingInDatabase = IF last > row.last THEN last - row.last ELSE 0
  BY DEF NumberingStatus
<1>4. PICK high : high = before[row.group]
  OBVIOUS
<1>5. /\ row.last \in 1..atArca[row.group] /\ atArca[row.group] \in Nat
      /\ high \in Nat /\ high <= atArca[row.group]
  BY <1>1, <1>4 DEF StoredWasAuthorised, Earlier
<1>6. CASE row.group \in ExportGroups
  BY <1>1, <1>2, <1>3, <1>6 DEF StatusHolds
<1>7. CASE row.group \notin ExportGroups
  <2>1. last = atArca[row.group] /\ row.last <= last /\ high <= last
    BY <1>5, <1>7
  <2>2. Cardinality({n \in 1..high : n > row.last}) <= last - row.last
    BY <1>1, <1>5, <2>1, AboveTheLargest
  <2>3. status.missingInDatabase = last - row.last
    BY <1>1, <1>3, <2>1
  <2>4. status.missingInDatabase >= Cardinality({n \in 1..before[status.group] : n > status.lastInDatabase})
    <3>1. {n \in 1..before[status.group] : n > status.lastInDatabase} = {n \in 1..high : n > row.last}
      BY <1>3, <1>4
    <3>2. \A c : c <= last - row.last => last - row.last >= c
      BY <1>1
    <3> QED BY <2>2, <2>3, <3>1, <3>2
  <2> QED BY <1>1, <1>2, <1>3, <1>5, <1>7, <2>1, <2>3, <2>4 DEF StatusHolds
<1> QED BY <1>6, <1>7

LEMMA GroupRowsInv == ASSUME ReconciliationInv, GroupRows PROVE ReconciliationInv'
<1>1. StoredWasAuthorised /\ Earlier(atArca)
  BY DEF ReconciliationInv, StoredWasAuthorised, Earlier
<1>2. PICK a : a = atArca
  OBVIOUS
<1>3. PICK b, g, s, c, t : /\ b = check.before /\ g = check.groups /\ s = check.statuses
                           /\ c = report.before /\ t = report.statuses
  OBVIOUS
<1>4. Earlier(a) /\ GroupsAreStored(<<>>) /\ StatusesHold(<<>>, a) /\ UNCHANGED <<atArca, stored>>
  BY <1>1, <1>2 DEF GroupsAreStored, StatusesHold, GroupRows
<1>5. CASE report' = [statuses |-> <<>>, before |-> atArca, answer |-> "ok"] /\ UNCHANGED check
  BY <1>2, <1>3, <1>4, <1>5, CheckKeepsReports DEF ReconciliationInv
<1> DEFINE groups == {group \in Groups : stored[group] # {}}
           found == [group \in groups |-> [group |-> group, last |-> LastInDatabase(group)]]
           lasts == {found[g1] : g1 \in groups}
<1>6. CASE /\ check' = [step |-> "auth", groups |-> SetToSeq(lasts), statuses |-> <<>>, before |-> atArca]
           /\ UNCHANGED report
  <2>1. IsFiniteSet(lasts)
    <3>1. IsFiniteSet(groups)
      BY ReconciliationConstants, FS_Subset
    <3>2. found \in Surjection(groups, lasts)
      BY DEF Surjection
    <3> HIDE DEF groups, found, lasts
    <3> QED BY <3>1, <3>2, FS_Surjection
  <2>2. \A row \in lasts : row \in GroupRow /\ row.last \in stored[row.group]
    <3> TAKE row \in lasts
    <3>1. PICK group \in groups : row = [group |-> group, last |-> LastInDatabase(group)]
      OBVIOUS
    <3>2. /\ stored[group] \in SUBSET Nat /\ atArca[group] \in Nat
          /\ \A x \in stored[group] : x <= atArca[group]
      BY <1>1 DEF StoredWasAuthorised
    <3>3. Max(stored[group]) \in stored[group]
      BY <3>1, <3>2, MaxOfBounded
    <3> HIDE DEF groups, found, lasts
    <3>4. row.group = group /\ row.last = Max(stored[group]) /\ group \in Groups
      BY <3>1 DEF LastInDatabase, groups
    <3>5. row \in GroupRow
      BY <3>1, <3>2, <3>3, <3>4 DEF GroupRow, LastInDatabase
    <3> QED BY <3>3, <3>4, <3>5
  <2>3. PICK sequence : sequence = SetToSeq(lasts)
    OBVIOUS
  <2> HIDE DEF lasts
  <2>4. Cardinality(lasts) \in Nat /\ sequence \in [1..Cardinality(lasts) -> lasts]
    BY <2>1, <2>3, SetToSeqOf, FS_CardinalityType
  <2>5. sequence \in Seq(GroupRow)
    <3>1. sequence \in [1..Cardinality(lasts) -> GroupRow]
      BY <2>2, <2>4
    <3> QED BY <2>4, <3>1
  <2>6. \A i \in DOMAIN sequence : sequence[i].last \in stored[sequence[i].group]
    BY <2>2, <2>4
  <2>7. GroupsAreStored(sequence)
    BY <2>5, <2>6 DEF GroupsAreStored
  <2> QED BY <1>2, <1>3, <1>4, <1>6, <2>3, <2>7, CheckKeepsReports DEF ReconciliationInv
<1> QED BY <1>5, <1>6 DEF GroupRows

LEMMA CheckStepsInv ==
  ASSUME ReconciliationInv, CheckAuth \/ AskArca \/ CheckFails \/ CheckEnds
  PROVE  ReconciliationInv'
<1>1. PICK b, g, s, c, t : /\ b = check.before /\ g = check.groups /\ s = check.statuses
                           /\ c = report.before /\ t = report.statuses
  OBVIOUS
<1>2. /\ Earlier(b) /\ Earlier(c) /\ GroupsAreStored(g) /\ StatusesHold(s, b) /\ StatusesHold(t, c)
      /\ DOMAIN check = {"step", "groups", "statuses", "before"} /\ StoredWasAuthorised
  BY <1>1 DEF ReconciliationInv
<1>3. UNCHANGED <<atArca, stored>>
  BY DEF CheckAuth, AskArca, CheckFails, CheckEnds
<1>4. GroupsAreStored(<<>>) /\ StatusesHold(<<>>, b)
  BY DEF GroupsAreStored, StatusesHold
<1>5. CASE CheckAuth
  <2>1. /\ DOMAIN check' = {"step", "groups", "statuses", "before"} /\ check'.before = b
        /\ check'.groups = g /\ check'.statuses = s /\ report' = report
    BY <1>1, <1>2, <1>5 DEF CheckAuth
  <2> QED BY <1>1, <1>2, <1>3, <2>1, CheckKeepsReports
<1>6. CASE AskArca
  <2>1. PICK row : row = Head(g)
    OBVIOUS
  <2>2. PICK last : last = IF row.group \in ExportGroups THEN 0 ELSE atArca[row.group]
    OBVIOUS
  <2>3. PICK answered : answered = NumberingStatus(row.group, row.last, last)
    OBVIOUS
  <2>4. g # <<>> /\ g \in Seq(GroupRow)
    BY <1>1, <1>2, <1>6 DEF AskArca, GroupsAreStored
  <2>5. row \in GroupRow /\ row.last \in stored[row.group]
    BY <1>2, <2>1, <2>4 DEF GroupsAreStored
  <2>6. answered \in Status /\ StatusHolds(answered, b)
    BY <1>2, <2>2, <2>3, <2>5, AnswerAccounts
  <2>7. check' = [check EXCEPT !.groups = Tail(@), !.statuses = Append(@, answered)] /\ report' = report
    BY <1>1, <1>6, <2>1, <2>2, <2>3 DEF AskArca
  <2>8. /\ DOMAIN check' = {"step", "groups", "statuses", "before"} /\ check'.before = b
        /\ check'.groups = Tail(g) /\ check'.statuses = Append(s, answered)
    BY <1>1, <1>2, <2>7
  <2>9. GroupsAreStored(Tail(g))
    BY <1>2, <2>4 DEF GroupsAreStored
  <2>10. StatusesHold(Append(s, answered), b)
    BY <1>2, <2>6 DEF StatusesHold
  <2> QED BY <1>1, <1>2, <1>3, <2>7, <2>8, <2>9, <2>10, CheckKeepsReports
<1>7. CASE CheckFails \/ CheckEnds
  <2>1. check' = NoCheck
    BY <1>7 DEF CheckFails, CheckEnds
  <2>2. PICK z : z = [group \in Groups |-> 0]
    OBVIOUS
  <2>3. Earlier(z) /\ StatusesHold(<<>>, z)
    BY <1>2, <2>2 DEF Earlier, StoredWasAuthorised, StatusesHold
  <2>4. /\ DOMAIN check' = {"step", "groups", "statuses", "before"} /\ check'.before = z
        /\ check'.groups = <<>> /\ check'.statuses = <<>>
    BY <2>1, <2>2 DEF NoCheck
  <2>5. report'.before = b /\ (report'.statuses = s \/ report'.statuses = <<>>)
    BY <1>1, <1>7 DEF CheckFails, CheckEnds
  <2> QED BY <1>2, <1>3, <1>4, <2>3, <2>4, <2>5, CheckKeepsReports
<1> QED BY <1>5, <1>6, <1>7

LEMMA ReconciliationInvStep ==
  ReconciliationInv /\ [ReconciliationNext]_reconciliationVars => ReconciliationInv'
<1> SUFFICES ASSUME ReconciliationInv, [ReconciliationNext]_reconciliationVars PROVE ReconciliationInv'
  OBVIOUS
<1>1. CASE UNCHANGED reconciliationVars
  BY <1>1, GrowingKeepsReports DEF reconciliationVars, ReconciliationInv, StoredWasAuthorised
<1>2. ASSUME NEW group \in Groups, AuthoriseNumber(group) PROVE ReconciliationInv'
  <2>1. StoredWasAuthorised'
    BY <1>2 DEF AuthoriseNumber, ReconciliationInv, StoredWasAuthorised
  <2> QED BY <1>2, <2>1, GrowingKeepsReports DEF AuthoriseNumber, ReconciliationInv, StoredWasAuthorised
<1>3. ASSUME NEW group \in Groups, StoreNumber(group) PROVE ReconciliationInv'
  <2>1. PICK number \in 1..atArca[group] \ stored[group] :
           stored' = [stored EXCEPT ![group] = @ \cup {number}]
    BY <1>3 DEF StoreNumber
  <2>2. UNCHANGED <<atArca, check, report>>
    BY <1>3 DEF StoreNumber
  <2>3. StoredWasAuthorised'
    BY <1>3, <2>1, <2>2 DEF ReconciliationInv, StoredWasAuthorised
  <2> QED BY <1>3, <2>1, <2>2, <2>3, GrowingKeepsReports DEF ReconciliationInv, StoredWasAuthorised
<1> QED BY <1>1, <1>2, <1>3, GroupRowsInv, CheckStepsInv DEF ReconciliationNext

\* A report of the numbering check accounts for every domestic voucher ARCA had
\* authorised before it above the group's largest row, and for none besides
\* (reconciliation.service.ts, checkNumbering), while invoices go on being
\* authorised and stored, for any groups.
THEOREM ReportsCountWhatIsMissing == ReconciliationSpec => []MissingIsReported
<1>1. ReconciliationInv => MissingIsReported
  BY DEF ReconciliationInv, StatusesHold, StatusHolds, MissingIsReported
<1> QED BY <1>1, ReconciliationInitInv, ReconciliationInvStep, PTL DEF ReconciliationSpec

-----------------------------------------------------------------------------
(* The purchase book.                                                         *)

IntAmounts(amounts) == \A field \in AmountFields : amounts[field] \in Int

PurchaseFits(row) ==
  /\ IntAmounts(row.amounts) /\ row.total = purchaseInvoiceTotal(row.amounts)
  /\ row.fileTotal # None => row.by \in Requests /\ Absolute(row.total - row.fileTotal) <= 1

\* A row of a file that keeps its total once it is stored.
KeepsTotal(row) ==
  /\ IntAmounts(amountsForRate(row, inferIvaRate(row)))
  /\ Absolute(purchaseInvoiceTotal(amountsForRate(row, inferIvaRate(row))) - row.total) <= 1

JobFields == {"step", "rows", "todo", "id", "read", "input", "importable", "during"}

JobFits(job) ==
  /\ DOMAIN job = JobFields /\ IsFiniteSet(job.todo)
  /\ job.step = "new" => job.during = {}
  /\ job.step = "importing" =>
       job.todo \subseteq DOMAIN job.rows /\ \A i \in job.todo : KeepsTotal(job.rows[i])
  /\ job.step = "updating" => IntAmounts(job.read.amounts) /\ job.input \in Updates
  /\ job.step \in {"updating", "removing"} => job.id \in DOMAIN purchaseRows
  /\ job.importable > 0 =>
       /\ job.step \in {"importing", "done", "failed"}
       /\ job.step = "done" => job.todo = {}
       /\ job.step = "failed" => job.todo # {}

\* Two requests ran at the same time.
Overlap(jobs, r, q) == q \in jobs[r].during \/ r \in jobs[q].during

WorkersOverlap ==
  \A r, q \in Requests :
    r # q /\ requests[r].step \in Working /\ requests[q].step \in Working => Overlap(requests, r, q)

\* What an import still has to store repeats only what it or one that ran at
\* the same time has stored.
TodoIsFresh ==
  \A r \in Requests : requests[r].step = "importing" =>
    \A x \in requests[r].todo : \A i \in Live :
      rowKey(purchaseRows[i]) = rowKey(requests[r].rows[x]) /\ purchaseRows[i].by # None =>
        purchaseRows[i].by = r \/ Overlap(requests, r, purchaseRows[i].by)

StoredBy(r) == {i \in Live : purchaseRows[i].by = r}

Untouched == Live = DOMAIN purchaseRows /\ \A i \in Live : purchaseRows[i].by # None

StoredCounts ==
  Untouched => \A r \in Requests :
    /\ requests[r].step = "new" => StoredBy(r) = {}
    /\ requests[r].importable > 0 =>
         Cardinality(StoredBy(r)) + Cardinality(requests[r].todo) = requests[r].importable

PurchasesInv ==
  /\ Len(purchaseRows) \in Nat /\ DOMAIN purchaseRows = 1..Len(purchaseRows)
  /\ \A i \in Live : PurchaseFits(purchaseRows[i])
  /\ \A i \in Live : purchaseRows[i].by # None => purchaseRows[i].by \in Requests
  /\ DOMAIN requests = Requests /\ \A r \in Requests : JobFits(requests[r])
  /\ WorkersOverlap /\ TodoIsFresh /\ ImportsDoNotRepeat /\ StoredCounts

LEMMA PurchasesInitInv == PurchasesInit => PurchasesInv
<1> SUFFICES ASSUME PurchasesInit PROVE PurchasesInv
  OBVIOUS
<1>1. Len(purchaseRows) = 0 /\ DOMAIN purchaseRows = {} /\ Live = {}
  BY DEF PurchasesInit, Live
<1>2. DOMAIN NewRequest = JobFields /\ NewRequest.step = "new" /\ NewRequest.during = {}
      /\ NewRequest.todo = {} /\ NewRequest.importable = 0
  BY DEF NewRequest, JobFields
<1>3. JobFits(NewRequest)
  BY <1>2, FS_EmptySet DEF JobFits
<1>4. DOMAIN requests = Requests /\ \A r \in Requests : requests[r] = NewRequest
  BY DEF PurchasesInit
<1>5. WorkersOverlap /\ TodoIsFresh /\ ImportsDoNotRepeat
  BY <1>1, <1>2, <1>4 DEF WorkersOverlap, TodoIsFresh, ImportsDoNotRepeat, Working
<1>6. StoredCounts
  BY <1>1, <1>2, <1>4 DEF StoredCounts, StoredBy
<1> QED BY <1>1, <1>3, <1>4, <1>5, <1>6 DEF PurchasesInv

\* What a step of another request leaves of a request.
KeepsJob(q) ==
  /\ DOMAIN requests'[q] = JobFields /\ requests[q].during \subseteq requests'[q].during
  /\ requests'[q].step = requests[q].step /\ requests'[q].rows = requests[q].rows
  /\ requests'[q].todo = requests[q].todo /\ requests'[q].id = requests[q].id
  /\ requests'[q].read = requests[q].read /\ requests'[q].input = requests[q].input
  /\ requests'[q].importable = requests[q].importable
  /\ requests[q].step = "new" => requests'[q].during = requests[q].during

\* The job of r becomes one with these fields, and overlaps with who works.
BecomesJob(r, job) ==
  /\ DOMAIN requests' = Requests /\ \A q \in Requests : q # r => KeepsJob(q)
  /\ \A q \in Requests : requests[q].during \subseteq requests'[q].during
  /\ DOMAIN requests'[r] = JobFields
  /\ requests'[r].step = job.step /\ requests'[r].rows = job.rows /\ requests'[r].todo = job.todo
  /\ requests'[r].id = job.id /\ requests'[r].read = job.read /\ requests'[r].input = job.input
  /\ requests'[r].importable = job.importable

LEMMA Began ==
  ASSUME PurchasesInv, NEW r \in Requests, requests[r].step = "new", NEW job, DOMAIN job = JobFields,
         requests' = Begin(r, job)
  PROVE  /\ BecomesJob(r, job)
         /\ \A q \in Requests : q # r /\ requests[q].step \in Working => q \in requests'[r].during
<1> DEFINE others == {q \in Requests : requests[q].step \in Working}
<1>1. requests' = [q \in Requests |->
                     IF q = r THEN [job EXCEPT !.during = others]
                     ELSE IF q \in others THEN [requests[q] EXCEPT !.during = requests[q].during \cup {r}]
                     ELSE requests[q]]
  BY DEF Begin
<1>2. ASSUME NEW q \in Requests, q # r PROVE KeepsJob(q)
  <2>1. PICK old : old = requests[q] /\ DOMAIN old = JobFields
    BY DEF PurchasesInv, JobFits
  <2>2. CASE q \in others
    <3>1. requests'[q] = [old EXCEPT !.during = old.during \cup {r}]
      BY <1>1, <1>2, <2>1, <2>2
    <3>2. old.step # "new"
      BY <2>1, <2>2 DEF Working
    <3> QED BY <2>1, <3>1, <3>2 DEF KeepsJob, JobFields
  <2>3. CASE q \notin others
    <3>1. requests'[q] = old
      BY <1>1, <1>2, <2>1, <2>3
    <3> QED BY <2>1, <3>1 DEF KeepsJob
  <2> QED BY <2>2, <2>3
<1>3. requests'[r] = [job EXCEPT !.during = others] /\ DOMAIN requests' = Requests
  BY <1>1
<1>4. requests[r].during = {}
  BY DEF PurchasesInv, JobFits
<1> HIDE DEF others
<1>5. /\ DOMAIN requests'[r] = JobFields /\ requests'[r].during = others
      /\ requests'[r].step = job.step /\ requests'[r].rows = job.rows /\ requests'[r].todo = job.todo
      /\ requests'[r].id = job.id /\ requests'[r].read = job.read /\ requests'[r].input = job.input
      /\ requests'[r].importable = job.importable
  BY <1>3 DEF JobFields
<1>6. BecomesJob(r, job)
  BY <1>2, <1>3, <1>4, <1>5 DEF BecomesJob, KeepsJob
<1> QED BY <1>5, <1>6 DEF others

LEMMA Changed ==
  ASSUME PurchasesInv, NEW r \in Requests, NEW job, DOMAIN job = JobFields, job.during = requests[r].during,
         requests' = [requests EXCEPT ![r] = job]
  PROVE  BecomesJob(r, job) /\ requests'[r].during = requests[r].during
<1>1. DOMAIN requests = Requests /\ \A q \in Requests : DOMAIN requests[q] = JobFields
  BY DEF PurchasesInv, JobFits
<1>2. DOMAIN requests' = Requests /\ requests'[r] = job /\ \A q \in Requests : q # r => requests'[q] = requests[q]
  BY <1>1
<1> QED BY <1>1, <1>2 DEF BecomesJob, KeepsJob

LEMMA EndedJob ==
  ASSUME PurchasesInv, NEW r \in Requests, NEW step, requests' = End(r, step)
  PROVE  \E job : /\ BecomesJob(r, job) /\ requests'[r].during = requests[r].during /\ job.step = step
                  /\ job.todo = requests[r].todo /\ job.importable = requests[r].importable
<1>1. PICK old : old = requests[r] /\ DOMAIN old = JobFields
  BY DEF PurchasesInv, JobFits
<1>2. PICK job : job = [old EXCEPT !.step = step, !.rows = <<>>, !.id = 0, !.read = None, !.input = None]
  OBVIOUS
<1>3. DOMAIN job = JobFields /\ job.step = step /\ job.todo = old.todo /\ job.importable = old.importable
      /\ job.during = old.during
  BY <1>1, <1>2 DEF JobFields
<1>4. requests' = [requests EXCEPT ![r] = job]
  BY <1>1, <1>2 DEF End
<1>5. BecomesJob(r, job) /\ requests'[r].during = requests[r].during
  BY <1>1, <1>3, <1>4, Changed
<1> QED BY <1>1, <1>3, <1>5

LEMMA OverlapGrows ==
  ASSUME PurchasesInv, NEW r, NEW job, BecomesJob(r, job), NEW p \in Requests, NEW q \in Requests, Overlap(requests, p, q)
  PROVE  Overlap(requests', p, q)
BY DEF BecomesJob, Overlap

\* The jobs after a step of one request.
LEMMA JobsStep ==
  ASSUME PurchasesInv, NEW r \in Requests, NEW job, BecomesJob(r, job),
         DOMAIN purchaseRows \subseteq DOMAIN purchaseRows', JobFits(requests[r])',
         job.step \in Working =>
           \/ requests[r].step \in Working
           \/ \A q \in Requests : q # r /\ requests[q].step \in Working => q \in requests'[r].during
  PROVE  DOMAIN requests' = Requests /\ (\A q \in Requests : JobFits(requests[q])') /\ WorkersOverlap'
<1>1. ASSUME NEW q \in Requests, q # r PROVE JobFits(requests[q])'
  <2>1. JobFits(requests[q]) /\ KeepsJob(q)
    BY <1>1 DEF PurchasesInv, BecomesJob
  <2> QED BY <2>1 DEF JobFits, KeepsJob
<1>2. ASSUME NEW q \in Requests PROVE JobFits(requests[q])'
  BY <1>1
<1>3. ASSUME NEW q \in Requests, q # r, requests'[q].step \in Working, requests'[r].step \in Working
      PROVE  Overlap(requests', r, q)
  <2>1. requests[q].step \in Working /\ job.step \in Working
    BY <1>3 DEF BecomesJob, KeepsJob
  <2>2. CASE requests[r].step \in Working
    <3>1. Overlap(requests, r, q)
      BY <1>3, <2>1, <2>2 DEF PurchasesInv, WorkersOverlap
    <3> QED BY <3>1, OverlapGrows
  <2>3. CASE q \in requests'[r].during
    BY <2>3 DEF Overlap
  <2> QED BY <1>3, <2>1, <2>2, <2>3
<1>4. ASSUME NEW p \in Requests, NEW q \in Requests, p # q, p # r, q # r,
             requests'[p].step \in Working, requests'[q].step \in Working
      PROVE  Overlap(requests', p, q)
  <2>1. requests[p].step \in Working /\ requests[q].step \in Working
    BY <1>4 DEF BecomesJob, KeepsJob
  <2>2. Overlap(requests, p, q)
    BY <1>4, <2>1 DEF PurchasesInv, WorkersOverlap
  <2> QED BY <2>2, OverlapGrows
<1>5. WorkersOverlap'
  <2>1. ASSUME NEW p \in Requests, NEW q \in Requests, p # q,
               requests'[p].step \in Working, requests'[q].step \in Working
        PROVE  Overlap(requests', p, q)
    <3>1. CASE p = r
      BY <1>3, <2>1, <3>1
    <3>2. CASE q = r
      <4>1. Overlap(requests', q, p)
        BY <1>3, <2>1, <3>2
      <4> QED BY <4>1 DEF Overlap
    <3>3. CASE p # r /\ q # r
      BY <1>4, <2>1, <3>3
    <3> QED BY <3>1, <3>2, <3>3
  <2> QED BY <2>1 DEF WorkersOverlap
<1> QED BY <1>2, <1>5 DEF BecomesJob

\* The request works after the step only beside those it says it overlaps.
Meets(r, job) ==
  job.step \in Working =>
    \/ requests[r].step \in Working
    \/ \A q \in Requests : q # r /\ requests[q].step \in Working => q \in requests'[r].during

\* Steps that leave the table as it is.
LEMMA TableKept ==
  ASSUME PurchasesInv, NEW r \in Requests, NEW job, BecomesJob(r, job), Meets(r, job),
         purchaseRows' = purchaseRows, JobFits(requests[r])',
         job.step = "importing" => \A x \in job.todo : \A i \in Live :
           rowKey(purchaseRows[i]) = rowKey(job.rows[x]) /\ purchaseRows[i].by # None =>
             purchaseRows[i].by = r \/ Overlap(requests', r, purchaseRows[i].by),
         Untouched => /\ job.step = "new" => StoredBy(r) = {}
                      /\ job.importable > 0 =>
                           Cardinality(StoredBy(r)) + Cardinality(job.todo) = job.importable
  PROVE  PurchasesInv'
<1>1. DOMAIN requests' = Requests /\ (\A q \in Requests : JobFits(requests[q])') /\ WorkersOverlap'
  <2>1. DOMAIN purchaseRows \subseteq DOMAIN purchaseRows'
    OBVIOUS
  <2> QED BY <2>1, JobsStep DEF Meets
<1>2. Live' = Live /\ (Untouched' <=> Untouched) /\ \A q : StoredBy(q)' = StoredBy(q)
  BY DEF Live, Untouched, StoredBy
<1>3. TodoIsFresh'
  <2>1. ASSUME NEW q \in Requests, requests'[q].step = "importing", NEW x \in requests'[q].todo, NEW i \in Live,
               rowKey(purchaseRows[i]) = rowKey(requests'[q].rows[x]), purchaseRows[i].by # None
        PROVE  purchaseRows[i].by = q \/ Overlap(requests', q, purchaseRows[i].by)
    <3>1. CASE q = r
      BY <2>1, <3>1 DEF BecomesJob
    <3>2. CASE q # r
      <4>1. requests[q].step = "importing" /\ x \in requests[q].todo /\ requests'[q].rows = requests[q].rows
        BY <2>1, <3>2 DEF BecomesJob, KeepsJob
      <4>2. purchaseRows[i].by = q \/ Overlap(requests, q, purchaseRows[i].by)
        BY <2>1, <4>1 DEF PurchasesInv, TodoIsFresh
      <4>3. purchaseRows[i].by \in Requests
        BY <2>1 DEF PurchasesInv
      <4> QED BY <4>2, <4>3, OverlapGrows
    <3> QED BY <3>1, <3>2
  <2>2. \A i : rowKey(purchaseRows[i])' = rowKey(purchaseRows[i])
    BY DEF rowKey
  <2> QED BY <1>2, <2>1, <2>2 DEF TodoIsFresh, rowKey
<1>4. ImportsDoNotRepeat'
  <2>1. ASSUME NEW i \in Live, NEW j \in Live, i < j, rowKey(purchaseRows[i]) = rowKey(purchaseRows[j]),
               purchaseRows[i].by # None, purchaseRows[j].fileTotal # None, purchaseRows[i].by # purchaseRows[j].by
        PROVE  Overlap(requests', purchaseRows[i].by, purchaseRows[j].by)
    <3>1. Overlap(requests, purchaseRows[i].by, purchaseRows[j].by)
      BY <2>1 DEF PurchasesInv, ImportsDoNotRepeat, Overlap
    <3>2. purchaseRows[i].by \in Requests /\ purchaseRows[j].by \in Requests
      BY <2>1 DEF PurchasesInv, PurchaseFits
    <3> QED BY <3>1, <3>2, OverlapGrows
  <2> QED BY <1>2, <2>1 DEF ImportsDoNotRepeat, Overlap, rowKey
<1>5. StoredCounts'
  <2>1. ASSUME NEW q \in Requests, Untouched
        PROVE  /\ requests'[q].step = "new" => StoredBy(q) = {}
               /\ requests'[q].importable > 0 =>
                    Cardinality(StoredBy(q)) + Cardinality(requests'[q].todo) = requests'[q].importable
    <3>1. CASE q = r
      BY <2>1, <3>1 DEF BecomesJob
    <3>2. CASE q # r
      BY <2>1, <3>2 DEF PurchasesInv, StoredCounts, BecomesJob, KeepsJob
    <3> QED BY <3>1, <3>2
  <2> QED BY <1>2, <2>1 DEF StoredCounts
<1>6. /\ (\A i \in Live : PurchaseFits(purchaseRows[i]))'
      /\ (\A i \in Live : purchaseRows[i].by # None => purchaseRows[i].by \in Requests)'
  BY <1>2 DEF PurchasesInv
<1> QED BY <1>1, <1>3, <1>4, <1>5, <1>6 DEF PurchasesInv

\* Steps that add a row of their request to the table.
LEMMA TableGrows ==
  ASSUME PurchasesInv, NEW r \in Requests, NEW job, BecomesJob(r, job), Meets(r, job), JobFits(requests[r])',
         NEW row, purchaseRows' = Append(purchaseRows, row), PurchaseFits(row), row.by = r,
         job.step # "new",
         \A q \in Requests : q # r /\ requests[q].step \in Working => Overlap(requests', q, r),
         job.step = "importing" => /\ requests[r].step = "importing"
                                   /\ job.todo \subseteq requests[r].todo /\ job.rows = requests[r].rows,
         row.fileTotal # None => \A i \in Live :
           rowKey(purchaseRows[i]) = rowKey(row) /\ purchaseRows[i].by # None =>
             purchaseRows[i].by = r \/ Overlap(requests, r, purchaseRows[i].by),
         job.importable > 0 => /\ requests[r].importable = job.importable
                               /\ Cardinality(requests[r].todo) = Cardinality(job.todo) + 1
  PROVE  PurchasesInv'
<1> DEFINE n == Len(purchaseRows) + 1
<1>1. /\ Len(purchaseRows') = n /\ n \in Nat /\ DOMAIN purchaseRows' = 1..n /\ purchaseRows'[n] = row
      /\ DOMAIN purchaseRows = 1..(n - 1)
      /\ \A i \in DOMAIN purchaseRows : purchaseRows'[i] = purchaseRows[i]
  BY DEF PurchasesInv
<1> HIDE DEF n
<1>2. DOMAIN requests' = Requests /\ (\A q \in Requests : JobFits(requests[q])') /\ WorkersOverlap'
  <2>1. DOMAIN purchaseRows \subseteq DOMAIN purchaseRows'
    BY <1>1
  <2> QED BY <2>1, JobsStep DEF Meets
<1>3. \A i \in Live' : (i = n /\ purchaseRows'[i] = row)
                       \/ (i \in Live /\ i < n /\ purchaseRows'[i] = purchaseRows[i])
  BY <1>1 DEF Live
<1>4. \A i \in Live : i \in Live'
  BY <1>1 DEF Live
<1>5. \A i \in Live : purchaseRows[i].by # None => purchaseRows[i].by \in Requests
  BY DEF PurchasesInv
<1>6. TodoIsFresh'
  <2>1. ASSUME NEW q \in Requests, requests'[q].step = "importing", NEW x \in requests'[q].todo, NEW i \in Live',
               rowKey(purchaseRows'[i]) = rowKey(requests'[q].rows[x]), purchaseRows'[i].by # None
        PROVE  purchaseRows'[i].by = q \/ Overlap(requests', q, purchaseRows'[i].by)
    <3>1. requests[q].step = "importing" /\ x \in requests[q].todo /\ requests'[q].rows = requests[q].rows
      BY <2>1 DEF BecomesJob, KeepsJob
    <3>2. CASE i = n
      <4>1. CASE q = r
        BY <1>1, <3>2, <4>1
      <4>2. CASE q # r
        BY <1>1, <3>1, <3>2, <4>2 DEF Working
      <4> QED BY <4>1, <4>2
    <3>3. CASE i # n
      <4>1. i \in Live /\ purchaseRows'[i] = purchaseRows[i]
        BY <1>3, <2>1, <3>3
      <4>2. purchaseRows[i].by = q \/ Overlap(requests, q, purchaseRows[i].by)
        BY <2>1, <3>1, <4>1 DEF PurchasesInv, TodoIsFresh
      <4> QED BY <1>5, <2>1, <4>1, <4>2, OverlapGrows
    <3> QED BY <3>2, <3>3
  <2> QED BY <2>1 DEF TodoIsFresh, rowKey
<1>7. ImportsDoNotRepeat'
  <2>1. ASSUME NEW i \in Live', NEW j \in Live', i < j, rowKey(purchaseRows'[i]) = rowKey(purchaseRows'[j]),
               purchaseRows'[i].by # None, purchaseRows'[j].fileTotal # None,
               purchaseRows'[i].by # purchaseRows'[j].by
        PROVE  Overlap(requests', purchaseRows'[i].by, purchaseRows'[j].by)
    <3>0. i # n /\ i \in Live /\ purchaseRows'[i] = purchaseRows[i]
      <4>1. i \in 1..n /\ j \in 1..n
        BY <1>1, <2>1 DEF Live
      <4>2. i # n
        BY <1>1, <2>1, <4>1
      <4> QED BY <1>3, <2>1, <4>2
    <3>1. i \in Live /\ purchaseRows'[i] = purchaseRows[i] /\ purchaseRows[i].by \in Requests
      BY <1>5, <2>1, <3>0
    <3>2. CASE j = n
      <4>1. Overlap(requests, r, purchaseRows[i].by)
        BY <1>1, <2>1, <3>1, <3>2
      <4> QED BY <1>1, <3>1, <3>2, <4>1, OverlapGrows DEF Overlap
    <3>3. CASE j # n
      <4>1. j \in Live /\ purchaseRows'[j] = purchaseRows[j]
        BY <1>3, <2>1, <3>3
      <4>2. Overlap(requests, purchaseRows[i].by, purchaseRows[j].by)
        BY <2>1, <3>1, <4>1 DEF PurchasesInv, ImportsDoNotRepeat, Overlap
      <4>3. purchaseRows[j].by \in Requests
        BY <2>1, <4>1 DEF PurchasesInv, PurchaseFits
      <4> QED BY <3>1, <4>1, <4>2, <4>3, OverlapGrows
    <3> QED BY <3>2, <3>3
  <2> QED BY <2>1 DEF ImportsDoNotRepeat, Overlap, rowKey
<1>8. StoredCounts'
  <2>1. ASSUME Untouched' PROVE Untouched /\ n \in Live'
    BY <1>1, <1>3, <1>4, <2>1 DEF Untouched, Live
  <2>2. ASSUME Untouched', NEW q \in Requests, q # r PROVE StoredBy(q)' = StoredBy(q)
    <3>1. ASSUME NEW i \in StoredBy(q)' PROVE i \in StoredBy(q)
      BY <1>3, <2>2, <3>1 DEF StoredBy
    <3>2. ASSUME NEW i \in StoredBy(q) PROVE i \in StoredBy(q)'
      <4>1. i \in Live /\ i \in DOMAIN purchaseRows
        BY <3>2 DEF StoredBy, Live
      <4> QED BY <1>1, <1>4, <3>2, <4>1 DEF StoredBy
    <3> QED BY <3>1, <3>2
  <2>3. ASSUME Untouched' PROVE Cardinality(StoredBy(r)') = Cardinality(StoredBy(r)) + 1 /\ Cardinality(StoredBy(r)) \in Nat
    <3>1. StoredBy(r)' = StoredBy(r) \cup {n}
      BY <1>1, <1>3, <1>4, <2>1, <2>3 DEF StoredBy
    <3>2. StoredBy(r) \subseteq 1..(n - 1)
      BY <1>1 DEF StoredBy, Live
    <3>3. IsFiniteSet(1..(n - 1))
      BY <1>1, FS_Interval
    <3>4. IsFiniteSet(StoredBy(r))
      BY <3>2, <3>3, FS_Subset
    <3>5. n \notin StoredBy(r)
      BY <1>1, <3>2
    <3> QED BY <3>1, <3>4, <3>5, FS_AddElement, FS_CardinalityType
  <2>4. ASSUME Untouched', NEW q \in Requests
        PROVE  /\ requests'[q].step = "new" => StoredBy(q)' = {}
               /\ requests'[q].importable > 0 =>
                    Cardinality(StoredBy(q)') + Cardinality(requests'[q].todo) = requests'[q].importable
    <3>1. CASE q = r
      <4>1. requests'[r].step # "new"
        BY DEF BecomesJob
      <4>2. ASSUME requests'[r].importable > 0
            PROVE  Cardinality(StoredBy(r)') + Cardinality(requests'[r].todo) = requests'[r].importable
        <5>1. /\ requests[r].importable > 0 /\ requests'[r].importable = requests[r].importable
              /\ Cardinality(requests[r].todo) = Cardinality(requests'[r].todo) + 1
          BY <4>2 DEF BecomesJob
        <5>2. Cardinality(StoredBy(r)) + Cardinality(requests[r].todo) = requests[r].importable
          BY <2>1, <2>4, <5>1 DEF PurchasesInv, StoredCounts
        <5>3. IsFiniteSet(requests'[r].todo)
          BY <1>2 DEF JobFits
        <5>4. Cardinality(requests'[r].todo) \in Nat
          BY <5>3, FS_CardinalityType
        <5> QED BY <2>3, <2>4, <5>1, <5>2, <5>4
      <4> QED BY <3>1, <4>1, <4>2
    <3>2. CASE q # r
      BY <2>1, <2>2, <2>4, <3>2 DEF PurchasesInv, StoredCounts, BecomesJob, KeepsJob
    <3> QED BY <3>1, <3>2
  <2> QED BY <2>4 DEF StoredCounts
<1>9. (\A i \in Live : PurchaseFits(purchaseRows[i]))'
  <2>1. ASSUME NEW i \in Live' PROVE PurchaseFits(purchaseRows'[i])
    BY <1>3 DEF PurchasesInv
  <2> QED BY <2>1 DEF PurchaseFits
<1>10. (\A i \in Live : purchaseRows[i].by # None => purchaseRows[i].by \in Requests)'
  BY <1>3, <1>5
<1> QED BY <1>1, <1>2, <1>6, <1>7, <1>8, <1>9, <1>10 DEF PurchasesInv

\* Steps that write a row over, or remove it.
LEMMA RowReplaced ==
  ASSUME PurchasesInv, NEW r \in Requests, NEW job, BecomesJob(r, job), JobFits(requests[r])',
         job.step \notin Working, NEW id \in DOMAIN purchaseRows, NEW row,
         purchaseRows' = [purchaseRows EXCEPT ![id] = row],
         row = None \/ (PurchaseFits(row) /\ row.by = None /\ row.fileTotal = None)
  PROVE  PurchasesInv'
<1>1. /\ Len(purchaseRows') \in Nat /\ DOMAIN purchaseRows' = 1..Len(purchaseRows')
      /\ DOMAIN purchaseRows' = DOMAIN purchaseRows /\ purchaseRows'[id] = row
      /\ \A i \in DOMAIN purchaseRows : i # id => purchaseRows'[i] = purchaseRows[i]
  BY DEF PurchasesInv
<1>2. DOMAIN requests' = Requests /\ (\A q \in Requests : JobFits(requests[q])') /\ WorkersOverlap'
  <2>1. DOMAIN purchaseRows \subseteq DOMAIN purchaseRows'
    BY <1>1
  <2> QED BY <2>1, JobsStep
<1>3. \A i \in Live' : \/ i = id /\ PurchaseFits(row) /\ row.by = None /\ row.fileTotal = None
                       \/ i # id /\ i \in Live /\ purchaseRows'[i] = purchaseRows[i]
  BY <1>1 DEF Live
<1>4. \A i \in Live : purchaseRows[i].by # None => purchaseRows[i].by \in Requests
  BY DEF PurchasesInv
<1>5. TodoIsFresh'
  <2>1. ASSUME NEW q \in Requests, requests'[q].step = "importing", NEW x \in requests'[q].todo, NEW i \in Live',
               rowKey(purchaseRows'[i]) = rowKey(requests'[q].rows[x]), purchaseRows'[i].by # None
        PROVE  purchaseRows'[i].by = q \/ Overlap(requests', q, purchaseRows'[i].by)
    <3>1. requests[q].step = "importing" /\ x \in requests[q].todo /\ requests'[q].rows = requests[q].rows
      BY <2>1 DEF BecomesJob, KeepsJob, Working
    <3>2. i \in Live /\ purchaseRows'[i] = purchaseRows[i]
      BY <1>1, <1>3, <2>1
    <3>3. purchaseRows[i].by = q \/ Overlap(requests, q, purchaseRows[i].by)
      BY <2>1, <3>1, <3>2 DEF PurchasesInv, TodoIsFresh
    <3> QED BY <1>4, <2>1, <3>2, <3>3, OverlapGrows
  <2> QED BY <2>1 DEF TodoIsFresh, rowKey
<1>6. ImportsDoNotRepeat'
  <2>1. ASSUME NEW i \in Live', NEW j \in Live', i < j, rowKey(purchaseRows'[i]) = rowKey(purchaseRows'[j]),
               purchaseRows'[i].by # None, purchaseRows'[j].fileTotal # None,
               purchaseRows'[i].by # purchaseRows'[j].by
        PROVE  Overlap(requests', purchaseRows'[i].by, purchaseRows'[j].by)
    <3>1. /\ i \in Live /\ purchaseRows'[i] = purchaseRows[i] /\ purchaseRows[i].by \in Requests
          /\ j \in Live /\ purchaseRows'[j] = purchaseRows[j]
      BY <1>1, <1>3, <1>4, <2>1
    <3>2. Overlap(requests, purchaseRows[i].by, purchaseRows[j].by)
      BY <2>1, <3>1 DEF PurchasesInv, ImportsDoNotRepeat, Overlap
    <3>3. purchaseRows[j].by \in Requests
      BY <2>1, <3>1 DEF PurchasesInv, PurchaseFits
    <3> QED BY <3>1, <3>2, <3>3, OverlapGrows
  <2> QED BY <2>1 DEF ImportsDoNotRepeat, Overlap, rowKey
<1>7. StoredCounts'
  <2>1. ~Untouched'
    BY <1>1, <1>3 DEF Untouched
  <2> QED BY <2>1 DEF StoredCounts
<1>8. (\A i \in Live : PurchaseFits(purchaseRows[i]))'
  <2>1. ASSUME NEW i \in Live' PROVE PurchaseFits(purchaseRows'[i])
    BY <1>1, <1>3 DEF PurchasesInv
  <2> QED BY <2>1 DEF PurchaseFits
<1>9. (\A i \in Live : purchaseRows[i].by # None => purchaseRows[i].by \in Requests)'
  BY <1>1, <1>3, <1>4
<1> QED BY <1>1, <1>2, <1>5, <1>6, <1>7, <1>8, <1>9 DEF PurchasesInv

LEMMA NewJob ==
  /\ DOMAIN NewRequest = JobFields /\ NewRequest.step = "new" /\ NewRequest.todo = {}
  /\ NewRequest.importable = 0 /\ NewRequest.rows = <<>> /\ NewRequest.during = {}
BY DEF NewRequest, JobFields

\* A request that ends leaves the table as it is, or its row replaced.
LEMMA EndJobFits ==
  ASSUME PurchasesInv, NEW r \in Requests, NEW job, BecomesJob(r, job), job.todo = requests[r].todo,
         job.importable = requests[r].importable, job.step \in {"done", "failed", "refused", "not_found"},
         job.step \in {"refused", "not_found"} => requests[r].step # "importing",
         requests[r].step \in {"new", "importing", "updating", "removing"},
         requests[r].step = "importing" /\ job.step = "done" => job.todo = {},
         requests[r].step = "importing" /\ job.step = "failed" => job.todo # {}
  PROVE  JobFits(requests[r])'
<1>1. JobFits(requests[r])
  BY DEF PurchasesInv
<1>2. requests[r].importable > 0 => requests[r].step = "importing"
  BY <1>1 DEF JobFits
<1> QED BY <1>1, <1>2 DEF JobFits, BecomesJob

\* An import that ends, or a request that is refused or finds nothing.
LEMMA EndInv ==
  ASSUME PurchasesInv, NEW r \in Requests, NEW step, requests' = End(r, step), purchaseRows' = purchaseRows,
         step \in {"done", "failed", "refused", "not_found"},
         step \in {"refused", "not_found"} => requests[r].step # "importing",
         requests[r].step \in {"new", "importing", "updating", "removing"},
         requests[r].step = "importing" /\ step = "done" => requests[r].todo = {},
         requests[r].step = "importing" /\ step = "failed" => requests[r].todo # {}
  PROVE  PurchasesInv'
<1>1. PICK job : /\ BecomesJob(r, job) /\ requests'[r].during = requests[r].during /\ job.step = step
                 /\ job.todo = requests[r].todo /\ job.importable = requests[r].importable
  BY EndedJob
<1>2. JobFits(requests[r])'
  BY <1>1, EndJobFits
<1>3. Meets(r, job)
  BY <1>1 DEF Meets, Working
<1>4. Untouched /\ job.importable > 0 => Cardinality(StoredBy(r)) + Cardinality(job.todo) = job.importable
  BY <1>1 DEF PurchasesInv, StoredCounts
<1> QED BY <1>1, <1>2, <1>3, <1>4, TableKept

LEMMA CreatePurchaseInv ==
  ASSUME PurchasesInv, NEW r \in Requests, NEW input \in ManualInvoices, CreatePurchase(r, input)
  PROVE  PurchasesInv'
<1>1. requests[r].step = "new"
  BY DEF CreatePurchase
<1>2. CASE ~purchaseInvoiceSchema(input)
  BY <1>1, <1>2, EndInv DEF CreatePurchase
<1>3. CASE purchaseInvoiceSchema(input)
  <2>1. PICK job : job = [NewRequest EXCEPT !.step = "done"]
    OBVIOUS
  <2>2. DOMAIN job = JobFields /\ job.step = "done" /\ job.todo = {} /\ job.importable = 0
    BY <2>1, NewJob DEF JobFields
  <2>3. requests' = Begin(r, job) /\ purchaseRows' = Append(purchaseRows, CreatedRow(input, r))
    BY <1>3, <2>1 DEF CreatePurchase
  <2>4. BecomesJob(r, job) /\ \A q \in Requests : q # r /\ requests[q].step \in Working => q \in requests'[r].during
    BY <1>1, <2>2, <2>3, Began
  <2>5. \A q \in Requests : q # r /\ requests[q].step \in Working => Overlap(requests', q, r)
    BY <2>4 DEF Overlap
  <2>6. JobFits(requests[r])'
    BY <2>2, <2>4, FS_EmptySet DEF JobFits, BecomesJob
  <2>7. PICK row : row = CreatedRow(input, r)
    OBVIOUS
  <2>8. row.fileTotal = None /\ row.by = r /\ PurchaseFits(row)
    <3>1. row.amounts = input.amounts /\ row.total = purchaseInvoiceTotal(input.amounts) /\ row.fileTotal = None /\ row.by = r
      BY <2>7 DEF CreatedRow
    <3>2. IntAmounts(input.amounts)
      BY PurchaseConstants DEF IntAmounts
    <3> QED BY <3>1, <3>2 DEF PurchaseFits
  <2>9. Meets(r, job)
    BY <2>2 DEF Meets, Working
  <2> QED BY <2>2, <2>3, <2>4, <2>5, <2>6, <2>7, <2>8, <2>9, TableGrows
<1> QED BY <1>2, <1>3

\* A row of a file that classify lets in keeps its total.
LEMMA ImportableKeepsTotal ==
  ASSUME NEW file \in CsvFiles, NEW i \in DOMAIN parseMisComprobantesCsv(file).rows, NEW existing, NEW strict,
         classify(parseMisComprobantesCsv(file).rows[i], existing, i \in strict) = "IMPORTABLE"
  PROVE  /\ KeepsTotal(parseMisComprobantesCsv(file).rows[i])
         /\ rowKey(parseMisComprobantesCsv(file).rows[i]) \notin existing
<1> DEFINE line == file.lines[i]
           number == LineNumber(file, i)
<1>1. i \in DOMAIN file.lines /\ ReadableLine(line) /\ parseMisComprobantesCsv(file).rows[i] = ParsedPurchaseRow(line, number)
  BY DEF parseMisComprobantesCsv, DataLines
<1>2. PICK row : row = ParsedPurchaseRow(line, number)
  OBVIOUS
<1>3. ASSUME NEW column \in AmountColumns PROVE parseArcaAmount(line[column]) \in Int
  <2>1. /\ line[column].form \in {"empty", "decimals", "dotted_thousands", "unreadable"} /\ line[column].cents \in Int
        /\ parseArcaAmount(line[column]) # None
    BY <1>1, <1>3, PurchaseConstants DEF ReadableLine
  <2> QED BY <2>1 DEF parseArcaAmount
<1>4. /\ row.netTaxed \in Int /\ row.untaxed \in Int /\ row.exempt \in Int /\ row.ivaAmount \in Int /\ row.total \in Int
  <2>1. /\ row.netTaxed = parseArcaAmount(line.netTaxed) /\ row.untaxed = parseArcaAmount(line.untaxed)
        /\ row.exempt = parseArcaAmount(line.exempt) /\ row.ivaAmount = parseArcaAmount(line.iva)
        /\ row.total = parseArcaAmount(line.total)
    BY <1>2 DEF ParsedPurchaseRow
  <2>2. {"netTaxed", "untaxed", "exempt", "iva", "total"} \subseteq AmountColumns
    BY DEF AmountColumns
  <2> QED BY <1>3, <2>1, <2>2
<1>5. classify(row, existing, i \in strict) = "IMPORTABLE"
  BY <1>1, <1>2
<1> HIDE DEF line, number
<1>6. IntAmounts(amountsForRate(row, inferIvaRate(row)))
  BY <1>4 DEF IntAmounts, amountsForRate
<1>7. /\ rowKey(row) \notin existing
      /\ ~(Absolute(purchaseInvoiceTotal(amountsForRate(row, inferIvaRate(row))) - row.total) > IF i \in strict THEN 0 ELSE 1)
  BY <1>5 DEF classify
<1>8. Absolute(purchaseInvoiceTotal(amountsForRate(row, inferIvaRate(row))) - row.total) <= 1
  <2>1. PICK total : total = purchaseInvoiceTotal(amountsForRate(row, inferIvaRate(row)))
    OBVIOUS
  <2>2. total \in Int
    BY <1>6, <2>1 DEF IntAmounts, purchaseInvoiceTotal, netOf, ivaOf, restOf, AmountFields
  <2> QED BY <1>4, <1>7, <2>1, <2>2 DEF Absolute
<1> QED BY <1>1, <1>2, <1>6, <1>7, <1>8 DEF KeepsTotal

LEMMA StartImportInv ==
  ASSUME PurchasesInv, NEW r \in Requests, NEW file \in CsvFiles, StartImport(r, file)
  PROVE  PurchasesInv'
<1>1. requests[r].step = "new" /\ purchaseRows' = purchaseRows
  BY DEF StartImport
<1>2. CASE ~WellFormed(file)
  BY <1>1, <1>2, EndInv DEF StartImport
<1>3. CASE WellFormed(file)
  <2>1. PICK parsed : parsed = parseMisComprobantesCsv(file).rows
    OBVIOUS
  <2>2. PICK strict \in SUBSET DOMAIN parsed :
          requests' = Begin(r, [NewRequest EXCEPT !.step = "importing", !.rows = parsed,
                 !.todo = Importable(parsed, ExistingKeys, strict),
                 !.importable = summarize(parsed, ExistingKeys, strict)["IMPORTABLE"]])
    BY <1>3, <2>1 DEF StartImport
  <2>3. PICK todo : todo = Importable(parsed, ExistingKeys, strict)
    OBVIOUS
  <2>4. summarize(parsed, ExistingKeys, strict)["IMPORTABLE"] = Cardinality(todo)
    BY <2>3 DEF summarize, Importable
  <2>5. PICK job : job = [NewRequest EXCEPT !.step = "importing", !.rows = parsed, !.todo = todo,
                                           !.importable = Cardinality(todo)]
    OBVIOUS
  <2>6. /\ DOMAIN job = JobFields /\ job.step = "importing" /\ job.rows = parsed /\ job.todo = todo
        /\ job.importable = Cardinality(todo)
    BY <2>5, NewJob DEF JobFields
  <2>7. requests' = Begin(r, job)
    BY <2>2, <2>3, <2>4, <2>5
  <2>8. BecomesJob(r, job) /\ \A q \in Requests : q # r /\ requests[q].step \in Working => q \in requests'[r].during
    BY <1>1, <2>6, <2>7, Began
  <2>9. \A x \in todo : x \in DOMAIN parsed /\ KeepsTotal(parsed[x]) /\ rowKey(parsed[x]) \notin ExistingKeys
    <3>1. ASSUME NEW x \in todo PROVE x \in DOMAIN parsed /\ classify(parsed[x], ExistingKeys, x \in strict) = "IMPORTABLE"
      BY <2>3 DEF Importable
    <3> QED BY <2>1, <3>1, ImportableKeepsTotal
  <2>10. IsFiniteSet(todo)
    <3>1. DOMAIN parsed \subseteq DOMAIN file.lines
      BY <2>1 DEF parseMisComprobantesCsv, DataLines
    <3>2. IsFiniteSet(DOMAIN file.lines)
      BY PurchaseConstants
    <3> QED BY <2>9, <3>1, <3>2, FS_Subset
  <2>11. JobFits(requests[r])'
    BY <2>6, <2>8, <2>9, <2>10 DEF JobFits, BecomesJob
  <2>12. \A x \in todo : \A i \in Live : rowKey(purchaseRows[i]) # rowKey(parsed[x])
    BY <2>9 DEF ExistingKeys
  <2>13. Untouched => Cardinality(StoredBy(r)) + Cardinality(todo) = Cardinality(todo)
    <3>1. Untouched => StoredBy(r) = {}
      BY <1>1 DEF PurchasesInv, StoredCounts
    <3>2. Cardinality({}) = 0 /\ Cardinality(todo) \in Nat
      BY <2>10, FS_EmptySet, FS_CardinalityType
    <3> QED BY <3>1, <3>2
  <2>14. Meets(r, job)
    BY <2>8 DEF Meets
  <2> QED BY <1>1, <2>6, <2>8, <2>11, <2>12, <2>13, <2>14, TableKept
<1> QED BY <1>2, <1>3

LEMMA ImportRowInv ==
  ASSUME PurchasesInv, NEW r \in Requests, ImportRow(r)
  PROVE  PurchasesInv'
<1>1. PICK old : old = requests[r] /\ old.step = "importing"
  BY DEF ImportRow
<1>2. PICK x \in old.todo :
        /\ purchaseRows' = Append(purchaseRows, ImportedRow(old.rows[x], r))
        /\ requests' = [requests EXCEPT ![r].todo = old.todo \ {x}]
  BY <1>1 DEF ImportRow
<1>3. JobFits(old)
  BY <1>1 DEF PurchasesInv
<1>4. PICK job : job = [old EXCEPT !.todo = old.todo \ {x}]
  OBVIOUS
<1>5. /\ DOMAIN job = JobFields /\ job.step = "importing" /\ job.rows = old.rows /\ job.todo = old.todo \ {x}
      /\ job.importable = old.importable /\ job.during = old.during
  BY <1>1, <1>3, <1>4 DEF JobFits, JobFields
<1>6. requests' = [requests EXCEPT ![r] = job]
  BY <1>1, <1>2, <1>4 DEF PurchasesInv
<1>7. BecomesJob(r, job)
  BY <1>1, <1>5, <1>6, Changed
<1>8. Cardinality(old.todo) = Cardinality(job.todo) + 1 /\ IsFiniteSet(job.todo)
  <2>1. IsFiniteSet(old.todo)
    BY <1>3 DEF JobFits
  <2>2. IsFiniteSet(job.todo) /\ Cardinality(job.todo) = Cardinality(old.todo) - 1
    BY <1>2, <1>5, <2>1, FS_RemoveElement
  <2>3. Cardinality(old.todo) \in Nat
    BY <2>1, FS_CardinalityType
  <2> QED BY <2>2, <2>3
<1>9. JobFits(requests[r])'
  BY <1>1, <1>3, <1>5, <1>7, <1>8 DEF JobFits, BecomesJob
<1>10. PICK row : row = ImportedRow(old.rows[x], r)
  OBVIOUS
<1>11. row.by = r /\ PurchaseFits(row) /\ rowKey(row) = rowKey(old.rows[x])
  <2>1. KeepsTotal(old.rows[x])
    BY <1>1, <1>2, <1>3 DEF JobFits
  <2>2. /\ row.amounts = amountsForRate(old.rows[x], inferIvaRate(old.rows[x]))
        /\ row.total = purchaseInvoiceTotal(row.amounts) /\ row.fileTotal = old.rows[x].total /\ row.by = r
        /\ rowKey(row) = rowKey(old.rows[x])
    BY <1>10 DEF ImportedRow, rowKey
  <2> QED BY <2>1, <2>2 DEF KeepsTotal, PurchaseFits
<1>12. \A i \in Live : rowKey(purchaseRows[i]) = rowKey(row) /\ purchaseRows[i].by # None =>
         purchaseRows[i].by = r \/ Overlap(requests, r, purchaseRows[i].by)
  BY <1>1, <1>2, <1>11 DEF PurchasesInv, TodoIsFresh
<1>13. \A q \in Requests : q # r /\ requests[q].step \in Working => Overlap(requests', q, r)
  <2>1. ASSUME NEW q \in Requests, q # r, requests[q].step \in Working PROVE Overlap(requests, q, r)
    BY <1>1, <2>1 DEF PurchasesInv, WorkersOverlap, Working
  <2> QED BY <1>7, <2>1, OverlapGrows
<1>14. Meets(r, job)
  BY <1>1 DEF Meets, Working
<1> QED BY <1>1, <1>2, <1>5, <1>7, <1>8, <1>9, <1>10, <1>11, <1>12, <1>13, <1>14, TableGrows

LEMMA ReadPurchaseInv ==
  ASSUME PurchasesInv, NEW r \in Requests, NEW id \in DOMAIN purchaseRows, NEW input \in Updates \cup {None},
         ReadPurchase(r, id, input)
  PROVE  PurchasesInv'
<1>1. requests[r].step = "new" /\ purchaseRows' = purchaseRows
  BY DEF ReadPurchase
<1>2. CASE purchaseRows[id] = None
  BY <1>1, <1>2, EndInv DEF ReadPurchase
<1>3. CASE purchaseRows[id] # None
  <2>1. PICK step : step = (IF input = None THEN "removing" ELSE "updating")
    OBVIOUS
  <2>2. PICK job : job = [NewRequest EXCEPT !.step = step, !.id = id, !.read = purchaseRows[id], !.input = input]
    OBVIOUS
  <2>3. /\ DOMAIN job = JobFields /\ job.step = step /\ job.id = id /\ job.read = purchaseRows[id] /\ job.input = input
        /\ job.todo = {} /\ job.importable = 0
    BY <2>2, NewJob DEF JobFields
  <2>4. requests' = Begin(r, job)
    BY <1>3, <2>1, <2>2 DEF ReadPurchase
  <2>5. BecomesJob(r, job) /\ \A q \in Requests : q # r /\ requests[q].step \in Working => q \in requests'[r].during
    BY <1>1, <2>3, <2>4, Began
  <2>6. IntAmounts(purchaseRows[id].amounts)
    BY <1>3 DEF PurchasesInv, PurchaseFits, Live
  <2>7. step = "updating" => input \in Updates
    BY <2>1
  <2>8. JobFits(requests[r])'
    BY <1>1, <2>1, <2>3, <2>5, <2>6, <2>7, FS_EmptySet DEF JobFits, BecomesJob
  <2>9. Meets(r, job)
    BY <2>5 DEF Meets
  <2> QED BY <1>1, <2>1, <2>3, <2>5, <2>8, <2>9, TableKept
<1> QED BY <1>2, <1>3

LEMMA WriteUpdateInv ==
  ASSUME PurchasesInv, NEW r \in Requests, WriteUpdate(r)
  PROVE  PurchasesInv'
<1>1. PICK old : old = requests[r] /\ old.step = "updating"
  BY DEF WriteUpdate
<1>2. CASE purchaseRows[old.id] = None
  BY <1>1, <1>2, EndInv DEF WriteUpdate
<1>3. CASE purchaseRows[old.id] # None
  <2>1. old.id \in DOMAIN purchaseRows /\ IntAmounts(old.read.amounts) /\ old.input \in Updates
    BY <1>1 DEF PurchasesInv, JobFits
  <2>2. PICK row : row = Updated(purchaseRows[old.id], old.input, old.read)
    OBVIOUS
  <2>3. purchaseRows' = [purchaseRows EXCEPT ![old.id] = row] /\ requests' = End(r, "done")
    BY <1>1, <1>3, <2>2 DEF WriteUpdate
  <2>4. PICK job : /\ BecomesJob(r, job) /\ job.step = "done"
                   /\ job.todo = requests[r].todo /\ job.importable = requests[r].importable
    BY <2>3, EndedJob
  <2>5. JobFits(requests[r])
    BY DEF PurchasesInv
  <2>6. JobFits(requests[r])'
    BY <1>1, <2>4, <2>5 DEF JobFits, BecomesJob
  <2>7. row.amounts = mergeAmounts(old.input, old.read) /\ row.total = purchaseInvoiceTotal(row.amounts)
        /\ row.fileTotal = None /\ row.by = None
    BY <2>2 DEF Updated
  <2>8. IntAmounts(mergeAmounts(old.input, old.read))
    BY <2>1, PurchaseConstants DEF IntAmounts, mergeAmounts
  <2>9. PurchaseFits(row)
    BY <2>7, <2>8 DEF PurchaseFits
  <2> QED BY <2>1, <2>3, <2>4, <2>6, <2>7, <2>9, RowReplaced DEF Working
<1> QED BY <1>2, <1>3

LEMMA DeletePurchaseInv ==
  ASSUME PurchasesInv, NEW r \in Requests, DeletePurchase(r)
  PROVE  PurchasesInv'
<1>1. PICK old : old = requests[r] /\ old.step = "removing"
  BY DEF DeletePurchase
<1>2. PICK step : step = (IF purchaseRows[old.id] = None THEN "failed" ELSE "done")
  OBVIOUS
<1>3. purchaseRows' = [purchaseRows EXCEPT ![old.id] = None] /\ requests' = End(r, step) /\ step \in {"failed", "done"}
  BY <1>1, <1>2 DEF DeletePurchase
<1>4. PICK job : /\ BecomesJob(r, job) /\ job.step = step
                 /\ job.todo = requests[r].todo /\ job.importable = requests[r].importable
  BY <1>3, EndedJob
<1>5. JobFits(requests[r])
  BY DEF PurchasesInv
<1>6. JobFits(requests[r])'
  BY <1>1, <1>3, <1>4, <1>5 DEF JobFits, BecomesJob
<1>7. old.id \in DOMAIN purchaseRows
  BY <1>1, <1>5 DEF JobFits
<1>8. job.step \notin Working
  BY <1>3, <1>4 DEF Working
<1>9. None = None \/ (PurchaseFits(None) /\ None.by = None /\ None.fileTotal = None)
  OBVIOUS
<1> QED BY <1>3, <1>4, <1>6, <1>7, <1>8, <1>9, RowReplaced

LEMMA PurchasesStepInv == PurchasesInv /\ [PurchasesNext]_purchaseVars => PurchasesInv'
<1> SUFFICES ASSUME PurchasesInv, [PurchasesNext]_purchaseVars PROVE PurchasesInv'
  OBVIOUS
<1>1. ASSUME NEW r \in Requests, ImportFails(r) PROVE PurchasesInv'
  BY <1>1, EndInv DEF ImportFails
<1>2. ASSUME NEW r \in Requests, ImportEnds(r) PROVE PurchasesInv'
  BY <1>2, EndInv DEF ImportEnds
<1>3. CASE UNCHANGED purchaseVars
  BY <1>3 DEF purchaseVars, PurchasesInv, Live, JobFits, WorkersOverlap, TodoIsFresh, ImportsDoNotRepeat,
              StoredCounts, StoredBy, Untouched, Overlap
<1>4. CASE PurchasesNext
  BY <1>1, <1>2, <1>4, CreatePurchaseInv, StartImportInv, ImportRowInv, ReadPurchaseInv, WriteUpdateInv,
     DeletePurchaseInv DEF PurchasesNext
<1> QED BY <1>3, <1>4

\* What a sum of rows is: the last of its running sums.
LEMMA RowsRunningSum ==
  ASSUME NEW ids, NEW amount
  PROVE  \E sum : /\ sum[0] = 0
                  /\ \A n \in Nat : n # 0 => sum[n] = sum[n - 1] + (IF n \in ids THEN amount[n] ELSE 0)
                  /\ SumOfRows(ids, amount) = sum[Len(purchaseRows)]
<1> DEFINE IsSum(sum) == sum = [n \in Nat |-> IF n = 0 THEN 0 ELSE sum[n - 1] + (IF n \in ids THEN amount[n] ELSE 0)]
           term == [n \in Nat |-> IF n \in ids THEN amount[n] ELSE 0]
<1>1. \E sum : IsSum(sum)
  <2>1. PICK sum : sum = [n \in Nat |-> IF n = 0 THEN 0 ELSE sum[n - 1] + term[n]]
    BY SumsExist
  <2>2. sum = [n \in Nat |-> IF n = 0 THEN 0 ELSE sum[n - 1] + (IF n \in ids THEN amount[n] ELSE 0)]
    <3>1. \A n \in Nat : (IF n = 0 THEN 0 ELSE sum[n - 1] + term[n])
                           = IF n = 0 THEN 0 ELSE sum[n - 1] + (IF n \in ids THEN amount[n] ELSE 0)
      OBVIOUS
    <3> QED BY <2>1, <3>1, Zenon
  <2> QED BY <2>2
<1> DEFINE s == CHOOSE sum : IsSum(sum)
<1>2. SumOfRows(ids, amount) = s[Len(purchaseRows)]
  BY Zenon DEF SumOfRows
<1>3. IsSum(s)
  BY <1>1
<1> HIDE DEF s
<1>4. s[0] = 0 /\ \A n \in Nat : n # 0 => s[n] = s[n - 1] + (IF n \in ids THEN amount[n] ELSE 0)
  <2>1. \A n \in Nat : s[n] = IF n = 0 THEN 0 ELSE s[n - 1] + (IF n \in ids THEN amount[n] ELSE 0)
    BY <1>3, Zenon
  <2> QED BY <2>1
<1> QED BY <1>2, <1>4

\* A sum of sums is the sum of the sums of the parts.
LEMMA SumsAddUp ==
  ASSUME NEW ids, Len(purchaseRows) \in Nat, NEW whole, NEW a, NEW b, NEW c,
         \A i \in ids : a[i] \in Int /\ b[i] \in Int /\ c[i] \in Int /\ whole[i] = a[i] + b[i] + c[i]
  PROVE  SumOfRows(ids, whole) = SumOfRows(ids, a) + SumOfRows(ids, b) + SumOfRows(ids, c)
<1>1. PICK sw : /\ sw[0] = 0 /\ SumOfRows(ids, whole) = sw[Len(purchaseRows)]
                /\ \A n \in Nat : n # 0 => sw[n] = sw[n - 1] + (IF n \in ids THEN whole[n] ELSE 0)
  BY RowsRunningSum
<1>2. PICK sa : /\ sa[0] = 0 /\ SumOfRows(ids, a) = sa[Len(purchaseRows)]
                /\ \A n \in Nat : n # 0 => sa[n] = sa[n - 1] + (IF n \in ids THEN a[n] ELSE 0)
  BY RowsRunningSum
<1>3. PICK sb : /\ sb[0] = 0 /\ SumOfRows(ids, b) = sb[Len(purchaseRows)]
                /\ \A n \in Nat : n # 0 => sb[n] = sb[n - 1] + (IF n \in ids THEN b[n] ELSE 0)
  BY RowsRunningSum
<1>4. PICK sc : /\ sc[0] = 0 /\ SumOfRows(ids, c) = sc[Len(purchaseRows)]
                /\ \A n \in Nat : n # 0 => sc[n] = sc[n - 1] + (IF n \in ids THEN c[n] ELSE 0)
  BY RowsRunningSum
<1> DEFINE Holds(n) == sa[n] \in Int /\ sb[n] \in Int /\ sc[n] \in Int /\ sw[n] = sa[n] + sb[n] + sc[n]
           T == {n \in Nat : Holds(n)}
<1>5. 0 \in T
  BY <1>1, <1>2, <1>3, <1>4
<1>6. ASSUME NEW n \in T PROVE n + 1 \in T
  <2>1. n \in Nat /\ Holds(n) /\ n + 1 \in Nat /\ n + 1 # 0 /\ (n + 1) - 1 = n
    BY <1>6
  <2> HIDE DEF T
  <2>2. /\ sw[n + 1] = sw[n] + (IF n + 1 \in ids THEN whole[n + 1] ELSE 0)
        /\ sa[n + 1] = sa[n] + (IF n + 1 \in ids THEN a[n + 1] ELSE 0)
        /\ sb[n + 1] = sb[n] + (IF n + 1 \in ids THEN b[n + 1] ELSE 0)
        /\ sc[n + 1] = sc[n] + (IF n + 1 \in ids THEN c[n + 1] ELSE 0)
    BY <1>1, <1>2, <1>3, <1>4, <2>1
  <2>3. CASE n + 1 \in ids
    <3>2. PICK m : m = n + 1
      OBVIOUS
    <3>3. a[m] \in Int /\ b[m] \in Int /\ c[m] \in Int /\ whole[m] = a[m] + b[m] + c[m]
      BY <2>3, <3>2
    <3>4. sw[m] = sw[n] + whole[m] /\ sa[m] = sa[n] + a[m] /\ sb[m] = sb[n] + b[m] /\ sc[m] = sc[n] + c[m]
      BY <2>2, <2>3, <3>2
    <3>5. sa[n] \in Int /\ sb[n] \in Int /\ sc[n] \in Int /\ sw[n] = sa[n] + sb[n] + sc[n]
      BY <2>1
    <3>6. sa[m] \in Int /\ sb[m] \in Int /\ sc[m] \in Int
      BY SMTT(20), <3>3, <3>4, <3>5
    <3>7. sw[m] = sa[m] + sb[m] + sc[m]
      BY SMTT(20), <3>3, <3>4, <3>5
    <3>1. Holds(m)
      BY <3>6, <3>7
    <3> QED BY <2>1, <3>1, <3>2 DEF T
  <2>4. CASE n + 1 \notin ids
    <3>1. Holds(n + 1)
      BY <2>1, <2>2, <2>4
    <3> QED BY <2>1, <3>1 DEF T
  <2> QED BY <2>3, <2>4
<1>7. T \in SUBSET Nat
  OBVIOUS
<1> HIDE DEF T
<1>8. T = Nat
  BY <1>5, <1>6, <1>7, EveryNatural
<1>9. Holds(Len(purchaseRows))
  BY <1>8 DEF T
<1> QED BY <1>1, <1>2, <1>3, <1>4, <1>9

LEMMA PurchasesInvImplies == PurchasesInv => PurchasesHold
<1> SUFFICES ASSUME PurchasesInv PROVE PurchasesHold
  OBVIOUS
<1>1. ASSUME NEW i \in Live
      PROVE  /\ netOf(purchaseRows[i].amounts) \in Int /\ ivaOf(purchaseRows[i].amounts) \in Int
             /\ restOf(purchaseRows[i].amounts) \in Int
             /\ purchaseRows[i].total = netOf(purchaseRows[i].amounts) + ivaOf(purchaseRows[i].amounts)
                  + restOf(purchaseRows[i].amounts)
  <2>1. PICK amounts : amounts = purchaseRows[i].amounts
    OBVIOUS
  <2>2. IntAmounts(amounts) /\ purchaseRows[i].total = purchaseInvoiceTotal(amounts)
    BY <2>1 DEF PurchasesInv, PurchaseFits
  <2>3. netOf(amounts) \in Int /\ ivaOf(amounts) \in Int /\ restOf(amounts) \in Int
    BY <2>2 DEF IntAmounts, AmountFields, netOf, ivaOf, restOf
  <2> QED BY <2>1, <2>2, <2>3 DEF purchaseInvoiceTotal
<1>2. TotalsAddUp
  <2>1. ASSUME NEW i \in Live
        PROVE  LET ids == list(purchaseRows[i].issueDate)
                   sums == addToSummary(ids)
               IN sums.totalAmount = sums.netAmount + sums.ivaAmount
                    + SumOfRows(ids, [k \in ids |-> restOf(purchaseRows[k].amounts)])
    <3> DEFINE ids == list(purchaseRows[i].issueDate)
               whole == [k \in ids |-> purchaseRows[k].total]
               nets == [k \in ids |-> netOf(purchaseRows[k].amounts)]
               ivas == [k \in ids |-> ivaOf(purchaseRows[k].amounts)]
               rests == [k \in ids |-> restOf(purchaseRows[k].amounts)]
    <3>1. ids \subseteq Live
      BY DEF list
    <3> HIDE DEF ids
    <3>2. \A k \in ids : nets[k] \in Int /\ ivas[k] \in Int /\ rests[k] \in Int /\ whole[k] = nets[k] + ivas[k] + rests[k]
      BY <1>1, <3>1
    <3>3. addToSummary(ids).totalAmount = SumOfRows(ids, whole) /\ addToSummary(ids).netAmount = SumOfRows(ids, nets)
          /\ addToSummary(ids).ivaAmount = SumOfRows(ids, ivas)
      BY DEF addToSummary
    <3> HIDE DEF whole, nets, ivas, rests
    <3>4. SumOfRows(ids, whole) = SumOfRows(ids, nets) + SumOfRows(ids, ivas) + SumOfRows(ids, rests)
      BY <3>2, SumsAddUp DEF PurchasesInv
    <3> QED BY <3>3, <3>4 DEF ids, rests
  <2>2. \A i \in Live : purchaseRows[i].total = purchaseInvoiceTotal(purchaseRows[i].amounts)
    BY DEF PurchasesInv, PurchaseFits
  <2> QED BY <2>1, <2>2 DEF TotalsAddUp
<1>3. ImportKeepsTotals
  BY DEF ImportKeepsTotals, PurchasesInv, PurchaseFits
<1>4. ImportCounts
  <2>1. ASSUME NEW r \in Requests, requests[r].importable > 0, Live = DOMAIN purchaseRows,
               \A i \in Live : purchaseRows[i].by # None
        PROVE  /\ Cardinality(StoredBy(r)) + Cardinality(requests[r].todo) = requests[r].importable
               /\ requests[r].step = "done" => Cardinality(requests[r].todo) = 0
               /\ requests[r].step = "failed" => Cardinality(requests[r].todo) > 0
    <3>1. Untouched /\ JobFits(requests[r])
      BY <2>1 DEF Untouched, PurchasesInv
    <3>2. Cardinality(requests[r].todo) \in Nat /\ (Cardinality(requests[r].todo) = 0 <=> requests[r].todo = {})
      BY <3>1, FS_CardinalityType, FS_EmptySet DEF JobFits
    <3> QED BY <2>1, <3>1, <3>2 DEF JobFits, PurchasesInv, StoredCounts
  <2> QED BY <2>1 DEF ImportCounts, StoredBy
<1> QED BY <1>2, <1>3, <1>4 DEF PurchasesHold, PurchasesInv

\* Whatever the files and the bodies, and however the requests interleave: the
\* totals add up, an import keeps what its file says, stores what it answers,
\* and repeats no invoice of a request that did not run beside it.
THEOREM PurchasesAddUp == PurchasesSpec => []PurchasesHold
<1>1. PurchasesSpec => []PurchasesInv
  BY PurchasesInitInv, PurchasesStepInv, PTL DEF PurchasesSpec
<1> QED BY <1>1, PurchasesInvImplies, PTL

-----------------------------------------------------------------------------
(* Types.  What the invariants above leave out of them is inductive beside    *)
(* the invariant of the part.                                                 *)

\* A row's sales point is stored before the row.
PointsAreStored ==
  \A p \in Posts : posts[p].step = "creating" =>
    <<posts[p].issuer, posts[p].input.salesPoint>> \in salesPoints

LEMMA ExportTypesStep ==
  ExportsInv /\ ExportsTypeOK /\ PointsAreStored /\ [ExportsNext]_exportVars =>
    ExportsTypeOK' /\ PointsAreStored'
<1> SUFFICES ASSUME ExportsInv, ExportsTypeOK, PointsAreStored, [ExportsNext]_exportVars
             PROVE  ExportsTypeOK' /\ PointsAreStored'
  OBVIOUS
<1>1. \A p \in Posts : posts[p] \in PostRecord /\ PostShape(p)
  BY DEF ExportsInv
<1>2. ExportsInv'
  BY ExportsStepInv
<1>3. \A p \in Posts : posts'[p].step \in Steps
  BY <1>2 DEF ExportsInv, PostRecord
<1>4. CASE UNCHANGED exportVars
  BY <1>4 DEF exportVars, ExportsTypeOK, PointsAreStored
<1>5. ASSUME NEW p \in Posts, UpsertSalesPoint(p)
      PROVE  ExportsTypeOK' /\ PointsAreStored'
  <2>1. posts[p].issuer \in Issuers /\ posts[p].input.salesPoint \in Nat
    BY <1>1, <1>5, ExportConstants DEF UpsertSalesPoint, PostShape, InSection
  <2>2. salesPoints \subseteq salesPoints' /\ salesPoints' \subseteq Issuers \X Nat /\ exports' = exports
        /\ <<posts[p].issuer, posts[p].input.salesPoint>> \in salesPoints'
    BY <1>5, <2>1 DEF UpsertSalesPoint, ExportsTypeOK
  <2>3. \A q \in Posts : posts'[q].issuer = posts[q].issuer /\ posts'[q].input = posts[q].input
                         /\ (q # p => posts'[q].step = posts[q].step)
    BY <1>1, <1>5 DEF UpsertSalesPoint, Step, ExportsInv
  <2>4. PointsAreStored'
    BY <2>2, <2>3 DEF PointsAreStored
  <2> QED BY <1>3, <2>2, <2>4 DEF ExportsTypeOK, Steps
<1>6. ASSUME NEW p \in Posts, CreateExportRow(p)
      PROVE  ExportsTypeOK' /\ PointsAreStored'
  <2>1. posts[p].issuer \in Issuers /\ posts[p].number \in Nat \ {0}
        /\ <<posts[p].issuer, posts[p].input.salesPoint>> \in salesPoints
    BY <1>1, <1>6 DEF CreateExportRow, PostShape, InSection, Sent, PostRecord, PointsAreStored
  <2>2. /\ ExportRow(p).issuer = posts[p].issuer /\ ExportRow(p).number = posts[p].number
        /\ ExportRow(p).salesPoint = posts[p].input.salesPoint
    BY DEF ExportRow
  <2>3. salesPoints' = salesPoints /\ exports' = exports \cup {ExportRow(p)}
    BY <1>6 DEF CreateExportRow
  <2>4. \A q \in Posts : posts'[q].issuer = posts[q].issuer /\ posts'[q].input = posts[q].input
                         /\ (posts'[q].step = "creating" => posts[q].step = "creating")
    BY <1>1, <1>6 DEF CreateExportRow, Step, ExportsInv
  <2>5. PointsAreStored'
    BY <2>3, <2>4 DEF PointsAreStored
  <2>6. \A row \in exports' : /\ row.issuer \in Issuers /\ row.number \in Nat \ {0}
                              /\ <<row.issuer, row.salesPoint>> \in salesPoints'
    BY <2>1, <2>2, <2>3 DEF ExportsTypeOK
  <2> QED BY <1>3, <2>3, <2>5, <2>6 DEF ExportsTypeOK, Steps
<1>7. ASSUME UNCHANGED <<exports, salesPoints>>,
             \A q \in Posts : posts'[q].step = "creating" =>
               posts[q].step = "creating" /\ posts'[q].issuer = posts[q].issuer /\ posts'[q].input = posts[q].input
      PROVE  ExportsTypeOK' /\ PointsAreStored'
  <2>1. PointsAreStored'
    BY <1>7 DEF PointsAreStored
  <2> QED BY <1>3, <1>7, <2>1 DEF ExportsTypeOK, Steps
<1>8. ASSUME NEW p \in Posts,
             \/ \E issuer \in Issuers \cup {None}, input \in ExportInputs : PostExport(p, issuer, input)
             \/ EnterSection(p) \/ ExportAuth(p)
             \/ ReadLastNumber(p) \/ ReadLastRequestId(p) \/ ArcaFails(p)
             \/ AuthorizeExport(p) \/ ReprocessExport(p) \/ RejectExport(p) \/ RecordFails(p)
      PROVE  ExportsTypeOK' /\ PointsAreStored'
  <2>1. UNCHANGED <<exports, salesPoints>>
    BY <1>8 DEF PostExport, EnterSection, ExportAuth, ReadLastNumber, ReadLastRequestId, ArcaFails,
                AuthorizeExport, ReprocessExport, RejectExport, RecordFails, UnchangedButPosts
  <2>2. DOMAIN posts = Posts /\ "step" \in DOMAIN posts[p]
    BY <1>1 DEF ExportsInv, PostRecord
  <2>3. CASE \E issuer \in Issuers \cup {None}, input \in ExportInputs : PostExport(p, issuer, input)
    <3>1. PICK issuer \in Issuers \cup {None}, input \in ExportInputs : PostExport(p, issuer, input)
      BY <2>3
    <3>2. posts'[p].step # "creating" /\ \A q \in Posts : q # p => posts'[q] = posts[q]
      BY <2>2, <3>1 DEF PostExport
    <3> QED BY <1>7, <2>1, <3>2
  <2>4. CASE AuthorizeExport(p)
    <3>1. PICK reply : posts' = [posts EXCEPT ![p].step = "recording", ![p].reply = reply]
                       \/ posts' = Step(p, "failed")
      BY <2>4 DEF AuthorizeExport
    <3>2. posts'[p].step # "creating" /\ \A q \in Posts : q # p => posts'[q] = posts[q]
      BY <2>2, <3>1 DEF Step
    <3> QED BY <1>7, <2>1, <3>2
  <2>5. CASE ReprocessExport(p)
    <3>1. PICK reply : posts' = [posts EXCEPT ![p].step = "recording", ![p].reply = reply]
      BY <2>5 DEF ReprocessExport
    <3>2. posts'[p].step # "creating" /\ \A q \in Posts : q # p => posts'[q] = posts[q]
      BY <2>2, <3>1
    <3> QED BY <1>7, <2>1, <3>2
  <2>6. CASE ReadLastNumber(p) \/ ReadLastRequestId(p)
    <3>1. posts'[p].step # "creating" /\ \A q \in Posts : q # p => posts'[q] = posts[q]
      BY <2>2, <2>6 DEF ReadLastNumber, ReadLastRequestId
    <3> QED BY <1>7, <2>1, <3>1
  <2>7. CASE EnterSection(p) \/ ExportAuth(p) \/ ArcaFails(p) \/ RejectExport(p) \/ RecordFails(p)
    <3>1. posts'[p].step # "creating" /\ \A q \in Posts : q # p => posts'[q] = posts[q]
      BY <2>2, <2>7 DEF EnterSection, ExportAuth, ArcaFails, RejectExport, RecordFails, Step
    <3> QED BY <1>7, <2>1, <3>1
  <2> QED BY <1>8, <2>3, <2>4, <2>5, <2>6, <2>7
<1> QED BY <1>4, <1>5, <1>6, <1>8 DEF ExportsNext

LEMMA ExportTypes == ExportsSpec => []ExportsTypeOK
<1>1. ExportsInit => ExportsTypeOK /\ PointsAreStored
  BY DEF ExportsInit, ExportsTypeOK, PointsAreStored
<1> QED BY <1>1, ExportsInitInv, ExportsStepInv, ExportTypesStep, PTL DEF ExportsSpec

LEMMA ReconciliationTypes == ReconciliationSpec => []ReconciliationTypeOK
<1>1. ReconciliationInit => ReconciliationTypeOK
  BY DEF ReconciliationInit, ReconciliationTypeOK, NoCheck
<1>2. ReconciliationInv /\ ReconciliationTypeOK /\ [ReconciliationNext]_reconciliationVars => ReconciliationTypeOK'
  <2> SUFFICES ASSUME ReconciliationInv, ReconciliationTypeOK, [ReconciliationNext]_reconciliationVars
               PROVE  ReconciliationTypeOK'
    OBVIOUS
  <2>1. ReconciliationInv'
    BY ReconciliationInvStep
  <2>2. \A group \in Groups : stored'[group] \subseteq 1..atArca'[group]
    BY <2>1 DEF ReconciliationInv, StoredWasAuthorised
  <2>3. CASE UNCHANGED <<check, report>>
    BY <2>2, <2>3 DEF ReconciliationTypeOK
  <2>4. CASE GroupRows
    <3>1. \/ check' = check /\ report'.answer = "ok"
          \/ check'.step = "auth" /\ report' = report
      BY <2>4 DEF GroupRows
    <3> QED BY <2>2, <3>1 DEF ReconciliationTypeOK
  <2>5. CASE CheckAuth \/ AskArca
    <3>1. check'.step \in {"auth", "asking"} /\ report' = report
      BY <2>5 DEF CheckAuth, AskArca, ReconciliationInv
    <3> QED BY <2>2, <3>1 DEF ReconciliationTypeOK
  <2>6. CASE CheckFails \/ CheckEnds
    <3>1. check'.step = "idle" /\ report'.answer \in {"ok", "error"}
      BY <2>6 DEF CheckFails, CheckEnds, NoCheck
    <3> QED BY <2>2, <3>1 DEF ReconciliationTypeOK
  <2> QED
    BY <2>3, <2>4, <2>5, <2>6
       DEF ReconciliationNext, AuthoriseNumber, StoreNumber, reconciliationVars
<1> QED BY <1>1, <1>2, ReconciliationInitInv, ReconciliationInvStep, PTL DEF ReconciliationSpec

RequestSteps == Working \cup {"new", "done", "failed", "refused", "not_found"}

\* What the purchases' invariant leaves out: the room there is, the fields, and the steps.
PurchasesTyped ==
  /\ Len(purchaseRows) <= MaxPurchaseRows
  /\ \A i \in Live : DOMAIN purchaseRows[i].amounts = AmountFields
  /\ \A r \in Requests : requests[r].step \in RequestSteps

LEMMA StepsAfter ==
  ASSUME PurchasesInv, PurchasesTyped, [PurchasesNext]_purchaseVars
  PROVE  \A r \in Requests : requests'[r].step \in RequestSteps
<1>1. ASSUME NEW r \in Requests, NEW job, DOMAIN job = JobFields, job.step \in RequestSteps,
             requests[r].step = "new", requests' = Begin(r, job)
      PROVE  \A q \in Requests : requests'[q].step \in RequestSteps
  <2>1. BecomesJob(r, job)
    BY <1>1, Began
  <2> QED BY <1>1, <2>1 DEF BecomesJob, KeepsJob, PurchasesTyped
<1>2. ASSUME NEW r \in Requests, NEW step \in RequestSteps, requests' = End(r, step)
      PROVE  \A q \in Requests : requests'[q].step \in RequestSteps
  <2>1. PICK job : BecomesJob(r, job) /\ job.step = step
    BY <1>2, EndedJob
  <2> QED BY <1>2, <2>1 DEF BecomesJob, KeepsJob, PurchasesTyped
<1>3. {"done", "failed", "refused", "not_found", "importing", "updating", "removing"} \subseteq RequestSteps
  BY DEF RequestSteps, Working
<1>4. ASSUME NEW r \in Requests, NEW input, CreatePurchase(r, input)
      PROVE  \A q \in Requests : requests'[q].step \in RequestSteps
  <2>1. PICK job : job = [NewRequest EXCEPT !.step = "done"]
    OBVIOUS
  <2>2. DOMAIN job = JobFields /\ job.step = "done"
    BY <2>1, NewJob DEF JobFields
  <2>3. requests[r].step = "new" /\ (requests' = Begin(r, job) \/ requests' = End(r, "refused"))
    BY <1>4, <2>1 DEF CreatePurchase
  <2> QED BY <1>1, <1>2, <1>3, <2>2, <2>3
<1>5. ASSUME NEW r \in Requests, NEW file, StartImport(r, file)
      PROVE  \A q \in Requests : requests'[q].step \in RequestSteps
  <2>1. CASE requests' = End(r, "refused")
    BY <1>2, <1>3, <2>1
  <2>2. CASE requests' # End(r, "refused")
    <3>1. PICK parsed, todo, importable :
            requests' = Begin(r, [NewRequest EXCEPT !.step = "importing", !.rows = parsed, !.todo = todo,
                                                    !.importable = importable])
      BY <1>5, <2>2 DEF StartImport
    <3>2. PICK job : job = [NewRequest EXCEPT !.step = "importing", !.rows = parsed, !.todo = todo,
                                              !.importable = importable]
      OBVIOUS
    <3>3. DOMAIN job = JobFields /\ job.step = "importing" /\ requests' = Begin(r, job)
      BY <3>1, <3>2, NewJob DEF JobFields
    <3> QED BY <1>1, <1>3, <1>5, <3>3 DEF StartImport
  <2> QED BY <2>1, <2>2
<1>6. ASSUME NEW r \in Requests, NEW id, NEW input, ReadPurchase(r, id, input)
      PROVE  \A q \in Requests : requests'[q].step \in RequestSteps
  <2>1. PICK step \in {"removing", "updating"} : step = IF input = None THEN "removing" ELSE "updating"
    OBVIOUS
  <2>2. PICK job : job = [NewRequest EXCEPT !.step = step, !.id = id, !.read = purchaseRows[id], !.input = input]
    OBVIOUS
  <2>3. DOMAIN job = JobFields /\ job.step = step
    BY <2>2, NewJob DEF JobFields
  <2>4. requests[r].step = "new" /\ (requests' = Begin(r, job) \/ requests' = End(r, "not_found"))
    BY <1>6, <2>1, <2>2 DEF ReadPurchase
  <2> QED BY <1>1, <1>2, <1>3, <2>1, <2>3, <2>4
<1>7. ASSUME NEW r \in Requests, ImportRow(r)
      PROVE  \A q \in Requests : requests'[q].step \in RequestSteps
  <2>1. DOMAIN requests = Requests /\ DOMAIN requests[r] = JobFields
    BY DEF PurchasesInv, JobFits
  <2>2. PICK i : requests' = [requests EXCEPT ![r].todo = requests[r].todo \ {i}]
    BY <1>7 DEF ImportRow
  <2>3. \A q \in Requests : requests'[q].step = requests[q].step
    BY <2>1, <2>2 DEF JobFields
  <2> QED BY <2>3 DEF PurchasesTyped
<1>8. ASSUME NEW r \in Requests, ImportFails(r) \/ ImportEnds(r) \/ WriteUpdate(r) \/ DeletePurchase(r)
      PROVE  \A q \in Requests : requests'[q].step \in RequestSteps
  <2>1. requests' = End(r, "failed") \/ requests' = End(r, "done")
    BY <1>8 DEF ImportFails, ImportEnds, WriteUpdate, DeletePurchase
  <2> QED BY <1>2, <1>3, <2>1
<1>9. CASE UNCHANGED purchaseVars
  BY <1>9 DEF purchaseVars, PurchasesTyped
<1> QED BY <1>4, <1>5, <1>6, <1>7, <1>8, <1>9 DEF PurchasesNext

LEMMA RowsAfter ==
  ASSUME PurchasesInv, PurchasesTyped, [PurchasesNext]_purchaseVars
  PROVE  Len(purchaseRows') <= MaxPurchaseRows /\ \A i \in Live' : DOMAIN purchaseRows'[i].amounts = AmountFields
<1>1. Len(purchaseRows) \in Nat /\ DOMAIN purchaseRows = 1..Len(purchaseRows)
  BY DEF PurchasesInv
<1>2. ASSUME UNCHANGED purchaseRows
      PROVE  Len(purchaseRows') <= MaxPurchaseRows /\ \A i \in Live' : DOMAIN purchaseRows'[i].amounts = AmountFields
  BY <1>2 DEF PurchasesTyped, Live
<1>3. ASSUME NEW row, DOMAIN row.amounts = AmountFields, Room, purchaseRows' = Append(purchaseRows, row)
      PROVE  Len(purchaseRows') <= MaxPurchaseRows /\ \A i \in Live' : DOMAIN purchaseRows'[i].amounts = AmountFields
  <2>1. /\ Len(purchaseRows') = Len(purchaseRows) + 1 /\ DOMAIN purchaseRows' = 1..(Len(purchaseRows) + 1)
        /\ purchaseRows'[Len(purchaseRows) + 1] = row
        /\ \A i \in 1..Len(purchaseRows) : purchaseRows'[i] = purchaseRows[i]
    BY <1>1, <1>3
  <2>2. \A i \in Live' : (i \in Live /\ purchaseRows'[i] = purchaseRows[i]) \/ purchaseRows'[i] = row
    BY <1>1, <2>1 DEF Live
  <2>3. Len(purchaseRows') <= MaxPurchaseRows
    BY <1>1, <1>3, <2>1, PurchaseConstants DEF Room
  <2> QED BY <1>3, <2>2, <2>3 DEF PurchasesTyped
<1>4. ASSUME NEW id \in DOMAIN purchaseRows, NEW row, row = None \/ DOMAIN row.amounts = AmountFields,
             purchaseRows' = [purchaseRows EXCEPT ![id] = row]
      PROVE  Len(purchaseRows') <= MaxPurchaseRows /\ \A i \in Live' : DOMAIN purchaseRows'[i].amounts = AmountFields
  <2>1. /\ DOMAIN purchaseRows' = DOMAIN purchaseRows /\ purchaseRows'[id] = row
        /\ Len(purchaseRows') = Len(purchaseRows)
        /\ \A i \in DOMAIN purchaseRows : i # id => purchaseRows'[i] = purchaseRows[i]
    BY <1>1, <1>4
  <2>2. \A i \in Live' : (i \in Live /\ purchaseRows'[i] = purchaseRows[i]) \/ (purchaseRows'[i] = row /\ row # None)
    BY <2>1 DEF Live
  <2> QED BY <1>4, <2>1, <2>2 DEF PurchasesTyped
<1>5. ASSUME NEW r \in Requests, NEW input \in ManualInvoices, CreatePurchase(r, input)
      PROVE  Len(purchaseRows') <= MaxPurchaseRows /\ \A i \in Live' : DOMAIN purchaseRows'[i].amounts = AmountFields
  <2>1. DOMAIN CreatedRow(input, r).amounts = AmountFields
    BY PurchaseConstants DEF CreatedRow
  <2> QED BY <1>2, <1>3, <1>5, <2>1 DEF CreatePurchase
<1>6. ASSUME NEW r \in Requests, ImportRow(r)
      PROVE  Len(purchaseRows') <= MaxPurchaseRows /\ \A i \in Live' : DOMAIN purchaseRows'[i].amounts = AmountFields
  <2>1. PICK i : Room /\ purchaseRows' = Append(purchaseRows, ImportedRow(requests[r].rows[i], r))
    BY <1>6 DEF ImportRow
  <2>2. DOMAIN ImportedRow(requests[r].rows[i], r).amounts = AmountFields
    BY DEF ImportedRow, amountsForRate
  <2> QED BY <1>3, <2>1, <2>2
<1>7. \A r \in Requests : requests[r].step \in {"updating", "removing"} => requests[r].id \in DOMAIN purchaseRows
  BY DEF PurchasesInv, JobFits
<1>8. ASSUME NEW r \in Requests, WriteUpdate(r)
      PROVE  Len(purchaseRows') <= MaxPurchaseRows /\ \A i \in Live' : DOMAIN purchaseRows'[i].amounts = AmountFields
  <2>1. PICK row : row = Updated(purchaseRows[requests[r].id], requests[r].input, requests[r].read)
    OBVIOUS
  <2>2. DOMAIN row.amounts = AmountFields
    BY <2>1 DEF Updated, mergeAmounts
  <2>3. requests[r].id \in DOMAIN purchaseRows
    BY <1>7, <1>8 DEF WriteUpdate
  <2>4. UNCHANGED purchaseRows \/ purchaseRows' = [purchaseRows EXCEPT ![requests[r].id] = row]
    BY <1>8, <2>1 DEF WriteUpdate
  <2> QED BY <1>2, <1>4, <2>2, <2>3, <2>4
<1>9. ASSUME NEW r \in Requests, DeletePurchase(r)
      PROVE  Len(purchaseRows') <= MaxPurchaseRows /\ \A i \in Live' : DOMAIN purchaseRows'[i].amounts = AmountFields
  BY <1>4, <1>7, <1>9 DEF DeletePurchase
<1>10. ASSUME \/ UNCHANGED purchaseVars
              \/ \E r \in Requests :
                   \/ \E file \in CsvFiles : StartImport(r, file)
                   \/ ImportFails(r) \/ ImportEnds(r)
                   \/ \E id \in DOMAIN purchaseRows, input \in Updates \cup {None} : ReadPurchase(r, id, input)
       PROVE  Len(purchaseRows') <= MaxPurchaseRows /\ \A i \in Live' : DOMAIN purchaseRows'[i].amounts = AmountFields
  BY <1>2, <1>10 DEF purchaseVars, StartImport, ImportFails, ImportEnds, ReadPurchase
<1> QED BY <1>5, <1>6, <1>8, <1>9, <1>10 DEF PurchasesNext

LEMMA PurchaseTypes == PurchasesSpec => []PurchasesTypeOK
<1>1. PurchasesInit => PurchasesTyped
  BY PurchaseConstants DEF PurchasesInit, PurchasesTyped, Live, NewRequest, RequestSteps
<1>2. PurchasesInv /\ PurchasesTyped /\ [PurchasesNext]_purchaseVars => PurchasesTyped'
  BY StepsAfter, RowsAfter DEF PurchasesTyped
<1>3. PurchasesInv /\ PurchasesTyped => PurchasesTypeOK
  <2> SUFFICES ASSUME PurchasesInv, PurchasesTyped PROVE PurchasesTypeOK
    OBVIOUS
  <2>1. ASSUME NEW i \in Live PROVE purchaseRows[i].total \in Int
    <3>1. PICK amounts : amounts = purchaseRows[i].amounts
      OBVIOUS
    <3>2. IntAmounts(amounts) /\ purchaseRows[i].total = purchaseInvoiceTotal(amounts)
      BY <3>1 DEF PurchasesInv, PurchaseFits
    <3> QED BY <3>2 DEF IntAmounts, purchaseInvoiceTotal, netOf, ivaOf, restOf, AmountFields
  <2> QED BY <2>1 DEF PurchasesTyped, PurchasesTypeOK, RequestSteps
<1> QED BY <1>1, <1>2, <1>3, PurchasesInitInv, PurchasesStepInv, PTL DEF PurchasesSpec
=============================================================================
