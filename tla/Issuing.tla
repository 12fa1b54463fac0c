------------------------------- MODULE Issuing -------------------------------
(***************************************************************************)
(* What issuing promises the author of a document, without ARCA, numbers,  *)
(* locks or retries.  A document is unissued, queued, failed (its retries  *)
(* are over and its author decides) or issued.  Issued is for good, the    *)
(* queue lets nothing go except to issued or failed, and a request is      *)
(* answered once, with what was true of its document then.  An error       *)
(* promises nothing.                                                       *)
(***************************************************************************)
CONSTANTS Requests, Docs, DocOf

VARIABLES
  fate,   \* of each document
  answer  \* what each request was told

Refusals == {"rejected", "error"}

Init ==
  /\ fate = [d \in Docs |-> "unissued"]
  /\ answer = [r \in Requests |-> "none"]

Becomes(d, from, to) ==
  /\ fate[d] \in from
  /\ fate' = [fate EXCEPT ![d] = to]

\* The document's own request, or a retry, gets it a voucher.
Issue(d) == Becomes(d, {"unissued", "queued", "failed"}, "issued") /\ UNCHANGED answer

GiveUp(d) == Becomes(d, {"queued"}, "failed") /\ UNCHANGED answer

\* The author's choices over a failed document.
Reopen(d) == Becomes(d, {"failed"}, "queued") /\ UNCHANGED answer
Discard(d) == Becomes(d, {"failed"}, "unissued") /\ UNCHANGED answer

Reply(r, a) ==
  /\ answer[r] = "none"
  /\ answer' = [answer EXCEPT ![r] = a]

Queue(r) == Reply(r, "queued") /\ Becomes(DocOf[r], {"unissued"}, "queued")

Report(r) ==
  /\ \/ Reply(r, "issued") /\ fate[DocOf[r]] = "issued"
     \/ Reply(r, "queued") /\ fate[DocOf[r]] # "unissued"
     \/ \E a \in Refusals : Reply(r, a)
  /\ UNCHANGED fate

Next ==
  \/ \E d \in Docs : Issue(d) \/ GiveUp(d) \/ Reopen(d) \/ Discard(d)
  \/ \E r \in Requests : Queue(r) \/ Report(r)

Spec == Init /\ [][Next]_<<fate, answer>>
==============================================================================
