----------------------------- MODULE TrashTools -----------------------------
(***************************************************************************)
(* The tools that remove mail, src/mcp/tools/trash.ts over batchTrash in   *)
(* src/gmail/batch.ts and the service of src/gmail/service.ts.  Requests   *)
(* run concurrently on one mailbox; a step is one answer of Gmail.         *)
(*                                                                         *)
(* Gmail, as the code uses it: list answers a page of the messages outside *)
(* the trash that match; batchModify ignores ids it does not know, trash   *)
(* and untrash reject them; and a call that fails may have been carried    *)
(* out, for some of its messages or all, before its answer was lost.       *)
(***************************************************************************)
EXTENDS Naturals, Sequences, FiniteSets, SequencesExt

CONSTANTS
  Messages,    \* message ids, of mail present, future, or of none
  Matching,    \* those the query in use selects
  Requests,    \* tool calls in progress, each used once
  PageSize,    \* the most that messages.list returns, 500
  MaxIds,      \* bound on the length of message_ids
  FullAccess,  \* the account granted the full-mailbox scope
  NoIds        \* message_ids was not given

ASSUME Sizes == PageSize \in Nat \ {0} /\ MaxIds \in Nat
ASSUME MailboxIsFinite == IsFiniteSet(Messages)
ASSUME MatchingAreMessages == Matching \subseteq Messages

VARIABLES
  box,     \* where each message is
  req,     \* the requests
  touched  \* history: the messages each request had put in the trash or deleted

vars == <<box, req, touched>>

IdLists == UNION {[1 .. n -> Messages] : n \in 0 .. MaxIds}

Idle ==
  [pc |-> "idle", ids |-> <<>>, at |-> 1, max |-> 0, dry |-> FALSE, confirm |-> FALSE]

TypeOK ==
  /\ box \in [Messages -> {"absent", "mail", "trash", "deleted"}]
  /\ req \in [Requests ->
       [pc : {"idle", "list", "preview", "modify", "single", "deleteOne",
              "deleteMany", "refused", "failed", "previewed", "trashed",
              "restored", "deleted"},
        ids : Seq(Messages), at : 1 .. PageSize,
        max : 0 .. PageSize, dry : BOOLEAN, confirm : BOOLEAN]]
  /\ \A q \in Requests : req[q].pc = "single" => req[q].at \in DOMAIN req[q].ids
  /\ touched \in [Requests -> SUBSET Messages]

Init ==
  /\ box \in [Messages -> {"absent", "mail"}]
  /\ req = [q \in Requests |-> Idle]
  /\ touched = [q \in Requests |-> {}]

exists(m) == box[m] \in {"mail", "trash"}

Goto(q, pc) == req' = [req EXCEPT ![q].pc = pc]

\* Gmail carries out the move to `place` of those of S it knows, for q.
Move(q, S, place) ==
  /\ box' = [m \in Messages |-> IF m \in S /\ exists(m) THEN place ELSE box[m]]
  /\ touched' = [touched EXCEPT ![q] = @ \cup {m \in S : exists(m)}]

-----------------------------------------------------------------------------
(* batch_trash. *)

\* Mutated form: one message over the cap is let through.
MutProceedOver(ids, max, dry) ==
  IF Len(ids) > max + 1 THEN "refused"
  ELSE IF ids = <<>> THEN "trashed" ELSE IF dry THEN "preview" ELSE "modify"

\* Where a request goes once its ids are known.
proceed(ids, max, dry) ==
  CASE Len(ids) > max -> "refused"
    [] Len(ids) <= max /\ ids = <<>> -> IF dry THEN "previewed" ELSE "trashed"
    [] Len(ids) <= max /\ ids # <<>> -> IF dry THEN "preview" ELSE "modify"

\* Exactly one of the query and the ids; anything else throws at once.
BatchTrashCalled(q, byQuery, ids, max, dry) ==
  /\ req[q].pc = "idle"
  /\ req' = [req EXCEPT ![q] =
       [Idle EXCEPT !.max = max, !.dry = dry,
          !.ids = IF ids = NoIds \/ byQuery THEN <<>> ELSE ids,
          !.pc = IF byQuery = (ids # NoIds) THEN "refused"
                 ELSE IF byQuery THEN "list" ELSE proceed(ids, max, dry)]]
  /\ UNCHANGED <<box, touched>>

\* Mutated form: a next page is not looked at.
MutListed(ids, more, max, dry) == proceed(ids, max, dry)

listed(ids, more, max, dry) == IF more THEN "refused" ELSE proceed(ids, max, dry)

\* One page of max + 1 results, at most PageSize, and whether there are more.
ListAnswered(q) ==
  LET found == {m \in Matching : box[m] = "mail"}
      size  == Min({Cardinality(found), req[q].max + 1, PageSize})
  IN
  /\ req[q].pc = "list"
  /\ \E page \in kSubset(size, found) :
       req' = [req EXCEPT
         ![q].ids = SetToSeq(page),
         ![q].pc = listed(SetToSeq(page), page # found, req[q].max, req[q].dry)]
  /\ UNCHANGED <<box, touched>>

\* Every summary of the preview arrived; one that cannot fails it.
PreviewAnswered(q) ==
  /\ req[q].pc = "preview"
  /\ \A m \in ToSet(req[q].ids) : exists(m)
  /\ Goto(q, "previewed")
  /\ UNCHANGED <<box, touched>>

\* list or the preview throws.
ReadFails(q) ==
  /\ req[q].pc \in {"list", "preview"}
  /\ Goto(q, "failed")
  /\ UNCHANGED <<box, touched>>

BatchModified(q) ==
  /\ req[q].pc = "modify"
  /\ Move(q, ToSet(req[q].ids), "trash")
  /\ Goto(q, "trashed")

\* batchModify throws, carried out for all, some or none of the messages: they
\* are trashed singly.
BatchModifyFails(q) ==
  /\ req[q].pc = "modify"
  /\ \E S \in SUBSET ToSet(req[q].ids) : Move(q, S, "trash")
  /\ Goto(q, "single")

\* Mutated form: the loop stops one message early.
MutTrashedOne(q) ==
  LET r == req[q] IN
  /\ r.pc = "single"
  /\ exists(r.ids[r.at])
  /\ Move(q, {r.ids[r.at]}, "trash")
  /\ req' = [req EXCEPT ![q] =
       IF r.at + 1 >= Len(r.ids) THEN [r EXCEPT !.pc = "trashed"]
                                 ELSE [r EXCEPT !.at = @ + 1]]

\* Mutated form: the loop runs past the last message.
MutTrashedPastEnd(q) ==
  LET r == req[q] IN
  /\ r.pc = "single"
  /\ exists(r.ids[r.at])
  /\ Move(q, {r.ids[r.at]}, "trash")
  /\ req' = [req EXCEPT ![q].at = @ + 1]

\* One turn of the loop over the ids.
TrashedOne(q) ==
  LET r == req[q] IN
  /\ r.pc = "single"
  /\ exists(r.ids[r.at])
  /\ Move(q, {r.ids[r.at]}, "trash")
  /\ req' = [req EXCEPT ![q] =
       IF r.at = Len(r.ids) THEN [r EXCEPT !.pc = "trashed"]
                            ELSE [r EXCEPT !.at = @ + 1]]

\* trash throws, carried out or not: the request ends there.
TrashOneFails(q) ==
  /\ req[q].pc = "single"
  /\ \/ Move(q, {req[q].ids[req[q].at]}, "trash")
     \/ UNCHANGED <<box, touched>>
  /\ Goto(q, "failed")

-----------------------------------------------------------------------------
(* trash_email, untrash_email, delete_email and batch_delete. *)

\* trash_email is a turn of that loop.
TrashEmailCalled(q, m) ==
  /\ req[q].pc = "idle"
  /\ req' = [req EXCEPT ![q] = [Idle EXCEPT !.pc = "single", !.ids = <<m>>, !.max = 1]]
  /\ UNCHANGED <<box, touched>>

UntrashEmail(q, m) ==
  /\ req[q].pc = "idle"
  /\ box[m] = "trash"
  /\ box' = [box EXCEPT ![m] = "mail"]
  /\ Goto(q, "restored")
  /\ UNCHANGED touched

\* Mutated form: the refusal is reported, but not thrown.
MutDeleteCalled(q, ids, confirm, next) ==
  /\ req[q].pc = "idle"
  /\ req' = [req EXCEPT ![q] = [Idle EXCEPT !.ids = ids, !.confirm = confirm, !.pc = next]]
  /\ UNCHANGED <<box, touched>>

\* The gate of both tools, before the one call that either makes.
DeleteCalled(q, ids, confirm, next) ==
  /\ req[q].pc = "idle"
  /\ req' = [req EXCEPT ![q] =
       [Idle EXCEPT !.ids = ids, !.confirm = confirm,
                    !.pc = IF confirm THEN next ELSE "refused"]]
  /\ UNCHANGED <<box, touched>>

\* batchDelete ignores ids it does not know, delete rejects them.
Deleted(q) ==
  /\ \/ req[q].pc = "deleteMany"
     \/ req[q].pc = "deleteOne" /\ exists(req[q].ids[1])
  /\ FullAccess
  /\ Move(q, ToSet(req[q].ids), "deleted")
  /\ Goto(q, "deleted")

\* Without the scope Gmail answers 403; other failures may come after the deed.
DeleteFails(q) ==
  /\ req[q].pc \in {"deleteOne", "deleteMany"}
  /\ \/ FullAccess /\ \E S \in SUBSET ToSet(req[q].ids) : Move(q, S, "deleted")
     \/ UNCHANGED <<box, touched>>
  /\ Goto(q, "failed")

MailArrives(m) ==
  /\ box[m] = "absent"
  /\ box' = [box EXCEPT ![m] = "mail"]
  /\ UNCHANGED <<req, touched>>

Next ==
  \/ \E q \in Requests :
       \/ \E byQuery, dry \in BOOLEAN, max \in 1 .. PageSize, ids \in IdLists \cup {NoIds} :
            BatchTrashCalled(q, byQuery, ids, max, dry)
       \/ ListAnswered(q) \/ PreviewAnswered(q) \/ ReadFails(q)
       \/ BatchModified(q) \/ BatchModifyFails(q)
       \/ TrashedOne(q) \/ TrashOneFails(q)
       \/ \E m \in Messages : TrashEmailCalled(q, m) \/ UntrashEmail(q, m)
       \/ \E m \in Messages, confirm \in BOOLEAN :
            DeleteCalled(q, <<m>>, confirm, "deleteOne")
       \/ \E ids \in IdLists \ {<<>>}, confirm \in BOOLEAN :
            DeleteCalled(q, ids, confirm, "deleteMany")
       \/ Deleted(q) \/ DeleteFails(q)
  \/ \E m \in Messages : MailArrives(m)

Spec == Init /\ [][Next]_vars

-----------------------------------------------------------------------------
\* "Refuses to act on more than max messages", "nothing was trashed": what a
\* request has removed so far, through batchModify, its fallback, or both, is
\* within the ids it resolved and never more than its cap, which is nothing at
\* all for a refusal and a dry run.
WithinCap ==
  \A q \in Requests :
    /\ touched[q] \subseteq ToSet(req[q].ids)
    /\ req[q].max > 0 => Cardinality(touched[q]) <= req[q].max
    /\ req[q].pc = "refused" \/ req[q].dry => touched[q] = {}

\* "Refused: the query matches more than max messages": a query is acted on, or
\* previewed, only as a whole.  The ids it resolves are all that matched then,
\* however the page size cuts the listing.
QueryResolvedWhole ==
  [][\A q \in Requests :
       req[q].pc = "list" /\ req'[q].pc \in {"modify", "preview", "previewed", "trashed"} =>
         ToSet(req'[q].ids) = {m \in Matching : box[m] = "mail"}]_vars

\* A request that reports its ids as trashed has put each of them there, also
\* when batchModify failed half way, unless Gmail does not know the id any more.
ReportIsTrue ==
  [][\A q \in Requests :
       req'[q].pc = "trashed" /\ req[q].pc # "trashed" =>
         \A m \in ToSet(req'[q].ids) : m \in touched'[q] \/ ~exists(m)]_vars

\* "Permanent deletion sits behind an explicit confirm:true gate": whatever the
\* tools in progress, mail is lost for good only at the request of a caller who
\* confirmed and named it.
DeletionIsConfirmed ==
  [][\A m \in Messages :
       box'[m] = "deleted" /\ box[m] # "deleted" =>
         \E q \in Requests :
           req[q].confirm /\ m \in ToSet(req[q].ids) /\ req'[q].pc # req[q].pc]_vars

=============================================================================
