---------------------------- MODULE SearchTools ----------------------------
(***************************************************************************)
(* The tools that read many messages: list_emails and batch_process, over  *)
(* one account or all of them (src/mcp/tools/search.ts, shared.ts and      *)
(* resolveAccounts of src/mcp/accounts.ts), and list_drafts.  Each account *)
(* is asked for a page of ids, whose summaries are then fetched a chunk at *)
(* a time (src/gmail/service.ts and src/gmail/compose.ts).                 *)
(*                                                                         *)
(* One call, while admins change the token store under it, its process may *)
(* die, and messages go away.  A step is the code from one await to the    *)
(* next.  Gmail, as the code uses it: list returns as many matches as were *)
(* asked for, get rejects the id of a message that is gone, and any call   *)
(* may fail.  The cache of OAuth2 clients is left to Connections, where a  *)
(* client is only used for the token that the store has for its account.   *)
(***************************************************************************)
EXTENDS TokenStore, Sequences, FiniteSets

CONSTANTS
  Messages,    \* the messages, or drafts, that match the query
  MailboxOf,   \* the mailbox that each of them is in
  Concurrency, \* SUMMARY_CONCURRENCY, DRAFT_CONCURRENCY
  MaxResults,  \* max_results
  Snapshots    \* what TOKENS_DATA may be set to at a start

ASSUME SearchConfig ==
  /\ IsFiniteSet(Messages) /\ IsFiniteSet(Emails)
  /\ MailboxOf \in [Messages -> Emails]
  /\ Concurrency \in Nat \ {0} /\ MaxResults \in Nat \ {0}

\* A snapshot was taken from the setup page: each token is its mailbox's own.
ASSUME SnapshotsTaken ==
  \A env \in Snapshots :
    \/ env = Absent
    \/ env \in Book /\ \A e \in Emails : env[e] = NoAccount \/ env[e].token.owner = e

VARIABLES
  present, \* the messages that are still there
  search,  \* the call
  strays,  \* fetches of a chunk given up, not answered yet
  asked,   \* history: the accounts the call resolved to
  seen,    \* history: what was in each mailbox when it was listed
  late     \* history: accounts removed before their turn, and not added since

searchVars == <<present, search, strays, asked, seen, late>>
vars == <<storeVars, searchVars>>

Result == [account : Emails, emails : Seq(Messages), error : BOOLEAN]

Idle == [pc |-> "idle", tool |-> "none", todo |-> <<>>, token |-> NoToken,
         ids |-> <<>>, i |-> 0, out |-> {}, emails |-> <<>>, results |-> <<>>]

Awaiting == {"rejected", "getAccessToken", "list", "summaries"}

TypeOK ==
  /\ StoreTypeOK
  /\ present \in SUBSET Messages
  /\ search \in [pc : Awaiting \cup {"idle", "done", "threw"},
                 tool : {"none", "search", "drafts"},
                 todo : Seq(Emails), token : Token \cup {NoToken},
                 ids : Seq(Messages), i : Nat, out : SUBSET Messages,
                 emails : Seq(Messages), results : Seq(Result)]
  /\ strays \in SUBSET Messages
  /\ asked \in Seq(Emails)
  /\ seen \in [Emails -> SUBSET Messages]
  /\ late \in SUBSET Emails

Init ==
  /\ StoreInit
  /\ present \in SUBSET Messages
  /\ search = Idle
  /\ strays = {}
  /\ asked = <<>>
  /\ seen = [e \in Emails |-> {}]
  /\ late = {}

elements(s) == {s[k] : k \in DOMAIN s}
injective(s) == \A j, k \in DOMAIN s : s[j] = s[k] => j = k
orders(S) == {s \in [1 .. Cardinality(S) -> S] : injective(s)}

-----------------------------------------------------------------------------
(* collectAcrossAccounts: one turn for each account. *)

\* Mutated form: the token is the one the account had when it was resolved.
MutBegin(s) ==
  IF s.todo = <<>> THEN [s EXCEPT !.pc = "done"]
  ELSE [s EXCEPT !.token = [owner |-> Head(s.todo), id |-> 1], !.pc = "getAccessToken"]

\* Mutated form: the stored blob is taken for the token.
MutBeginEncrypted(s) ==
  IF s.todo = <<>> THEN [s EXCEPT !.pc = "done"]
  ELSE [s EXCEPT !.token = accounts[Head(s.todo)], !.pc = "getAccessToken"]

\* The head of the loop and getGmailService up to its await.  An account that
\* has no token any more makes it throw, which is seen one await later.
begin(s) ==
  IF s.todo = <<>> THEN [s EXCEPT !.pc = "done"]
  ELSE LET refreshToken == getRefreshToken(Head(s.todo)) IN
       [s EXCEPT !.token = refreshToken,
                 !.pc = IF refreshToken = NoToken THEN "rejected" ELSE "getAccessToken"]

\* results.push, and the next turn without an await between.
pushes(s, emails, error) ==
  begin([s EXCEPT
    !.results = Append(@, [account |-> Head(s.todo), emails |-> emails, error |-> error]),
    !.todo = Tail(@), !.ids = <<>>, !.i = 0, !.out = {}, !.emails = <<>>])

\* Mutated form: an account that fails ends the loop.
MutThrows(s) == [s EXCEPT !.pc = "done", !.out = {}]

\* Mutated form: what was fetched before the failure is reported as the result.
MutThrowsPartial(s) == pushes(s, s.emails, FALSE)

\* The catch of the loop.  list_drafts has none: its call fails.
throws(s) ==
  IF s.tool = "drafts" THEN [s EXCEPT !.pc = "threw", !.out = {}]
                       ELSE pushes(s, <<>>, TRUE)

-----------------------------------------------------------------------------
(* The tools, up to their first await. *)

Call(tool, emails) ==
  /\ up
  /\ search.pc = "idle"
  /\ search' = begin([Idle EXCEPT !.tool = tool, !.todo = emails])
  /\ asked' = emails
  /\ UNCHANGED <<storeVars, present, strays, seen, late>>

connected == {e \in Emails : hasAccount(e)}

\* resolveAccounts throws: no accounts at all, or not this one.
CallRefused ==
  /\ up
  /\ search.pc = "idle"
  /\ connected # Emails
  /\ search' = [Idle EXCEPT !.tool = "search", !.pc = "threw"]
  /\ UNCHANGED <<storeVars, present, strays, asked, seen, late>>

ListEmails(e) == hasAccount(e) /\ Call("search", <<e>>)

\* account = "all", in the order of the map.
ListAllEmails ==
  /\ connected # {}
  /\ \E emails \in orders(connected) : Call("search", emails)

ListDrafts(e) == Call("drafts", <<e>>)

-----------------------------------------------------------------------------
(* One account: listEmails, or listDrafts. *)

Proceed(s) ==
  /\ search' = s
  /\ UNCHANGED <<storeVars, present, asked, late>>

GetGmailServiceThrew ==
  /\ search.pc = "rejected"
  /\ Proceed(throws(search))
  /\ UNCHANGED <<strays, seen>>

AccessTokenReceived ==
  /\ search.pc = "getAccessToken"
  /\ Proceed([search EXCEPT !.pc = "list"])
  /\ UNCHANGED <<strays, seen>>

\* Mutated form: the account is asked again.
MutAccountFails ==
  /\ search.pc \in {"getAccessToken", "list"}
  /\ Proceed(begin(search))
  /\ UNCHANGED <<strays, seen>>

\* getAccessToken throws or gives no token, or list throws.
AccountFails ==
  /\ search.pc \in {"getAccessToken", "list"}
  /\ Proceed(throws(search))
  /\ UNCHANGED <<strays, seen>>

\* ids.slice(i, i + CONCURRENCY).
chunk(s) == {s.ids[k] : k \in {j \in DOMAIN s.ids : s.i < j /\ j <= s.i + Concurrency}}

\* Mutated form: everything that is left is fetched at once.
MutNextChunk(s) ==
  IF s.i >= Len(s.ids) THEN pushes(s, s.emails, FALSE)
  ELSE [s EXCEPT !.out = {s.ids[k] : k \in {j \in DOMAIN s.ids : s.i < j}}]

\* The head of the loop over the chunks: the fetches of the next one begin.
nextChunk(s) ==
  IF s.i >= Len(s.ids) THEN pushes(s, s.emails, FALSE)
  ELSE [s EXCEPT !.out = chunk(s)]

pageSize(S) == IF Cardinality(S) < MaxResults THEN Cardinality(S) ELSE MaxResults
pages(S) == {s \in [1 .. pageSize(S) -> S] : injective(s)}

inbox(e) == {m \in present : MailboxOf[m] = e}

Listed ==
  /\ search.pc = "list"
  /\ \E ids \in pages(inbox(search.token.owner)) :
       Proceed(nextChunk([search EXCEPT !.pc = "summaries", !.ids = ids]))
  /\ seen' = [seen EXCEPT ![search.token.owner] = inbox(search.token.owner)]
  /\ UNCHANGED strays

\* Promise.all gives the summaries of a chunk when the last one is there, in
\* the order of their ids.
SummaryReceived(m) ==
  LET s    == [search EXCEPT !.out = @ \ {m}]
      upto  == IF s.i + Concurrency < Len(s.ids) THEN s.i + Concurrency ELSE Len(s.ids)
  IN
  /\ search.pc = "summaries"
  /\ m \in search.out /\ m \in present
  /\ Proceed(IF s.out # {} THEN s
             ELSE nextChunk([s EXCEPT !.i = @ + Concurrency, !.emails = @ \o SubSeq(s.ids, s.i + 1, upto)]))
  /\ UNCHANGED <<strays, seen>>

\* The message is gone, or its get fails: Promise.all gives up, and the other
\* fetches of the chunk go on for nobody.
SummaryFails(m) ==
  /\ search.pc = "summaries"
  /\ m \in search.out
  /\ strays' = strays \cup (search.out \ {m})
  /\ Proceed(throws(search))
  /\ UNCHANGED seen

StrayEnds(m) ==
  /\ m \in strays
  /\ strays' = strays \ {m}
  /\ UNCHANGED <<storeVars, present, search, asked, seen, late>>

-----------------------------------------------------------------------------
(* The others. *)

MessageGone(m) ==
  /\ m \in present
  /\ present' = present \ {m}
  /\ UNCHANGED <<storeVars, search, strays, asked, seen, late>>

\* /oauth/callback stores a consent, /setup/remove takes the account off.
AccountAdded(e, id) ==
  /\ addAccount(e, [owner |-> e, id |-> id])
  /\ late' = late \ {e}
  /\ UNCHANGED <<present, search, strays, asked, seen>>

waiting(e) == search.todo # <<>> /\ e \in elements(Tail(search.todo))

AccountRemoved(e) ==
  /\ removeAccount(e)
  /\ late' = IF waiting(e) THEN late \cup {e} ELSE late
  /\ UNCHANGED <<present, search, strays, asked, seen>>

Crash ==
  /\ crash
  /\ search' = Idle
  /\ strays' = {}
  /\ asked' = <<>>
  /\ seen' = [e \in Emails |-> {}]
  /\ late' = {}
  /\ UNCHANGED present

Restart(k, env) == start(k, env) /\ UNCHANGED searchVars

CallProceeds ==
  \/ GetGmailServiceThrew \/ AccessTokenReceived \/ AccountFails \/ Listed
  \/ \E m \in Messages : SummaryReceived(m) \/ SummaryFails(m)

Next ==
  \/ \E e \in Emails : ListEmails(e) \/ ListDrafts(e)
  \/ ListAllEmails \/ CallRefused
  \/ CallProceeds
  \/ \E m \in Messages : StrayEnds(m) \/ MessageGone(m)
  \/ \E e \in Emails, id \in Grants : AccountAdded(e, id)
  \/ \E e \in Emails : AccountRemoved(e)
  \/ Crash
  \/ \E k \in Keys, env \in Snapshots : Restart(k, env)

\* Google and Gmail answer in the end, or the connection to them fails.
Spec == Init /\ [][Next]_vars /\ WF_vars(CallProceeds)

-----------------------------------------------------------------------------
\* "Per-account failures are reported in the result (not swallowed)": whichever
\* accounts fail or are removed, what is answered and what is still to be asked
\* are together the accounts the call resolved to, each once and in order, so
\* that a search that is done has one result for each.
EveryAccountAnswers ==
  /\ injective(asked)
  /\ search.tool = "search" /\ search.pc # "threw" =>
       asked = [k \in DOMAIN search.results |-> search.results[k].account] \o search.todo
  /\ search.pc = "done" => search.todo = <<>>

\* "So the model can tell an empty mailbox from a broken account": a result
\* without an error is all that Gmail listed for this account, each message once,
\* however the answers to the fetches are ordered; a result with one is empty.
AnswerIsWhole ==
  \A k \in DOMAIN search.results :
    LET r == search.results[k] IN
    IF r.error THEN r.emails = <<>> ELSE r.emails \in pages(seen[r.account])

\* An account that is removed while the loop awaits another one is not read any
\* more: its result is an error, unless it was added anew.
RemovedIsNotRead ==
  \A k \in DOMAIN search.results :
    search.results[k].account \in late => search.results[k].error

\* "Cap on concurrent per-message metadata fetches": no mailbox has more than
\* that many fetches of the call at once, the given up ones included.
FetchesAreCapped ==
  \A e \in Emails :
    Cardinality({m \in search.out \cup strays : MailboxOf[m] = e}) <= Concurrency

\* The call answers, or its process dies, whatever happens to the accounts.
CallEnds == search.pc \in Awaiting ~> search.pc \notin Awaiting

=============================================================================
