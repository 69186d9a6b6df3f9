------------------------------ MODULE Compose ------------------------------
(***************************************************************************)
(* The tools that send mail and keep drafts: src/mcp/tools/compose.ts over *)
(* src/gmail/compose.ts, the compose methods of src/gmail/service.ts and   *)
(* the lines of addresses of MailHeaders.  Concurrent calls of one account *)
(* work on one conversation; a step is the code from one await to the      *)
(* next.  The account's client is Connections' subject.                    *)
(*                                                                         *)
(* A subject is empty or how often it begins with Re:, a Message-ID is a   *)
(* number.  Bcc goes where Cc goes and is left out, as are the bodies.     *)
(* Gmail, as the code uses it: it gives every message an id, and a thread  *)
(* unless the thread is named, and a call that fails may have been carried *)
(* out.                                                                    *)
(***************************************************************************)
EXTENDS MailHeaders, FiniteSets

CONSTANTS
  Self,        \* selfAddress, the account's own
  Originals,   \* the headers that the message that has arrived may have
  Given,       \* lists of recipients that callers give
  Subjects,    \* subjects that callers give
  Requests,    \* tool calls, each used once
  MaxMail,     \* bound on the messages there are
  Nobody       \* no tool call

ids == 0 .. MaxMail + 1  \* Message-IDs: 0 is none, the last one not of this mailbox

isSubject(subject) == subject \in Seq(Nat) /\ Len(subject) <= 1

\* Callers give any strings.  The message that has arrived has mailboxes on its
\* lines, at least one of them on From, and any of its headers may be folded; its
\* References name messages before it, each once.
ASSUME ComposeConfig ==
  /\ Self \in Addresses /\ MaxMail \in Nat \ {0} /\ Nobody \notin Requests
  /\ \A line \in Given : line \in Seq(Seq(Words))
  /\ \A s \in Subjects :
       isSubject(s.subject) /\ s.broken \subseteq {"Subject"}
  /\ \A o \in Originals :
       /\ o.from # <<>>
       /\ \A line \in {o.from, o.replyTo, o.to, o.cc} :
            line \in Seq(Seq(Words)) /\ \A a \in ToSet(line) : isMailbox(a)
       /\ isSubject(o.subject) /\ o.id \in {0, 1}
       /\ o.references \in Seq({MaxMail + 1}) /\ Len(o.references) <= 1
       /\ o.broken \subseteq {"Subject", "Message-ID", "References"}

VARIABLES
  mail, \* the messages of the conversation, drafts included
  req   \* the tool calls

vars == <<mail, req>>

\* A message as the calls see and make it; broken are its headers with a line
\* break, address lines aside.  The rest is history: what it replies to, whether
\* to all, which of its headers were given explicitly, the tool that made it and
\* the call that sent it.
NewMessage ==
  [place |-> "draft", from |-> <<<<Self>>>>, replyTo |-> <<>>, to |-> <<>>, cc |-> <<>>,
   subject |-> <<>>, id |-> 0, thread |-> 0, inReplyTo |-> 0, references |-> <<>>,
   broken |-> {},
   parent |-> 0, all |-> FALSE, own |-> {}, madeBy |-> "none", sentBy |-> Nobody]

Idle == [pc |-> "idle", tool |-> "none", at |-> 0, all |-> FALSE, out |-> NewMessage]

TypeOK ==
  /\ Len(mail) <= MaxMail
  /\ \A k \in DOMAIN mail :
       /\ mail[k].place \in {"received", "draft", "sent", "gone"}
       /\ isSubject(mail[k].subject)
       /\ mail[k].id \in ids /\ mail[k].inReplyTo \in ids /\ mail[k].thread \in 1 .. k
       /\ \A j \in DOMAIN mail[k].references : mail[k].references[j] \in ids \ {0}
       /\ mail[k].parent \in 0 .. k - 1
       /\ mail[k].sentBy \in Requests \cup {Nobody}
  /\ \A q \in Requests :
       /\ req[q].pc \in {"idle", "get", "send", "create", "sendDraft", "done", "threw"}
       /\ req[q].tool \in {"none", "send", "reply", "draft", "sendDraft"}
       /\ req[q].at \in 0 .. Len(mail)

\* One message has arrived.
Init ==
  /\ \E o \in Originals :
       mail = <<[NewMessage EXCEPT
         !.place = "received", !.from = o.from, !.replyTo = o.replyTo, !.to = o.to,
         !.cc = o.cc, !.subject = o.subject, !.id = o.id, !.thread = 1,
         !.references = o.references, !.broken = o.broken]>>
  /\ req = [q \in Requests |-> Idle]

-----------------------------------------------------------------------------
(* Replies. *)

\* Mutated form: the chain begins anew with the message replied to.
MutReferencesAfter(p) == IF p.id = 0 THEN p.references ELSE <<p.id>>

\* Mutated form: a Message-ID that is missing is not filtered out.
MutReferencesUnfiltered(p) == Append(p.references, p.id)

\* The References header of a reply to p.
referencesAfter(p) == IF p.id = 0 THEN p.references ELSE Append(p.references, p.id)

re(subject) == IF subject = <<>> THEN 0 ELSE subject[1]

subjectAfter(p) == IF re(p.subject) > 0 THEN p.subject ELSE <<1>>

\* The headers of a reply to p that have a line break when these of p do.
brokenAfter(p) ==
  {h \in {"Subject", "In-Reply-To", "References"} :
     \/ h \in p.broken
     \/ h \in {"In-Reply-To", "References"} /\ "Message-ID" \in p.broken}

\* What a reply to the message p is derived to be.
buildReplyContext(p, replyAll) ==
  LET to      == splitAddressList(addressHeader(
                   IF p.replyTo # <<>> THEN p.replyTo ELSE p.from))
      primary == {bareAddress(a) : a \in ToSet(to)}
      others  == splitAddressList(addressHeader(p.to)) \o splitAddressList(addressHeader(p.cc))
  IN [NewMessage EXCEPT
        !.to = to,
        !.cc = IF replyAll
               THEN only(others, {a \in ToSet(others) : bareAddress(a) \notin primary \cup {<<Self>>}})
               ELSE <<>>,
        !.subject = subjectAfter(p),
        !.thread = p.thread,
        !.inReplyTo = p.id,
        !.references = referencesAfter(p),
        !.broken = brokenAfter(p)]

-----------------------------------------------------------------------------
(* The tools, up to their first await. *)

over(r, pc) == [Idle EXCEPT !.tool = r.tool, !.pc = pc]

\* The request to Gmail with the message, unless its headers make it throw.
Outgoing(r, m, pc) ==
  IF buildMimeMessage(m) THEN [r EXCEPT !.out = m, !.pc = pc] ELSE over(r, "threw")

\* What a caller gives of a message.
Written(to, cc, s) ==
  [NewMessage EXCEPT !.to = to, !.cc = cc, !.subject = s.subject, !.broken = s.broken]

sendEmail(q, to, cc, s) ==
  /\ req[q].pc = "idle"
  /\ to # <<>>
  /\ req' = [req EXCEPT ![q] =
       Outgoing([Idle EXCEPT !.tool = "send"],
                [Written(to, cc, s) EXCEPT !.own = {"to", "cc", "subject"}], "send")]
  /\ UNCHANGED mail

replyEmail(q, k, replyAll) ==
  /\ req[q].pc = "idle"
  /\ req' = [req EXCEPT ![q] =
       [Idle EXCEPT !.tool = "reply", !.pc = "get", !.at = k, !.all = replyAll]]
  /\ UNCHANGED mail

\* create_draft of a new message, which needs a recipient.
createDraft(q, to, cc, s) ==
  /\ req[q].pc = "idle"
  /\ LET r == [Idle EXCEPT !.tool = "draft"]
         m == [Written(to, cc, s) EXCEPT !.own = {"to", "cc", "subject"}]
     IN req' = [req EXCEPT ![q] = IF to = <<>> THEN over(r, "threw")
                                              ELSE Outgoing(r, m, "create")]
  /\ UNCHANGED mail

\* create_draft of a reply: what is given explicitly is kept in `out`.
createReplyDraft(q, k, replyAll, to, cc, s) ==
  /\ req[q].pc = "idle"
  /\ req' = [req EXCEPT ![q] =
       [Idle EXCEPT !.tool = "draft", !.pc = "get", !.at = k, !.all = replyAll,
                    !.out = Written(to, cc, s)]]
  /\ UNCHANGED mail

sendDraft(q, k) ==
  /\ req[q].pc = "idle"
  /\ req' = [req EXCEPT ![q] = [Idle EXCEPT !.tool = "sendDraft", !.pc = "sendDraft", !.at = k]]
  /\ UNCHANGED mail

-----------------------------------------------------------------------------
(* The answers of Gmail. *)

\* Explicit recipients and an explicit subject override the derived ones.
override(ctx, m) ==
  [ctx EXCEPT !.to = IF m.to # <<>> THEN m.to ELSE @,
              !.cc = IF m.cc # <<>> THEN m.cc ELSE @,
              !.subject = IF m.subject # <<>> THEN m.subject ELSE @,
              !.broken = IF m.subject # <<>> THEN (@ \ {"Subject"}) \cup m.broken ELSE @,
              !.own = {f \in {"to", "cc", "subject"} : m[f] # <<>>}]

OriginalReceived(q) ==
  LET r   == req[q]
      p   == mail[r.at]
      ctx == [buildReplyContext(p, r.all) EXCEPT !.parent = r.at, !.all = r.all]
  IN
  /\ r.pc = "get"
  /\ p.place # "gone"
  /\ req' = [req EXCEPT ![q] = Outgoing(r, override(ctx, r.out),
                                        IF r.tool = "draft" THEN "create" ELSE "send")]
  /\ UNCHANGED mail

\* Gmail takes the message the call has built.
Delivered(q, place) ==
  /\ Len(mail) < MaxMail
  /\ mail' = Append(mail, [req[q].out EXCEPT
       !.place = place, !.id = Len(mail) + 1, !.thread = IF @ = 0 THEN Len(mail) + 1 ELSE @,
       !.to = notBlank(@), !.cc = notBlank(@), !.madeBy = req[q].tool,
       !.sentBy = IF place = "sent" THEN q ELSE Nobody])

DraftLeaves(q) ==
  /\ mail[req[q].at].place = "draft"
  /\ mail' = [mail EXCEPT ![req[q].at].place = "sent", ![req[q].at].sentBy = q]

\* What the call asks Gmail for takes effect.
Effect(q) ==
  \/ req[q].pc = "send" /\ Delivered(q, "sent")
  \/ req[q].pc = "create" /\ Delivered(q, "draft")
  \/ req[q].pc = "sendDraft" /\ DraftLeaves(q)

Succeeds(q) ==
  /\ Effect(q)
  /\ req' = [req EXCEPT ![q] = over(@, "done")]

\* Mutated form: a failed request is made again.
MutFails(q) ==
  /\ req[q].pc \in {"get", "send", "create", "sendDraft"}
  /\ Effect(q) \/ UNCHANGED mail
  /\ req' = [req EXCEPT ![q] = IF @.pc = "send" THEN @ ELSE over(@, "threw")]

Fails(q) ==
  /\ req[q].pc \in {"get", "send", "create", "sendDraft"}
  /\ Effect(q) \/ UNCHANGED mail
  /\ req' = [req EXCEPT ![q] = over(@, "threw")]

\* The user deletes the original or throws a draft away.
UserDeletes(k) ==
  /\ mail[k].place \in {"received", "draft"}
  /\ mail' = [mail EXCEPT ![k].place = "gone"]
  /\ UNCHANGED req

Next ==
  \/ \E q \in Requests :
       \/ \E to, cc \in Given, s \in Subjects : sendEmail(q, to, cc, s) \/ createDraft(q, to, cc, s)
       \/ \E k \in DOMAIN mail, replyAll \in BOOLEAN :
            \/ replyEmail(q, k, replyAll)
            \/ \E to, cc \in Given, s \in Subjects : createReplyDraft(q, k, replyAll, to, cc, s)
       \/ \E k \in DOMAIN mail : sendDraft(q, k)
       \/ OriginalReceived(q) \/ Succeeds(q) \/ Fails(q)
  \/ \E k \in DOMAIN mail : UserDeletes(k)

Spec == Init /\ [][Next]_vars

-----------------------------------------------------------------------------
replies == {k \in DOMAIN mail : mail[k].parent # 0}
addressesOn(line) == {Last(a) : a \in ToSet(line)}

sender(p) == IF p.replyTo # <<>> THEN p.replyTo ELSE p.from
readers(p) == ToSet(p.to) \cup ToSet(p.cc)
plainLines(p) ==
  \A line \in {p.from, p.replyTo, p.to, p.cc} : \A a \in ToSet(line) : isPlain(a)

\* "Recipients are derived from the original; honors Reply-To", "everyone on the
\* original To/Cc lines (minus yourself)": a reply goes to whoever the sender of
\* the original wants replies sent to, a reply to all goes to everyone on its
\* lines as well, nobody is on both lines, and the names come through as they
\* were written, commas and all, as long as the original's names are plain.  A
\* line the caller gave stands as given and lets nobody onto the other one; that
\* everyone is still reached is then not said.
RepliesReachEveryone ==
  \A k \in replies :
    LET x == mail[k]
        p == mail[x.parent]
    IN
    plainLines(p) =>
      /\ "to" \notin x.own => ToSet(x.to) = ToSet(sender(p))
      /\ "cc" \notin x.own => ToSet(x.cc) \subseteq IF x.all THEN readers(p) ELSE {}
      /\ x.all /\ {"to", "cc"} \cap x.own = {} =>
           addressesOn(x.cc) =
             {Last(a) : a \in readers(p)} \ (addressesOn(sender(p)) \cup {Self})

\* "Prefixes Re: once, and extends the References chain so mail clients thread
\* the reply correctly": however long the conversation gets, and whoever is
\* answered, a reply is in the thread of its original, its References are those
\* of the original and then the original, none twice, In-Reply-To is the last of
\* them, and unless the caller gave a subject Re: is not put before Re:.
ConversationThreads ==
  \A k \in replies :
    LET x == mail[k]
        p == mail[x.parent]
    IN
    /\ x.thread = p.thread
    /\ x.references = p.references \o (IF p.id = 0 THEN <<>> ELSE <<p.id>>)
    /\ \A i, j \in DOMAIN x.references : x.references[i] = x.references[j] => i = j
    /\ x.inReplyTo = p.id /\ (p.id # 0 => x.inReplyTo = Last(x.references))
    /\ "subject" \notin x.own =>
         re(x.subject) = IF re(p.subject) > 0 THEN re(p.subject) ELSE 1

\* "Create a draft without sending it", "there is no undo": what is sent was sent
\* by a call, a draft by one of send_draft and any other message by the one that
\* made it, and a call sends at most one message, also when its answer is lost.
SentByRequest ==
  \A k \in DOMAIN mail : mail[k].place = "sent" =>
    LET by == mail[k].sentBy IN
    /\ by \in Requests
    /\ req[by].tool = IF mail[k].madeBy = "draft" THEN "sendDraft" ELSE mail[k].madeBy
    /\ \A j \in DOMAIN mail : mail[j].sentBy = by => j = k

\* "Header values must not contain line breaks": no header that Gmail was sent
\* has one, whether it was given or derived; the first message was not sent here.
HeadersAreSafe ==
  \A k \in DOMAIN mail \ {1} :
    /\ mail[k].broken = {}
    /\ \A a \in ToSet(mail[k].to) \cup ToSet(mail[k].cc) : LineBreak \notin ToSet(a)

=============================================================================
