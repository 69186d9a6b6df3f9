---------------------------- MODULE Unsubscribe ----------------------------
(***************************************************************************)
(* The unsubscribe tool: unsubscribeEmail of src/gmail/service.ts and      *)
(* attemptUnsubscribe of src/gmail/unsubscribe.ts for one message, against *)
(* hosts that answer, refuse, fail or never say a word.  A message is what *)
(* its headers offer, how many links and addresses to write to, whether    *)
(* one click is announced, and its MIME parts, from which MessageBody      *)
(* takes the body.                                                         *)
(***************************************************************************)
EXTENDS MessageBody, SequencesExt

VARIABLES
  payload, \* the MIME tree of the message
  email,   \* the EmailDetail: what the message offers
  attempt, \* the request that is out: <<stage, which>>, or one of Outside
  tried,   \* the requests made, in order
  result   \* UnsubscribeResult, by its method; "none" is the failure

vars == <<payload, email, attempt, tried, result>>

Offer == [headerLinks : 0 .. MaxLinks, oneClick : BOOLEAN,
          mailto : 0 .. MaxLinks, body : Texts]

Stages == {"post", "mail", "get", "body"}
Attempts == Stages \X (1 .. MaxLinks) \cup {<<"mail", 1>>}
Outside == {<<"fetching">>, <<"answered">>}

TypeOK ==
  /\ payload \in Payloads
  /\ email \in Offer
  /\ attempt \in Attempts \cup Outside
  /\ \A i \in DOMAIN tried : tried[i] \in Attempts
  /\ result \in {"pending", "header-http", "header-mailto", "body-link", "none", "error"}

\* The body is taken from the MIME tree when the message has been read.
Init ==
  /\ payload \in Payloads
  /\ email \in {offer \in Offer : offer.body = extractBody[payload]}
  /\ attempt = <<"fetching">>
  /\ tried = <<>>
  /\ result = "pending"

-----------------------------------------------------------------------------
bodyLinks == IF email.body = <<>> THEN 0 ELSE email.body[1]

\* How many requests a stage has to make.  Of several addresses only the first
\* is written to: the pattern for mailto is matched once.
work(stage) ==
  CASE stage = "post" -> IF email.oneClick THEN email.headerLinks ELSE 0
    [] stage = "mail" -> IF email.mailto > 0 THEN 1 ELSE 0
    [] stage = "get"  -> email.headerLinks
    [] stage = "body" -> bodyLinks

Method == [post |-> "header-http", mail |-> "header-mailto",
           get |-> "header-http", body |-> "body-link"]

\* Mutated form: the mail is written when the links have failed.
MutBefore == [post |-> {}, get |-> {"post"}, mail |-> {"post", "get"},
              body |-> {"post", "mail", "get"}]

\* Each stage comes after the ones named with it.
Before == [post |-> {}, mail |-> {"post"}, get |-> {"post", "mail"},
           body |-> {"post", "mail", "get"}]

\* The first stage after those done that has something to do.
opens(done, s) ==
  /\ s \notin done /\ work(s) > 0
  /\ \A t \in Before[s] : t \in done \/ work(t) = 0

\* What is done when the stages done have had no success.
GoOn(done) ==
  \/ \E s \in Stages :
       /\ opens(done, s)
       /\ attempt' = <<s, 1>>
       /\ tried' = Append(tried, <<s, 1>>)
       /\ result' = result
  \/ /\ \A s \in Stages : ~opens(done, s)
     /\ attempt' = <<"answered">>
     /\ result' = "none"
     /\ tried' = tried

MessageGot ==
  /\ attempt = <<"fetching">>
  /\ GoOn({})
  /\ UNCHANGED <<payload, email>>

\* The client cannot be had or messages.get throws: the tool answers with the
\* error.
MessageFails ==
  /\ attempt = <<"fetching">>
  /\ attempt' = <<"answered">>
  /\ result' = "error"
  /\ UNCHANGED <<payload, email, tried>>

inFlight == attempt \in Attempts
stageOut == attempt[1]

\* resp.ok, or the mail is sent.
Succeeds ==
  /\ inFlight
  /\ attempt' = <<"answered">>
  /\ result' = Method[stageOut]
  /\ UNCHANGED <<payload, email, tried>>

\* Mutated form: one try around the loop, a failure skips the other links.
MutNextAttempt == GoOn(Before[stageOut] \cup {stageOut})

\* Mutated form: the loop runs one past the last link.
MutPastLast ==
  IF attempt[2] <= work(stageOut)
  THEN /\ attempt' = <<stageOut, attempt[2] + 1>>
       /\ tried' = Append(tried, attempt')
       /\ result' = result
  ELSE GoOn(Before[stageOut] \cup {stageOut})

\* The next link of the loop, or the next stage.
NextAttempt ==
  IF attempt[2] < work(stageOut)
  THEN /\ attempt' = <<stageOut, attempt[2] + 1>>
       /\ tried' = Append(tried, attempt')
       /\ result' = result
  ELSE GoOn(Before[stageOut] \cup {stageOut})

\* The host or the mailer refuses or cannot be reached.
Fails ==
  /\ inFlight
  /\ NextAttempt
  /\ UNCHANGED <<payload, email>>

\* Mutated form: the POST carries no signal.
MutTimesOut ==
  /\ inFlight
  /\ stageOut \notin {"mail", "post"}
  /\ NextAttempt
  /\ UNCHANGED <<payload, email>>

\* AbortSignal.timeout, on every fetch; the mail has none.
TimesOut ==
  /\ inFlight
  /\ stageOut # "mail"
  /\ NextAttempt
  /\ UNCHANGED <<payload, email>>

Next == MessageGot \/ MessageFails \/ Succeeds \/ Fails \/ TimesOut

\* Timers fire, and Gmail answers: the client sets no timeout on its calls.
\* Nothing is asked of the hosts behind the links.
Fairness ==
  /\ WF_vars(TimesOut)
  /\ WF_vars(MessageGot \/ MessageFails)
  /\ WF_vars(stageOut = "mail" /\ (Succeeds \/ Fails))

Spec == Init /\ [][Next]_vars /\ Fairness

-----------------------------------------------------------------------------
linksOf(stage, n) == [i \in 1 .. n |-> <<stage, i>>]

\* The order of reliability that the comment at the head of the file gives:
\* POST where one click is announced, the mail, then the links.
Reliability ==
     (IF email.oneClick THEN linksOf("post", email.headerLinks) ELSE <<>>)
  \o (IF email.mailto > 0 THEN linksOf("mail", 1) ELSE <<>>)
  \o linksOf("get", email.headerLinks) \o linksOf("body", bodyLinks)

\* Nothing is skipped, repeated or tried out of the order of reliability, and
\* no link is POSTed to that does not announce one click: whatever fails or
\* times out, the requests made are a first part of the order.
MostReliableFirst == IsPrefix(tried, Reliability)

\* "Could not auto-unsubscribe" is the last word only when everything the
\* message offers was tried; otherwise the last request made is the one that
\* succeeded, and its stage is the one reported.
FailureIsExhaustive ==
  /\ result = "none" => tried = Reliability
  /\ result \in {"header-http", "header-mailto", "body-link"} =>
       tried # <<>> /\ result = Method[Last(tried)[1]]

\* The links are looked for in a text of the message if it has one, and not in
\* the HTML of a multipart that has the text beside it.
BodyIsFound == IsBodyOf(email.body, payload)

\* The tool answers whatever the hosts behind the links do, one that accepts
\* the connection and never answers included.
Answered == <>(result # "pending")

=============================================================================
