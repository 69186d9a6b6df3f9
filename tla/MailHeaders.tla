---------------------------- MODULE MailHeaders ----------------------------
(***************************************************************************)
(* The headers of a message: how src/gmail/mime.ts puts the address lines  *)
(* together and takes them apart, and what it lets out.  A line is a list  *)
(* of mailboxes or its text; both are written in words:                    *)
(* "Doe, \"J\"" <jane@x> is the words Quote, Comma, Escape, Escape, Quote, *)
(* jane.  An address is one word, angle brackets included; the plain words *)
(* of a name are left out.                                                 *)
(***************************************************************************)
EXTENDS Naturals, Sequences, SequencesExt

CONSTANTS
  Addresses,                       \* the addresses
  Comma, Quote, Escape, LineBreak  \* the words that are no address; Escape is a quote
                                   \* that is escaped

ASSUME WordsDiffer ==
  /\ \A w \in {Comma, Quote, Escape, LineBreak} : w \notin Addresses
  /\ Comma # Quote /\ Comma # Escape /\ Comma # LineBreak
  /\ Quote # Escape /\ Quote # LineBreak /\ Escape # LineBreak

Words == Addresses \cup {Comma, Quote, Escape, LineBreak}

\* The marks open and close, in turns, and the words in S are between two of them.
quoted(m, marks, S) ==
  \E inQuotes \in [0 .. Len(m) -> BOOLEAN] :
    /\ ~inQuotes[0] /\ ~inQuotes[Len(m)]
    /\ \A i \in 1 .. Len(m) :
         /\ inQuotes[i] = IF m[i] \in marks THEN ~inQuotes[i - 1] ELSE inQuotes[i - 1]
         /\ m[i] \in S => inQuotes[i]

\* A name, perhaps in quotes, and an address.  In its quotes a name may have
\* anything: commas, escaped quotes, line breaks and what looks like an address.
isMailbox(m) ==
  /\ m \in Seq(Words) /\ m # <<>>
  /\ Last(m) \in Addresses
  /\ quoted(Front(m), {Quote}, Words \ {Quote})

\* A mailbox that reads the same when escaped quotes are taken for quotes, and
\* the first address in it for its own: no name with angle brackets, none with a
\* comma after an odd number of escaped quotes.
isPlain(m) ==
  /\ m \in Seq(Words) /\ m # <<>>
  /\ m[1] # LineBreak
  /\ Last(m) \in Addresses
  /\ \A i \in 1 .. Len(m) - 1 : m[i] \notin Addresses
  /\ quoted(m, {Quote, Escape}, {Comma})

-----------------------------------------------------------------------------
\* The elements of a list that are in S, in their order, up to each place.
keeping(list, S) ==
  LET kept[n \in 0 .. Len(list)] ==
        IF n = 0 THEN <<>>
        ELSE IF list[n] \in S THEN Append(kept[n - 1], list[n]) ELSE kept[n - 1]
  IN kept

only(list, S) == keeping(list, S)[Len(list)]

\* filter(Boolean)
notBlank(list) == only(list, ToSet(list) \ {<<>>})

\* The mailboxes of a list up to each place, joined.
joining(list) ==
  LET text[n \in 0 .. Len(list)] ==
        IF n = 0 THEN <<>>
        ELSE IF n = 1 THEN list[1] ELSE text[n - 1] \o <<Comma>> \o list[n]
  IN text

\* The text of a line.  What is trimmed off has been refused before: a line break.
addressHeader(addresses) == joining(notBlank(addresses))[Len(notBlank(addresses))]

\* Mutated form: every comma splits.
MutSplits(ch, inQuotes) == ch = Comma

\* The commas outside of quotes split.
splits(ch, inQuotes) == ch = Comma /\ ~inQuotes

\* One turn of the loop of splitAddressList, which knows no escapes.
splitStep(s, ch) ==
  LET inQuotes == IF ch \in {Quote, Escape} THEN ~s.inQuotes ELSE s.inQuotes IN
  IF splits(ch, inQuotes)
  THEN [parts |-> Append(s.parts, s.current), current |-> <<>>, inQuotes |-> inQuotes]
  ELSE [parts |-> s.parts, current |-> Append(s.current, ch), inQuotes |-> inQuotes]

\* The loop, up to each word of the text.
splitting(text) ==
  LET at[n \in 0 .. Len(text)] ==
        IF n = 0 THEN [parts |-> <<>>, current |-> <<>>, inQuotes |-> FALSE]
        ELSE splitStep(at[n - 1], text[n])
  IN at

\* What is between the line breaks at either end.
trim(text) ==
  LET ink == {i \in DOMAIN text : text[i] # LineBreak}
  IN IF ink = {} THEN <<>>
     ELSE SubSeq(text, CHOOSE i \in ink : \A j \in ink : i <= j,
                       CHOOSE i \in ink : \A j \in ink : j <= i)

splitAddressList(text) ==
  LET end   == splitting(text)[Len(text)]
      parts == Append(end.parts, end.current)
  IN notBlank([i \in DOMAIN parts |-> trim(parts[i])])

\* The first address in angle brackets, or all of the text if there is none.
bareAddress(mailbox) ==
  LET angled == {i \in DOMAIN mailbox : mailbox[i] \in Addresses}
  IN IF angled = {} THEN mailbox
     ELSE <<mailbox[CHOOSE i \in angled : \A j \in angled : i <= j]>>

assertSafeHeaderValue(text) == LineBreak \notin ToSet(text)

\* Mutated form: the References are put in unchecked.
MutBuildMimeMessage(m) ==
  /\ \A a \in ToSet(m.to) \cup ToSet(m.cc) : assertSafeHeaderValue(a)
  /\ m.broken \cap {"Subject", "In-Reply-To"} = {}

\* buildMimeMessage throws unless every header is safe; of those that are no
\* address line a message has the names of the ones with a line break.
buildMimeMessage(m) ==
  /\ \A a \in ToSet(m.to) \cup ToSet(m.cc) : assertSafeHeaderValue(a)
  /\ m.broken \cap {"Subject", "In-Reply-To", "References"} = {}

=============================================================================
