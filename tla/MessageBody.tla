---------------------------- MODULE MessageBody ----------------------------
(***************************************************************************)
(* The body of a message: extractBody of src/gmail/body.ts, which takes    *)
(* one text out of a MIME tree.  A part has a type, data and parts; a text *)
(* is <<n>>, n being the unsubscribe links in it, and <<>> is the empty    *)
(* string.                                                                 *)
(***************************************************************************)
EXTENDS Naturals, Sequences

CONSTANTS
  MaxLinks,  \* bound on the links in a text, and on those in a header
  Payloads,  \* the MIME parts there may be, with all the parts inside them
  Nesting    \* how deep the parts inside each of them are nested

Texts == {<<>>} \cup {<<n>> : n \in 0 .. MaxLinks}

ASSUME MimeTrees ==
  /\ MaxLinks \in Nat
  /\ \A part \in Payloads : part.data \in Texts /\ part.parts \in Seq(Payloads)
  /\ Nesting \in [Payloads -> Nat]
  /\ \A part \in Payloads : \A i \in DOMAIN part.parts : Nesting[part.parts[i]] < Nesting[part]

textsOf(parts, type) ==
  [i \in DOMAIN parts |-> IF parts[i].mimeType = type THEN parts[i].data ELSE <<>>]

firstText(texts) ==
  LET found == {i \in DOMAIN texts : texts[i] # <<>>}
  IN IF found = {} THEN <<>> ELSE texts[CHOOSE i \in found : \A j \in found : i <= j]

\* Mutated form: the multiparts inside a multipart are not looked into.
MutBodyOf(part, nested) ==
  firstText(<<firstText(textsOf(<<part>>, "plain")), firstText(textsOf(<<part>>, "html")),
              firstText(textsOf(part.parts, "plain")), firstText(textsOf(part.parts, "html"))>>)

\* The part itself, a plain text in it, an HTML text in it, or what the first
\* of its parts that has any gives.
bodyOf(part, nested) ==
  firstText(<<firstText(textsOf(<<part>>, "plain")), firstText(textsOf(<<part>>, "html")),
              firstText(textsOf(part.parts, "plain")), firstText(textsOf(part.parts, "html")),
              firstText(nested)>>)

extractBody[part \in Payloads] ==
  bodyOf(part, [i \in DOMAIN part.parts |-> extractBody[part.parts[i]]])

-----------------------------------------------------------------------------
(* What extractBody promises. *)

isText(part) == part.mimeType \in {"plain", "html"} /\ part.data # <<>>

\* The texts of a tree, wherever they are, with the way to each.
textLeaves[part \in Payloads] ==
  IF isText(part) THEN {[path |-> <<>>, type |-> part.mimeType, text |-> part.data]}
  ELSE UNION {{[leaf EXCEPT !.path = <<i>> \o @] : leaf \in textLeaves[part.parts[i]]} :
                i \in DOMAIN part.parts}

\* Two texts of one multipart.
beside(j, k) ==
  Len(j.path) = Len(k.path) /\ \A i \in 1 .. Len(j.path) - 1 : j.path[i] = k.path[i]

\* The body is empty only if there is no text anywhere in the message, so that
\* no nesting hides the links of a message that has just one text, and where a
\* multipart holds the text both ways it is not the HTML.
IsBodyOf(body, payload) ==
  LET leaves == textLeaves[payload] IN
  IF leaves = {} THEN body = <<>>
  ELSE \E leaf \in leaves :
         /\ leaf.text = body
         /\ leaf.type = "html" => \A other \in leaves : beside(leaf, other) => other.type = "html"

=============================================================================
