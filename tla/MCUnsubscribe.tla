--------------------------- MODULE MCUnsubscribe ---------------------------
(* Unsubscribe for the MIME trees of up to two levels of two parts each.   *)
EXTENDS Unsubscribe

lists(S) == UNION {[1 .. n -> S] : n \in 0 .. 2}

Leaves ==
  {[mimeType |-> type, data |-> text, parts |-> <<>>] :
     type \in {"plain", "html"}, text \in {<<>>, <<0>>, <<MaxLinks>>}}
    \cup {[mimeType |-> "other", data |-> <<1>>, parts |-> <<>>]}

Multiparts(S) == {[mimeType |-> "other", data |-> <<>>, parts |-> ps] : ps \in lists(S)}

\* A text, an attachment, a multipart, or a multipart with one inside.
MimeParts ==
  Leaves \cup Multiparts(Leaves)
    \cup Multiparts(Leaves \cup {m \in Multiparts(Leaves) : Len(m.parts) = 2})
NestingIn ==
  [p \in MimeParts |-> IF p.parts = <<>> THEN 0
                       ELSE IF \A i \in DOMAIN p.parts : p.parts[i].parts = <<>> THEN 1 ELSE 2]

\* TLC evaluates these names at each use, and what they stand for once.
Trees == MimeParts
NestingOf == NestingIn

=============================================================================
