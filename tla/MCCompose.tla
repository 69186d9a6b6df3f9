----------------------------- MODULE MCCompose -----------------------------
(* Compose for three people, each of them written with and without a name. *)
EXTENDS Compose, TLC

CONSTANTS me, ann, bob

Named(a) == <<Quote, Comma, Quote, a>>
Nicknamed(a) == <<Quote, Escape, Escape, Quote, a>>

\* The start of a thread whose message has no id, and a reply in a thread.
Starts == [subject |-> <<>>, id |-> 0, references |-> <<>>, broken |-> {}]
Continues == [subject |-> <<2>>, id |-> 1, references |-> <<MaxMail + 1>>, broken |-> {}]
Folded(name) == [Continues EXCEPT !.broken = {name}]

Original(from, replyTo, to, cc, h) ==
  [from |-> from, replyTo |-> replyTo, to |-> to, cc |-> cc, subject |-> h.subject,
   id |-> h.id, references |-> h.references, broken |-> h.broken]

\* A name with a comma between escaped quotes, and one that is someone's address.
NotPlain ==
  {Original(<<<<ann>>>>, <<>>, <<<<me>>>>, <<a>>, Starts) :
     a \in {<<Quote, Escape, Comma, Escape, Quote, bob>>, <<Quote, ann, Quote, bob>>}}

\* From someone or from oneself, with or without Reply-To; lines that repeat
\* the sender, name oneself, or do neither; and one line in the folded ones.
Arrived ==
  {Original(sent.from, sent.replyTo, to, cc, h) :
     sent    \in {[from |-> <<<<ann>>>>, replyTo |-> <<>>], [from |-> <<<<me>>>>, replyTo |-> <<>>],
                 [from |-> <<<<ann>>>>, replyTo |-> <<Named(bob), <<ann>>>>]},
     to      \in {<<>>, <<Named(ann), <<me>>>>, <<<<bob>>, Nicknamed(ann)>>},
     cc      \in {<<>>, <<Named(bob), Named(me)>>},
     h       \in {Starts, Continues}}
  \cup {Original(<<<<ann>>>>, <<>>, <<Named(me)>>, <<>>, Folded(name)) :
          name \in {"Subject", "Message-ID", "References"}}
  \cup NotPlain

\* Nothing, someone after a blank, and a name with a line break.
GivenByCallers == {<<>>, <<<<>>, <<bob>>>>, <<<<LineBreak, ann>>>>}
SubjectsByCallers ==
  {[subject |-> <<>>, broken |-> {}], [subject |-> <<0>>, broken |-> {}],
   [subject |-> <<0>>, broken |-> {"Subject"}]}

Symmetry == Permutations(Requests)
=============================================================================
