------------------------- MODULE Unsubscribe_proofs -------------------------
(***************************************************************************)
(* What the unsubscribe tool does for any message: the order of the        *)
(* requests and the meaning of a failure, for any number of links, and, in *)
(* the second part, which text of a MIME tree is the body, for any tree.   *)
(***************************************************************************)
EXTENDS Unsubscribe, SequenceTheorems, WellFoundedInduction, TLAPS

-----------------------------------------------------------------------------
(* The order of reliability. *)

OfferOK == email \in Offer

\* How many requests come before those of a stage.
base(s) ==
  CASE s = "post" -> 0
    [] s = "mail" -> work("post")
    [] s = "get"  -> work("post") + work("mail")
    [] s = "body" -> work("post") + work("mail") + work("get")

total == work("post") + work("mail") + work("get") + work("body")

LEMMA WorkType ==
  ASSUME OfferOK
  PROVE  /\ bodyLinks \in 0 .. MaxLinks
         /\ email.headerLinks \in 0 .. MaxLinks
         /\ \A s \in Stages : work(s) \in Nat /\ base(s) \in Nat /\ base(s) + work(s) <= total
         /\ total \in Nat
         /\ \A s \in Stages, k \in Nat \ {0} : k <= work(s) => <<s, k>> \in Attempts
<1>1. MaxLinks \in Nat
  BY MimeTrees
<1>2. email.headerLinks \in 0 .. MaxLinks /\ email.oneClick \in BOOLEAN /\ email.mailto \in 0 .. MaxLinks
  BY DEF OfferOK, Offer
<1>3. bodyLinks \in 0 .. MaxLinks
  <2>1. email.body \in Texts
    BY DEF OfferOK, Offer
  <2>2. CASE email.body = <<>>
    BY <1>1, <2>2 DEF bodyLinks
  <2>3. CASE email.body # <<>>
    <3>1. PICK n \in 0 .. MaxLinks : email.body = <<n>>
      BY <2>1, <2>3 DEF Texts
    <3>2. email.body[1] = n
      BY <3>1
    <3> QED BY <2>3, <3>1, <3>2 DEF bodyLinks
  <2> QED BY <2>2, <2>3
<1>4. work("post") \in 0 .. MaxLinks /\ work("mail") \in {0, 1}
      /\ work("get") \in 0 .. MaxLinks /\ work("body") \in 0 .. MaxLinks
  BY <1>1, <1>2, <1>3 DEF work
<1>5. base("post") = 0 /\ base("mail") = work("post") /\ base("get") = work("post") + work("mail")
      /\ base("body") = work("post") + work("mail") + work("get")
  BY DEF base
<1>6. \A s \in Stages : work(s) \in Nat /\ base(s) \in Nat /\ base(s) + work(s) <= total
  BY <1>1, <1>4, <1>5 DEF Stages, total
<1>7. ASSUME NEW s \in Stages, NEW k \in Nat \ {0}, k <= work(s) PROVE <<s, k>> \in Attempts
  <2>1. CASE s = "mail"
    BY <1>4, <1>7, <2>1 DEF Attempts
  <2>2. CASE s # "mail"
    <3>1. k \in 1 .. MaxLinks
      BY <1>1, <1>4, <1>7, <2>2 DEF Stages
    <3> QED BY <3>1 DEF Attempts
  <2> QED BY <2>1, <2>2
<1> QED BY <1>1, <1>2, <1>3, <1>4, <1>6, <1>7 DEF total

LEMMA LinksOf ==
  ASSUME NEW s \in Stages, NEW n \in Nat, \A k \in 1 .. n : <<s, k>> \in Attempts
  PROVE  /\ linksOf(s, n) \in Seq(Attempts)
         /\ Len(linksOf(s, n)) = n
         /\ \A k \in 1 .. n : linksOf(s, n)[k] = <<s, k>>
<1>1. linksOf(s, n) = [i \in 1 .. n |-> <<s, i>>]
  BY DEF linksOf
<1>2. [i \in 1 .. n |-> <<s, i>>] \in Seq(Attempts)
  BY IsASeq
<1>3. Len([i \in 1 .. n |-> <<s, i>>]) = n
  OBVIOUS
<1> QED BY <1>1, <1>2, <1>3

\* st is s and then t.
Joined(S, st, s, t) ==
  /\ st \in Seq(S) /\ Len(st) = Len(s) + Len(t)
  /\ Len(s) \in Nat /\ Len(t) \in Nat
  /\ \A k \in 1 .. Len(s) : st[k] = s[k]
  /\ \A k \in 1 .. Len(t) : st[Len(s) + k] = t[k]

LEMMA ConcatJoins ==
  ASSUME NEW S, NEW s \in Seq(S), NEW t \in Seq(S)
  PROVE  Joined(S, s \o t, s, t)
<1>1. Len(s) \in Nat /\ Len(t) \in Nat
  BY LenProperties
<1>2. s \o t \in Seq(S) /\ Len(s \o t) = Len(s) + Len(t)
  BY ConcatProperties
<1>3. \A i \in 1 .. Len(s) + Len(t) : (s \o t)[i] = IF i <= Len(s) THEN s[i] ELSE t[i - Len(s)]
  BY ConcatProperties
<1>4. ASSUME NEW k \in 1 .. Len(s) PROVE (s \o t)[k] = s[k]
  BY <1>1, <1>3
<1>5. ASSUME NEW k \in 1 .. Len(t) PROVE (s \o t)[Len(s) + k] = t[k]
  <2>1. Len(s) + k \in 1 .. Len(s) + Len(t) /\ ~(Len(s) + k <= Len(s)) /\ Len(s) + k - Len(s) = k
    BY <1>1
  <2> QED BY <2>1, <1>3
<1> QED BY <1>1, <1>2, <1>4, <1>5 DEF Joined

\* all is p, m, g and b, one after the other.
InOrder(S, all, p, m, g, b) ==
  /\ all \in Seq(S)
  /\ Len(all) = Len(p) + Len(m) + Len(g) + Len(b)
  /\ \A k \in 1 .. Len(p) : all[k] = p[k]
  /\ \A k \in 1 .. Len(m) : all[Len(p) + k] = m[k]
  /\ \A k \in 1 .. Len(g) : all[Len(p) + Len(m) + k] = g[k]
  /\ \A k \in 1 .. Len(b) : all[Len(p) + Len(m) + Len(g) + k] = b[k]

LEMMA FourInOrder ==
  ASSUME NEW S, NEW p \in Seq(S), NEW m \in Seq(S), NEW g \in Seq(S), NEW b \in Seq(S)
  PROVE  InOrder(S, p \o m \o g \o b, p, m, g, b)
<1>1. PICK x : x = p \o m
  OBVIOUS
<1>2. Joined(S, x, p, m)
  BY <1>1, ConcatJoins
<1>3. PICK y : y = x \o g
  OBVIOUS
<1>4. x \in Seq(S)
  BY <1>2 DEF Joined
<1>5. Joined(S, y, x, g)
  BY <1>3, <1>4, ConcatJoins
<1>6. PICK z : z = y \o b
  OBVIOUS
<1>7. y \in Seq(S)
  BY <1>5 DEF Joined
<1>8. Joined(S, z, y, b)
  BY <1>6, <1>7, ConcatJoins
<1>9. ASSUME NEW k \in 1 .. Len(p) PROVE z[k] = p[k]
  BY <1>2, <1>5, <1>8 DEF Joined
<1>10. ASSUME NEW k \in 1 .. Len(m) PROVE z[Len(p) + k] = m[k]
  <2> DEFINE i == Len(p) + k
  <2>1. i \in 1 .. Len(x) /\ i \in 1 .. Len(y)
    BY <1>2, <1>5 DEF Joined
  <2>2. x[i] = m[k]
    BY <1>2 DEF Joined
  <2> HIDE DEF i
  <2>3. z[i] = y[i] /\ y[i] = x[i]
    BY <2>1, <1>5, <1>8 DEF Joined
  <2> QED BY <2>2, <2>3 DEF i
<1>11. ASSUME NEW k \in 1 .. Len(g) PROVE z[Len(p) + Len(m) + k] = g[k]
  <2> DEFINE i == Len(p) + Len(m) + k
  <2>1. i = Len(x) + k /\ i \in 1 .. Len(y)
    BY <1>2, <1>5 DEF Joined
  <2> HIDE DEF i
  <2>2. y[i] = g[k] /\ z[i] = y[i]
    BY <2>1, <1>5, <1>8 DEF Joined
  <2> QED BY <2>2 DEF i
<1>12. ASSUME NEW k \in 1 .. Len(b) PROVE z[Len(p) + Len(m) + Len(g) + k] = b[k]
  <2> DEFINE i == Len(p) + Len(m) + Len(g) + k
  <2>1. i = Len(y) + k
    BY <1>2, <1>5 DEF Joined
  <2> HIDE DEF i
  <2>2. z[i] = b[k]
    BY <2>1, <1>8 DEF Joined
  <2> QED BY <2>2 DEF i
<1>13. z \in Seq(S) /\ Len(z) = Len(p) + Len(m) + Len(g) + Len(b)
  BY <1>2, <1>5, <1>8 DEF Joined
<1>14. z = p \o m \o g \o b
  BY <1>1, <1>3, <1>6
<1>15. InOrder(S, z, p, m, g, b)
  BY <1>9, <1>10, <1>11, <1>12, <1>13 DEF InOrder
<1> QED BY <1>14, <1>15

\* The k-th request of a stage is where those of the stages before it end.
LEMMA ReliabilityIs ==
  ASSUME OfferOK
  PROVE  /\ Reliability \in Seq(Attempts)
         /\ Len(Reliability) = total
         /\ \A s \in Stages : \A k \in 1 .. work(s) : Reliability[base(s) + k] = <<s, k>>
<1> DEFINE L(s) == linksOf(s, work(s))
<1>1. ASSUME NEW s \in Stages
      PROVE  L(s) \in Seq(Attempts) /\ Len(L(s)) = work(s)
             /\ \A k \in 1 .. work(s) : L(s)[k] = <<s, k>>
  BY WorkType, LinksOf
<1>2. "post" \in Stages /\ "mail" \in Stages /\ "get" \in Stages /\ "body" \in Stages
  BY DEF Stages
<1>3. work("post") \in Nat /\ work("mail") \in Nat /\ work("get") \in Nat /\ work("body") \in Nat
  BY <1>2, WorkType
<1>4. \A s \in Stages : work(s) = 0 => L(s) = <<>>
  <2> SUFFICES ASSUME NEW s \in Stages, work(s) = 0 PROVE L(s) = <<>>
    OBVIOUS
  <2>1. Len(L(s)) = 0 /\ L(s) \in Seq(Attempts)
    BY <1>1
  <2> HIDE DEF L
  <2> QED BY <2>1, EmptySeq
<1>5. L("post") = IF email.oneClick THEN linksOf("post", email.headerLinks) ELSE <<>>
  BY <1>2, <1>4 DEF work
<1>6. L("mail") = IF email.mailto > 0 THEN linksOf("mail", 1) ELSE <<>>
  BY <1>2, <1>4 DEF work
<1>7. L("get") = linksOf("get", email.headerLinks) /\ L("body") = linksOf("body", bodyLinks)
  BY DEF work
<1>8. Reliability = L("post") \o L("mail") \o L("get") \o L("body")
  BY <1>5, <1>6, <1>7 DEF Reliability
<1>9. base("post") = 0 /\ base("mail") = work("post") /\ base("get") = work("post") + work("mail")
      /\ base("body") = work("post") + work("mail") + work("get")
  BY DEF base
<1> HIDE DEF L
<1>10. InOrder(Attempts, Reliability, L("post"), L("mail"), L("get"), L("body"))
  <2>1. L("post") \in Seq(Attempts) /\ L("mail") \in Seq(Attempts)
        /\ L("get") \in Seq(Attempts) /\ L("body") \in Seq(Attempts)
    BY <1>1, <1>2
  <2> QED BY <2>1, <1>8, FourInOrder
<1>11. /\ Reliability \in Seq(Attempts)
       /\ Len(Reliability) = work("post") + work("mail") + work("get") + work("body")
       /\ \A k \in 1 .. work("post") : Reliability[k] = L("post")[k]
       /\ \A k \in 1 .. work("mail") : Reliability[base("mail") + k] = L("mail")[k]
       /\ \A k \in 1 .. work("get") : Reliability[base("get") + k] = L("get")[k]
       /\ \A k \in 1 .. work("body") : Reliability[base("body") + k] = L("body")[k]
  <2>1. Len(L("post")) = work("post") /\ Len(L("mail")) = work("mail")
        /\ Len(L("get")) = work("get") /\ Len(L("body")) = work("body")
    BY <1>1, <1>2
  <2>2. base("mail") = Len(L("post")) /\ base("get") = Len(L("post")) + Len(L("mail"))
        /\ base("body") = Len(L("post")) + Len(L("mail")) + Len(L("get"))
    BY <2>1, <1>9
  <2> QED BY <2>1, <2>2, <1>10, Zenon DEF InOrder
<1>12. \A k \in 1 .. work("post") : Reliability[base("post") + k] = <<"post", k>>
  <2> SUFFICES ASSUME NEW k \in 1 .. work("post") PROVE Reliability[base("post") + k] = <<"post", k>>
    OBVIOUS
  <2>1. base("post") + k = k
    BY <1>9
  <2> QED BY <2>1, <1>1, <1>2, <1>11
<1>13. \A k \in 1 .. work("mail") : Reliability[base("mail") + k] = <<"mail", k>>
  BY <1>1, <1>2, <1>11
<1>14. \A k \in 1 .. work("get") : Reliability[base("get") + k] = <<"get", k>>
  BY <1>1, <1>2, <1>11
<1>15. \A k \in 1 .. work("body") : Reliability[base("body") + k] = <<"body", k>>
  BY <1>1, <1>2, <1>11
<1>16. Len(Reliability) = total
  BY <1>11 DEF total
<1> QED BY <1>11, <1>12, <1>13, <1>14, <1>15, <1>16 DEF Stages

-----------------------------------------------------------------------------
(* The invariant. *)

\* The first n requests, in the order of reliability, are the ones made.
made(n) ==
  /\ tried \in Seq(Attempts) /\ Len(tried) = n
  /\ n <= Len(Reliability)
  /\ \A i \in 1 .. n : tried[i] = Reliability[i]

\* While nothing is answered, what was made ends with the request that is out;
\* a success is that of the last one made.
InOrderOfReliability ==
  /\ OfferOK
  /\ attempt \in Attempts \cup Outside
  /\ attempt = <<"fetching">> => result = "pending" /\ tried = <<>>
  /\ attempt \in Attempts =>
       /\ result = "pending"
       /\ attempt[2] <= work(attempt[1])
       /\ made(base(attempt[1]) + attempt[2])
  /\ attempt = <<"answered">> =>
       \/ result = "error" /\ tried = <<>>
       \/ result = "none" /\ made(total)
       \/ \E s \in Stages : \E k \in 1 .. work(s) :
            result = Method[s] /\ made(base(s) + k)

LEMMA AttemptType ==
  ASSUME NEW a \in Attempts
  PROVE  a[1] \in Stages /\ a[2] \in Nat \ {0} /\ a = <<a[1], a[2]>> /\ a \notin Outside
<1>1. MaxLinks \in Nat
  BY MimeTrees
<1>2. a[1] \in Stages /\ a[2] \in Nat \ {0} /\ a = <<a[1], a[2]>>
  BY <1>1 DEF Attempts, Stages
<1>3. DOMAIN <<a[1], a[2]>> = 1 .. 2 /\ DOMAIN <<"fetching">> = 1 .. 1 /\ DOMAIN <<"answered">> = 1 .. 1
  OBVIOUS
<1>4. 1 .. 2 # 1 .. 1
  <2>1. 2 \in 1 .. 2 /\ 2 \notin 1 .. 1
    OBVIOUS
  <2> QED BY <2>1
<1>5. a # <<"fetching">> /\ a # <<"answered">>
  <2> SUFFICES ASSUME a = <<"fetching">> \/ a = <<"answered">> PROVE FALSE
    OBVIOUS
  <2>1. DOMAIN a = 1 .. 2
    BY <1>2, <1>3
  <2>2. DOMAIN a = 1 .. 1
    BY <1>3
  <2> QED BY <2>1, <2>2, <1>4
<1> QED BY <1>2, <1>5 DEF Outside

\* The stage that opens is the next in the order that has anything to do.
LEMMA OpensNext ==
  ASSUME OfferOK, NEW done, NEW n \in Nat,
         \/ done = {} /\ n = 0
         \/ \E t \in Stages : done = Before[t] \cup {t} /\ n = base(t) + work(t)
  PROVE  /\ \A s \in Stages : opens(done, s) => n = base(s) /\ work(s) > 0
         /\ (\A s \in Stages : ~opens(done, s)) => n = total
<1>1. work("post") \in Nat /\ work("mail") \in Nat /\ work("get") \in Nat /\ work("body") \in Nat
  BY WorkType DEF Stages
<1>2. base("post") = 0 /\ base("mail") = work("post") /\ base("get") = work("post") + work("mail")
      /\ base("body") = work("post") + work("mail") + work("get")
  BY DEF base
<1>3. Before["post"] = {} /\ Before["mail"] = {"post"} /\ Before["get"] = {"post", "mail"}
      /\ Before["body"] = {"post", "mail", "get"}
  BY DEF Before
<1> DEFINE DoneSoFar ==
      \/ done = {} /\ n = 0
      \/ done = {"post"} /\ n = work("post")
      \/ done = {"post", "mail"} /\ n = work("post") + work("mail")
      \/ done = {"post", "mail", "get"} /\ n = work("post") + work("mail") + work("get")
      \/ done = {"post", "mail", "get", "body"} /\ n = total
<1>4. DoneSoFar
  <2>1. CASE done = {} /\ n = 0
    BY <2>1
  <2>2. ASSUME NEW t \in Stages, done = Before[t] \cup {t}, n = base(t) + work(t)
        PROVE  DoneSoFar
    <3>1. CASE t = "post"
      BY <2>2, <3>1, <1>1, <1>2, <1>3
    <3>2. CASE t = "mail"
      BY <2>2, <3>2, <1>1, <1>2, <1>3
    <3>3. CASE t = "get"
      BY <2>2, <3>3, <1>1, <1>2, <1>3
    <3>4. CASE t = "body"
      BY <2>2, <3>4, <1>1, <1>2, <1>3 DEF total
    <3> QED BY <3>1, <3>2, <3>3, <3>4 DEF Stages
  <2> QED BY <2>1, <2>2
<1> DEFINE O(s) == /\ s \notin done /\ work(s) > 0
                   /\ \A t \in Before[s] : t \in done \/ work(t) = 0
<1>5. \A s \in Stages : opens(done, s) <=> O(s)
  BY DEF opens
<1>6. ASSUME NEW s \in Stages, O(s) PROVE n = base(s) /\ work(s) > 0
  <2>1. CASE s = "post"
    BY <1>1, <1>2, <1>3, <1>4, <1>6, <2>1
  <2>2. CASE s = "mail"
    BY <1>1, <1>2, <1>3, <1>4, <1>6, <2>2
  <2>3. CASE s = "get"
    BY <1>1, <1>2, <1>3, <1>4, <1>6, <2>3
  <2>4. CASE s = "body"
    BY <1>1, <1>2, <1>3, <1>4, <1>6, <2>4
  <2> QED BY <2>1, <2>2, <2>3, <2>4 DEF Stages
<1>7. ASSUME \A s \in Stages : ~O(s) PROVE n = total
  <2>1. ~O("post") /\ ~O("mail") /\ ~O("get") /\ ~O("body")
    BY <1>7 DEF Stages
  <2>2. "post" \in done \/ work("post") = 0
    BY <2>1, <1>1, <1>3
  <2>3. "mail" \in done \/ work("mail") = 0
    BY <2>1, <2>2, <1>1, <1>3
  <2>4. "get" \in done \/ work("get") = 0
    BY <2>1, <2>2, <2>3, <1>1, <1>3
  <2>5. "body" \in done \/ work("body") = 0
    BY <2>1, <2>2, <2>3, <2>4, <1>1, <1>3
  <2>6. total = work("post") + work("mail") + work("get") + work("body")
    BY DEF total
  <2>7. CASE done = {} /\ n = 0
    BY <2>2, <2>3, <2>4, <2>5, <2>6, <2>7
  <2>8. CASE done = {"post"} /\ n = work("post")
    BY <2>3, <2>4, <2>5, <2>6, <2>8, <1>1
  <2>9. CASE done = {"post", "mail"} /\ n = work("post") + work("mail")
    BY <2>4, <2>5, <2>6, <2>9, <1>1
  <2>10. CASE done = {"post", "mail", "get"} /\ n = work("post") + work("mail") + work("get")
    BY <2>5, <2>6, <2>10, <1>1
  <2> QED BY <1>4, <2>7, <2>8, <2>9, <2>10
<1> QED BY <1>5, <1>6, <1>7

LEMMA MadeGrows ==
  ASSUME OfferOK, OfferOK', Reliability' = Reliability, NEW n \in Nat, made(n),
         NEW a \in Attempts, n + 1 <= Len(Reliability), Reliability[n + 1] = a,
         tried' = Append(tried, a)
  PROVE  made(n + 1)'
<1>1. tried \in Seq(Attempts) /\ Len(tried) = n /\ \A i \in 1 .. n : tried[i] = Reliability[i]
  BY DEF made
<1>2. /\ Append(tried, a) \in Seq(Attempts) /\ Len(Append(tried, a)) = n + 1
      /\ \A i \in 1 .. n : Append(tried, a)[i] = tried[i]
      /\ Append(tried, a)[n + 1] = a
  BY <1>1, AppendProperties
<1>3. \A i \in 1 .. n + 1 : tried'[i] = Reliability'[i]
  BY <1>1, <1>2
<1> QED BY <1>2, <1>3 DEF made

LEMMA SameEmail ==
  ASSUME email' = email
  PROVE  /\ OfferOK' = OfferOK /\ Reliability' = Reliability /\ total' = total
         /\ \A s : work(s)' = work(s) /\ base(s)' = base(s)
<1>1. bodyLinks' = bodyLinks
  BY DEF bodyLinks
<1>2. \A s : work(s)' = work(s)
  BY <1>1 DEF work
<1>3. \A s : base(s)' = base(s)
  BY <1>2 DEF base
<1>4. total' = total
  BY <1>2 DEF total
<1>5. Reliability' = Reliability
  BY <1>1 DEF Reliability
<1>6. OfferOK' = OfferOK
  BY DEF OfferOK
<1> QED BY <1>2, <1>3, <1>4, <1>5, <1>6

\* The first request of the stage that opens, or the failure.
LEMMA GoesOnInOrder ==
  ASSUME OfferOK, email' = email, result = "pending",
         NEW done, NEW n \in Nat, made(n), GoOn(done),
         \/ done = {} /\ n = 0
         \/ \E t \in Stages : done = Before[t] \cup {t} /\ n = base(t) + work(t)
  PROVE  InOrderOfReliability'
<1>1. OfferOK' /\ Reliability' = Reliability /\ total' = total
      /\ \A s : work(s)' = work(s) /\ base(s)' = base(s)
  BY SameEmail
<1>2. CASE \E s \in Stages : /\ opens(done, s)
                            /\ attempt' = <<s, 1>>
                            /\ tried' = Append(tried, <<s, 1>>)
                            /\ result' = result
  <2>1. PICK s \in Stages : opens(done, s) /\ attempt' = <<s, 1>>
               /\ tried' = Append(tried, <<s, 1>>) /\ result' = result
    BY <1>2
  <2>2. n = base(s) /\ work(s) > 0 /\ work(s) \in Nat /\ base(s) + work(s) <= total
    BY <2>1, OpensNext, WorkType
  <2>3. <<s, 1>> \in Attempts
    BY <2>2, WorkType
  <2>4. Reliability[n + 1] = <<s, 1>> /\ n + 1 <= Len(Reliability)
    BY <2>2, ReliabilityIs
  <2>5. made(n + 1)'
    BY <1>1, <2>1, <2>3, <2>4, MadeGrows
  <2>6. attempt'[1] = s /\ attempt'[2] = 1
    BY <2>1
  <2>7. attempt' \in Attempts /\ attempt' \notin Outside
    BY <2>1, <2>3, AttemptType
  <2>8. made(base(attempt[1]) + attempt[2])'
    BY <1>1, <2>2, <2>5, <2>6
  <2>9. (attempt[2] <= work(attempt[1]))'
    BY <1>1, <2>2, <2>6
  <2>10. result' = "pending"
    BY <2>1
  <2> QED BY <1>1, <2>7, <2>8, <2>9, <2>10 DEF InOrderOfReliability, Outside
<1>3. CASE /\ \A s \in Stages : ~opens(done, s)
           /\ attempt' = <<"answered">>
           /\ result' = "none"
           /\ tried' = tried
  <2>1. n = total
    BY <1>3, OpensNext
  <2>2. made(total)'
    BY <1>1, <1>3, <2>1 DEF made
  <2>3. attempt' \notin Attempts /\ attempt' \in Outside /\ attempt' # <<"fetching">>
    BY <1>3, AttemptType DEF Outside
  <2> QED BY <1>1, <1>3, <2>2, <2>3 DEF InOrderOfReliability
<1> QED BY <1>2, <1>3 DEF GoOn

\* A request that does not succeed.
LEMMA NextInOrder ==
  ASSUME InOrderOfReliability, inFlight, NextAttempt, email' = email
  PROVE  InOrderOfReliability'
<1>1. attempt \in Attempts /\ result = "pending" /\ OfferOK
  BY DEF inFlight, InOrderOfReliability
<1>2. PICK s \in Stages, k \in Nat \ {0} : attempt = <<s, k>> /\ s = attempt[1] /\ k = attempt[2]
  BY <1>1, AttemptType
<1>3. k <= work(s) /\ made(base(s) + k)
  BY <1>1, <1>2 DEF InOrderOfReliability
<1>4. work(s) \in Nat /\ base(s) \in Nat /\ base(s) + work(s) <= total
  BY <1>1, <1>2, WorkType
<1>5. OfferOK' /\ Reliability' = Reliability /\ total' = total
      /\ \A t : work(t)' = work(t) /\ base(t)' = base(t)
  BY <1>1, SameEmail
<1>6. CASE k < work(s)
  <2>1. attempt' = <<s, k + 1>> /\ tried' = Append(tried, <<s, k + 1>>) /\ result' = result
    BY <1>2, <1>6 DEF NextAttempt, stageOut
  <2>2. <<s, k + 1>> \in Attempts
    BY <1>1, <1>2, <1>3, <1>4, <1>6, WorkType
  <2>3. Reliability[base(s) + (k + 1)] = <<s, k + 1>> /\ base(s) + (k + 1) <= Len(Reliability)
    BY <1>1, <1>2, <1>3, <1>4, <1>6, ReliabilityIs
  <2>4. base(s) + k \in Nat /\ base(s) + (k + 1) = (base(s) + k) + 1
    BY <1>2, <1>4
  <2>5. made((base(s) + k) + 1)'
    BY <1>1, <1>3, <1>5, <2>1, <2>2, <2>3, <2>4, MadeGrows
  <2>6. attempt'[1] = s /\ attempt'[2] = k + 1
    BY <2>1
  <2>7. attempt' \in Attempts /\ attempt' \notin Outside
    BY <2>1, <2>2, AttemptType
  <2>8. made(base(attempt[1]) + attempt[2])'
    BY <1>5, <2>4, <2>5, <2>6
  <2>9. (attempt[2] <= work(attempt[1]))'
    BY <1>2, <1>4, <1>5, <1>6, <2>6
  <2> QED BY <1>1, <1>5, <2>1, <2>7, <2>8, <2>9 DEF InOrderOfReliability, Outside
<1>7. CASE ~(k < work(s))
  <2>1. GoOn(Before[s] \cup {s})
    BY <1>2, <1>7 DEF NextAttempt, stageOut
  <2>2. k = work(s)
    BY <1>1, <1>2, <1>3, <1>4, <1>7
  <2> QED BY <1>1, <1>2, <1>3, <1>4, <2>1, <2>2, GoesOnInOrder
<1> QED BY <1>6, <1>7

THEOREM KeepsTheOrder == Spec => []InOrderOfReliability
<1>1. Init => InOrderOfReliability
  <2> SUFFICES ASSUME Init PROVE InOrderOfReliability
    OBVIOUS
  <2>1. OfferOK
    BY DEF Init, OfferOK
  <2>2. attempt = <<"fetching">> /\ attempt # <<"answered">> /\ attempt \in Outside
    BY DEF Init, Outside
  <2>3. attempt \notin Attempts
    BY <2>2, AttemptType
  <2> QED BY <2>1, <2>2, <2>3 DEF Init, InOrderOfReliability
<1>2. InOrderOfReliability /\ [Next]_vars => InOrderOfReliability'
  <2> SUFFICES ASSUME InOrderOfReliability, [Next]_vars PROVE InOrderOfReliability'
    OBVIOUS
  <2>1. CASE MessageGot
    <3>1. made(0)
      <4>1. tried = <<>> /\ OfferOK
        BY <2>1 DEF MessageGot, InOrderOfReliability
      <4>2. <<>> \in Seq(Attempts) /\ Len(<<>>) = 0
        BY EmptySeq
      <4>3. Len(Reliability) \in Nat
        BY <4>1, ReliabilityIs, WorkType
      <4> QED BY <4>1, <4>2, <4>3 DEF made
    <3>2. OfferOK /\ result = "pending" /\ email' = email /\ GoOn({})
      BY <2>1 DEF MessageGot, InOrderOfReliability
    <3> QED BY <3>1, <3>2, GoesOnInOrder
  <2>2. CASE MessageFails
    <3>1. OfferOK' /\ attempt' = <<"answered">> /\ result' = "error" /\ tried' = <<>>
      BY <2>2, SameEmail DEF MessageFails, InOrderOfReliability
    <3>2. attempt' \notin Attempts /\ attempt' \in Outside /\ attempt' # <<"fetching">>
      BY <3>1, AttemptType DEF Outside
    <3> QED BY <3>1, <3>2 DEF InOrderOfReliability
  <2>3. CASE Succeeds
    <3>1. attempt \in Attempts /\ OfferOK /\ email' = email /\ tried' = tried
          /\ attempt' = <<"answered">> /\ result' = Method[attempt[1]]
      BY <2>3 DEF Succeeds, inFlight, stageOut, InOrderOfReliability
    <3>2. attempt[1] \in Stages /\ attempt[2] \in Nat \ {0} /\ attempt[2] <= work(attempt[1])
          /\ made(base(attempt[1]) + attempt[2])
      BY <3>1, AttemptType DEF InOrderOfReliability
    <3>3. OfferOK' /\ Reliability' = Reliability
          /\ \A s : work(s)' = work(s) /\ base(s)' = base(s)
      BY <3>1, SameEmail
    <3>4. PICK s \in Stages : s = attempt[1]
      BY <3>2
    <3>5. PICK k \in 1 .. work(s) : k = attempt[2]
      BY <3>1, <3>2, <3>4, WorkType
    <3>6. result' = Method[s] /\ k \in 1 .. work(s)' /\ made(base(s) + k)'
      BY <3>1, <3>2, <3>3, <3>4, <3>5 DEF made
    <3>7. attempt' \notin Attempts /\ attempt' \in Outside /\ attempt' # <<"fetching">>
      BY <3>1, AttemptType DEF Outside
    <3> QED BY <3>1, <3>3, <3>4, <3>5, <3>6, <3>7 DEF InOrderOfReliability
  <2>4. CASE Fails
    BY <2>4, NextInOrder DEF Fails
  <2>5. CASE TimesOut
    BY <2>5, NextInOrder DEF TimesOut
  <2>6. CASE UNCHANGED vars
    <3>1. OfferOK' = OfferOK /\ Reliability' = Reliability /\ total' = total
          /\ \A s : work(s)' = work(s) /\ base(s)' = base(s)
      BY <2>6, SameEmail DEF vars
    <3>2. attempt' = attempt /\ tried' = tried /\ result' = result
      BY <2>6 DEF vars
    <3>3. \A n : made(n)' = made(n)
      BY <3>1, <3>2 DEF made
    <3> QED BY <3>1, <3>2, <3>3 DEF InOrderOfReliability
  <2> QED BY <2>1, <2>2, <2>3, <2>4, <2>5, <2>6 DEF Next
<1> QED BY <1>1, <1>2, PTL DEF Spec

-----------------------------------------------------------------------------
(* Functions defined by recursion over a MIME tree. *)

LEMMA LeastExists ==
  ASSUME NEW S, S \subseteq Nat, S # {}
  PROVE  \E i \in S : \A j \in S : i <= j
<1> DEFINE R == OpToRel(<, Nat)
<1>1. \E i \in S : \A j \in S : ~(<<j, i>> \in R)
  <2> HIDE DEF R
  <2> QED BY NatLessThanWellFounded, WFMin DEF R
<1>2. ASSUME NEW i \in S, NEW j \in S, ~(<<j, i>> \in R)
      PROVE  i <= j
  BY <1>2 DEF OpToRel
<1> QED BY <1>1, <1>2

\* What h gives a part depends on what f gives the parts in it only.
IsLocal(Values, h) ==
  /\ h \in [Payloads \X [Payloads -> Values] -> Values]
  /\ \A p \in Payloads : \A f, g \in [Payloads -> Values] :
       (\A i \in DOMAIN p.parts : f[p.parts[i]] = g[p.parts[i]]) => h[<<p, f>>] = h[<<p, g>>]

\* f is as h says on the parts that are nested less than n deep.
SolvesBelow(Values, h, n, f) ==
  /\ f \in [Payloads -> Values]
  /\ \A p \in Payloads : Nesting[p] < n => f[p] = h[<<p, f>>]

LEMMA PartsType ==
  ASSUME NEW p \in Payloads
  PROVE  /\ p.data \in Texts /\ Nesting[p] \in Nat
         /\ Len(p.parts) \in Nat /\ DOMAIN p.parts = 1 .. Len(p.parts)
         /\ \A i \in DOMAIN p.parts : p.parts[i] \in Payloads /\ Nesting[p.parts[i]] < Nesting[p]
<1>1. p.parts \in Seq(Payloads)
  BY MimeTrees
<1>2. DOMAIN p.parts = 1 .. Len(p.parts) /\ Len(p.parts) \in Nat
  BY <1>1, LenProperties
<1>3. \A i \in 1 .. Len(p.parts) : p.parts[i] \in Payloads
  BY <1>1, ElementOfSeq
<1> QED BY <1>2, <1>3, MimeTrees

\* A set that has every part all of whose parts it has, has them all.
LEMMA TreeInduction ==
  ASSUME NEW Q, \A p \in Payloads : (\A i \in DOMAIN p.parts : p.parts[i] \in Q) => p \in Q
  PROVE  Payloads \subseteq Q
<1> DEFINE Bad == {Nesting[p] : p \in Payloads \ Q}
<1>1. Bad \subseteq Nat
  BY PartsType
<1>2. SUFFICES ASSUME Payloads \ Q # {} PROVE FALSE
  OBVIOUS
<1>3. PICK n \in Bad : \A m \in Bad : n <= m
  <2>1. Bad # {}
    BY <1>2
  <2> HIDE DEF Bad
  <2> QED BY <1>1, <2>1, LeastExists
<1>4. PICK p \in Payloads \ Q : n = Nesting[p]
  BY <1>3
<1>5. ASSUME NEW i \in DOMAIN p.parts PROVE p.parts[i] \in Q
  <2>1. p.parts[i] \in Payloads /\ Nesting[p.parts[i]] < Nesting[p] /\ Nesting[p] \in Nat
        /\ Nesting[p.parts[i]] \in Nat
    BY PartsType
  <2>2. SUFFICES ASSUME p.parts[i] \notin Q PROVE FALSE
    OBVIOUS
  <2>3. Nesting[p.parts[i]] \in Bad
    BY <2>1, <2>2
  <2>4. n <= Nesting[p.parts[i]]
    BY <1>3, <2>3
  <2> QED BY <1>4, <2>1, <2>4
<1> QED BY <1>4, <1>5

LEMMA SolutionBelow ==
  ASSUME NEW Values, NEW v0 \in Values, NEW h, IsLocal(Values, h), NEW n \in Nat
  PROVE  \E f : SolvesBelow(Values, h, n, f)
<1> DEFINE Bad == {m \in Nat : ~\E f : SolvesBelow(Values, h, m, f)}
<1>1. SUFFICES Bad = {}
  OBVIOUS
<1>2. SUFFICES ASSUME Bad # {} PROVE FALSE
  OBVIOUS
<1>3. PICK m \in Bad : \A k \in Bad : m <= k
  BY <1>2, LeastExists
<1>4. CASE m = 0
  <2> DEFINE f == [p \in Payloads |-> v0]
  <2>1. SolvesBelow(Values, h, 0, f)
    BY PartsType DEF SolvesBelow
  <2> QED BY <1>3, <1>4, <2>1
<1>5. CASE m # 0
  <2>1. m - 1 \in Nat /\ m - 1 \notin Bad
    BY <1>3, <1>5
  <2>2. PICK f : SolvesBelow(Values, h, m - 1, f)
    BY <2>1
  <2>3. f \in [Payloads -> Values]
    BY <2>2 DEF SolvesBelow
  <2> DEFINE g == [p \in Payloads |-> h[<<p, f>>]]
  <2>4. g \in [Payloads -> Values]
    BY <2>3 DEF IsLocal
  <2>5. ASSUME NEW p \in Payloads, Nesting[p] < m PROVE g[p] = h[<<p, g>>]
    <3>1. ASSUME NEW i \in DOMAIN p.parts PROVE f[p.parts[i]] = g[p.parts[i]]
      <4>1. p.parts[i] \in Payloads /\ Nesting[p.parts[i]] < Nesting[p]
        BY PartsType
      <4>2. Nesting[p.parts[i]] < m - 1
        BY <1>3, <2>5, <4>1, PartsType
      <4>3. f[p.parts[i]] = h[<<p.parts[i], f>>]
        BY <2>2, <4>1, <4>2 DEF SolvesBelow
      <4> QED BY <4>1, <4>3
    <3>2. h[<<p, f>>] = h[<<p, g>>]
      <4> HIDE DEF g
      <4> QED BY <2>3, <2>4, <3>1 DEF IsLocal
    <3> QED BY <3>2
  <2>6. SolvesBelow(Values, h, m, g)
    <3> HIDE DEF g
    <3> QED BY <2>4, <2>5 DEF SolvesBelow
  <2> QED BY <1>3, <2>6
<1> QED BY <1>4, <1>5

\* Two solutions agree as far as both go.
LEMMA SolutionsAgree ==
  ASSUME NEW Values, NEW h, IsLocal(Values, h), NEW m \in Nat, NEW n \in Nat,
         NEW f, SolvesBelow(Values, h, m, f), NEW g, SolvesBelow(Values, h, n, g), m <= n
  PROVE  \A p \in Payloads : Nesting[p] < m => f[p] = g[p]
<1> DEFINE Q == {p \in Payloads : Nesting[p] < m => f[p] = g[p]}
<1>1. ASSUME NEW p \in Payloads, \A i \in DOMAIN p.parts : p.parts[i] \in Q, Nesting[p] < m
      PROVE  f[p] = g[p]
  <2>1. \A i \in DOMAIN p.parts : f[p.parts[i]] = g[p.parts[i]]
    BY <1>1, PartsType
  <2>2. h[<<p, f>>] = h[<<p, g>>]
    BY <2>1 DEF IsLocal, SolvesBelow
  <2>3. f[p] = h[<<p, f>>] /\ g[p] = h[<<p, g>>]
    BY <1>1, PartsType DEF SolvesBelow
  <2> QED BY <2>2, <2>3
<1>2. \A p \in Payloads : (\A i \in DOMAIN p.parts : p.parts[i] \in Q) => p \in Q
  BY <1>1
<1>3. Payloads \subseteq Q
  <2> HIDE DEF Q
  <2> QED BY <1>2, TreeInduction
<1> QED BY <1>3

LEMMA TreeRecursion ==
  ASSUME NEW Values, NEW v0 \in Values, NEW h, IsLocal(Values, h)
  PROVE  \E f \in [Payloads -> Values] : \A p \in Payloads : f[p] = h[<<p, f>>]
<1> DEFINE s(n) == CHOOSE f : SolvesBelow(Values, h, n, f)
           F == [p \in Payloads |-> s(Nesting[p] + 1)[p]]
<1>1. ASSUME NEW n \in Nat PROVE SolvesBelow(Values, h, n, s(n))
  BY SolutionBelow
<1> HIDE DEF s
<1>2. \A p \in Payloads : Nesting[p] \in Nat /\ Nesting[p] + 1 \in Nat
  BY PartsType
<1>3. \A p \in Payloads : s(Nesting[p] + 1) \in [Payloads -> Values]
  BY <1>1, <1>2 DEF SolvesBelow
<1>4. F \in [Payloads -> Values]
  BY <1>3
<1>5. ASSUME NEW p \in Payloads PROVE F[p] = h[<<p, F>>]
  <2> DEFINE g == s(Nesting[p] + 1)
  <2>1. SolvesBelow(Values, h, Nesting[p] + 1, g)
    BY <1>1, <1>2
  <2>2. ASSUME NEW i \in DOMAIN p.parts PROVE F[p.parts[i]] = g[p.parts[i]]
    <3> DEFINE q == p.parts[i]
    <3>1. q \in Payloads /\ Nesting[q] < Nesting[p] /\ Nesting[q] \in Nat
      BY PartsType
    <3> HIDE DEF q
    <3>2. SolvesBelow(Values, h, Nesting[q] + 1, s(Nesting[q] + 1))
      BY <1>1, <1>2, <3>1
    <3>3. Nesting[q] + 1 <= Nesting[p] + 1 /\ Nesting[q] < Nesting[q] + 1
      BY <1>2, <3>1
    <3>4. s(Nesting[q] + 1)[q] = g[q]
      <4> HIDE DEF g
      <4> QED BY <1>2, <2>1, <3>1, <3>2, <3>3, SolutionsAgree
    <3> QED BY <3>1, <3>4 DEF q
  <2>3. h[<<p, F>>] = h[<<p, g>>]
    <3> HIDE DEF F, g
    <3> QED BY <1>4, <2>1, <2>2 DEF IsLocal, SolvesBelow
  <2>4. g[p] = h[<<p, g>>]
    <3> HIDE DEF g
    <3> QED BY <1>2, <2>1 DEF SolvesBelow
  <2> QED BY <2>3, <2>4
<1> HIDE DEF F
<1> QED BY <1>4, <1>5

-----------------------------------------------------------------------------
(* What extractBody takes, part by part. *)

LEMMA FirstText ==
  ASSUME NEW texts, DOMAIN texts \subseteq Nat
  PROVE  \/ (\A i \in DOMAIN texts : texts[i] = <<>>) /\ firstText(texts) = <<>>
         \/ \E i \in DOMAIN texts :
              /\ texts[i] # <<>> /\ firstText(texts) = texts[i]
              /\ \A j \in DOMAIN texts : j < i => texts[j] = <<>>
<1> DEFINE found == {i \in DOMAIN texts : texts[i] # <<>>}
           first == CHOOSE i \in found : \A j \in found : i <= j
<1>1. CASE found = {}
  <2>1. firstText(texts) = <<>>
    BY <1>1 DEF firstText
  <2> QED BY <1>1, <2>1
<1>2. CASE found # {}
  <2>1. \E i \in found : \A j \in found : i <= j
    BY <1>2, LeastExists
  <2>2. first \in found /\ \A j \in found : first <= j
    BY <2>1
  <2>3. firstText(texts) = texts[first]
    BY <1>2 DEF firstText
  <2> HIDE DEF first
  <2>4. first \in DOMAIN texts /\ texts[first] # <<>> /\ first \in Nat
    BY <2>2
  <2>5. ASSUME NEW j \in DOMAIN texts, j < first PROVE texts[j] = <<>>
    <3>1. j \notin found
      BY <2>2, <2>4, <2>5
    <3> QED BY <3>1
  <2> QED BY <2>3, <2>4, <2>5
<1> QED BY <1>1, <1>2

LEMMA FirstTextType ==
  ASSUME NEW texts, DOMAIN texts \subseteq Nat, \A i \in DOMAIN texts : texts[i] \in Texts
  PROVE  firstText(texts) \in Texts
<1>1. <<>> \in Texts
  BY DEF Texts
<1> QED BY <1>1, FirstText

LEMMA BodyOfType ==
  ASSUME NEW p \in Payloads, NEW nested, DOMAIN nested \subseteq Nat,
         \A i \in DOMAIN nested : nested[i] \in Texts
  PROVE  bodyOf(p, nested) \in Texts
<1>1. <<>> \in Texts
  BY DEF Texts
<1>2. ASSUME NEW type PROVE firstText(textsOf(p.parts, type)) \in Texts
  <2>1. DOMAIN textsOf(p.parts, type) \subseteq Nat
    BY PartsType DEF textsOf
  <2>2. \A i \in DOMAIN textsOf(p.parts, type) : textsOf(p.parts, type)[i] \in Texts
    BY <1>1, PartsType DEF textsOf
  <2> QED BY <2>1, <2>2, FirstTextType
<1>3. ASSUME NEW type PROVE firstText(textsOf(<<p>>, type)) \in Texts
  <2>1. DOMAIN textsOf(<<p>>, type) = 1 .. 1
    BY DEF textsOf
  <2>2. textsOf(<<p>>, type)[1] \in Texts
    BY <1>1, PartsType DEF textsOf
  <2>3. DOMAIN textsOf(<<p>>, type) \subseteq Nat
        /\ \A i \in DOMAIN textsOf(<<p>>, type) : textsOf(<<p>>, type)[i] \in Texts
    BY <2>1, <2>2
  <2> QED BY <2>3, FirstTextType
<1>4. firstText(nested) \in Texts
  BY FirstTextType
<1> DEFINE five == <<firstText(textsOf(<<p>>, "plain")), firstText(textsOf(<<p>>, "html")),
                    firstText(textsOf(p.parts, "plain")), firstText(textsOf(p.parts, "html")),
                    firstText(nested)>>
<1>5. DOMAIN five \subseteq Nat /\ \A i \in DOMAIN five : five[i] \in Texts
  BY <1>2, <1>3, <1>4
<1>6. bodyOf(p, nested) = firstText(five)
  BY DEF bodyOf
<1> HIDE DEF five
<1> QED BY <1>5, <1>6, FirstTextType

\* extractBody is defined: what it says of a part comes down to its parts.
LEMMA ExtractBodyIs ==
  /\ extractBody \in [Payloads -> Texts]
  /\ \A p \in Payloads :
       extractBody[p] = bodyOf(p, [i \in DOMAIN p.parts |-> extractBody[p.parts[i]]])
<1> DEFINE B(p, f) == bodyOf(p, [i \in DOMAIN p.parts |-> f[p.parts[i]]])
           D == Payloads \X [Payloads -> Texts]
           h == [x \in D |-> B(x[1], x[2])]
<1>1. ASSUME NEW p \in Payloads, NEW f \in [Payloads -> Texts] PROVE B(p, f) \in Texts
  <2> DEFINE nested == [i \in DOMAIN p.parts |-> f[p.parts[i]]]
  <2>1. DOMAIN nested \subseteq Nat /\ \A i \in DOMAIN nested : nested[i] \in Texts
    BY PartsType
  <2> HIDE DEF nested
  <2>2. bodyOf(p, nested) \in Texts
    BY <2>1, BodyOfType
  <2> QED BY <2>2 DEF nested
<1>2. ASSUME NEW p, NEW f, NEW g, \A i \in DOMAIN p.parts : f[p.parts[i]] = g[p.parts[i]]
      PROVE  B(p, f) = B(p, g)
  <2>1. [i \in DOMAIN p.parts |-> f[p.parts[i]]] = [i \in DOMAIN p.parts |-> g[p.parts[i]]]
    BY <1>2
  <2> QED BY <2>1
<1>3. extractBody = CHOOSE g : g = [p \in Payloads |-> B(p, g)]
  BY DEF extractBody
<1> HIDE DEF B
<1>4. \A p \in Payloads, f \in [Payloads -> Texts] : <<p, f>> \in D /\ h[<<p, f>>] = B(p, f)
  OBVIOUS
<1>5. h \in [D -> Texts]
  BY <1>1
<1>6. IsLocal(Texts, h)
  <2> HIDE DEF h
  <2>1. ASSUME NEW p \in Payloads, NEW f \in [Payloads -> Texts], NEW g \in [Payloads -> Texts],
               \A i \in DOMAIN p.parts : f[p.parts[i]] = g[p.parts[i]]
        PROVE  h[<<p, f>>] = h[<<p, g>>]
    <3>1. B(p, f) = B(p, g)
      BY <1>2, <2>1
    <3> QED BY <1>4, <3>1
  <2> QED BY <1>5, <2>1 DEF IsLocal
<1>7. <<>> \in Texts
  BY DEF Texts
<1>8. PICK f \in [Payloads -> Texts] : \A p \in Payloads : f[p] = h[<<p, f>>]
  <2> HIDE DEF h
  <2> QED BY <1>6, <1>7, TreeRecursion
<1>9. f = [p \in Payloads |-> B(p, f)]
  <2> HIDE DEF h
  <2> QED BY <1>4, <1>8
<1>10. extractBody = [p \in Payloads |-> B(p, extractBody)]
  BY <1>9, <1>3
<1>11. \A p \in Payloads : extractBody[p] = f[p]
  <2> DEFINE Q == {p \in Payloads : extractBody[p] = f[p]}
  <2>1. ASSUME NEW p \in Payloads, \A i \in DOMAIN p.parts : p.parts[i] \in Q PROVE p \in Q
    <3>1. B(p, extractBody) = B(p, f)
      BY <1>2, <2>1
    <3> QED BY <1>9, <1>10, <3>1
  <2>2. Payloads \subseteq Q
    <3> HIDE DEF Q
    <3> QED BY <2>1, TreeInduction
  <2> QED BY <2>2
<1>12. extractBody \in [Payloads -> Texts]
  <2>1. extractBody = [p \in Payloads |-> f[p]]
    BY <1>10, <1>11
  <2> QED BY <1>8, <2>1
<1> QED BY <1>10, <1>12 DEF B

-----------------------------------------------------------------------------
(* The texts of a tree. *)

Leaf == [path : Seq(Nat), type : {"plain", "html"}, text : Texts \ {<<>>}]

\* The way to a leaf of the i-th part, from the tree that the part is in.
into(i, leaf) == [leaf EXCEPT !.path = <<i>> \o @]

LEMMA IntoIs ==
  ASSUME NEW i \in Nat, NEW leaf \in Leaf
  PROVE  /\ into(i, leaf) \in Leaf
         /\ into(i, leaf).type = leaf.type /\ into(i, leaf).text = leaf.text
         /\ Len(leaf.path) \in Nat /\ Len(into(i, leaf).path) = Len(leaf.path) + 1
         /\ DOMAIN leaf.path = 1 .. Len(leaf.path)
         /\ DOMAIN into(i, leaf).path = 1 .. Len(leaf.path) + 1
         /\ into(i, leaf).path[1] = i
         /\ \A k \in 1 .. Len(leaf.path) : into(i, leaf).path[k + 1] = leaf.path[k]
<1>1. leaf.path \in Seq(Nat) /\ <<i>> \in Seq(Nat) /\ Len(<<i>>) = 1 /\ <<i>>[1] = i
  BY DEF Leaf
<1> DEFINE way == <<i>> \o leaf.path
<1>2. into(i, leaf) = [leaf EXCEPT !.path = way]
  BY DEF into
<1>3. Joined(Nat, way, <<i>>, leaf.path)
  BY <1>1, ConcatJoins
<1> HIDE DEF way
<1>4. way \in Seq(Nat) /\ Len(way) = 1 + Len(leaf.path) /\ Len(leaf.path) \in Nat
      /\ way[1] = i /\ \A k \in 1 .. Len(leaf.path) : way[1 + k] = leaf.path[k]
  BY <1>1, <1>3 DEF Joined
<1>5. into(i, leaf).path = way /\ into(i, leaf).type = leaf.type /\ into(i, leaf).text = leaf.text
      /\ into(i, leaf) \in Leaf
  BY <1>2, <1>4 DEF Leaf
<1>6. DOMAIN leaf.path = 1 .. Len(leaf.path) /\ DOMAIN way = 1 .. Len(way)
  BY <1>1, <1>4, LenProperties
<1> QED BY <1>4, <1>5, <1>6

\* textLeaves is defined, like extractBody.
LEMMA TextLeavesAre ==
  /\ textLeaves \in [Payloads -> SUBSET Leaf]
  /\ \A p \in Payloads :
       textLeaves[p] =
         IF isText(p) THEN {[path |-> <<>>, type |-> p.mimeType, text |-> p.data]}
         ELSE UNION {{into(i, leaf) : leaf \in textLeaves[p.parts[i]]} : i \in DOMAIN p.parts}
<1> DEFINE T(p, f) ==
             IF isText(p) THEN {[path |-> <<>>, type |-> p.mimeType, text |-> p.data]}
             ELSE UNION {{into(i, leaf) : leaf \in f[p.parts[i]]} : i \in DOMAIN p.parts}
           V == SUBSET Leaf
           D == Payloads \X [Payloads -> V]
           h == [x \in D |-> T(x[1], x[2])]
<1>1. ASSUME NEW p \in Payloads, NEW f \in [Payloads -> V] PROVE T(p, f) \in V
  <2>1. CASE isText(p)
    <3>1. [path |-> <<>>, type |-> p.mimeType, text |-> p.data] \in Leaf
      <4>1. <<>> \in Seq(Nat)
        BY EmptySeq
      <4> QED BY <2>1, <4>1, PartsType DEF isText, Leaf
    <3> QED BY <2>1, <3>1
  <2>2. CASE ~isText(p)
    <3>1. ASSUME NEW i \in DOMAIN p.parts, NEW leaf \in f[p.parts[i]] PROVE into(i, leaf) \in Leaf
      <4>1. p.parts[i] \in Payloads /\ i \in Nat
        BY PartsType
      <4>2. leaf \in Leaf
        BY <4>1
      <4> QED BY <4>1, <4>2, IntoIs
    <3> QED BY <2>2, <3>1
  <2> QED BY <2>1, <2>2
<1>2. ASSUME NEW p, NEW f, NEW g, \A i \in DOMAIN p.parts : f[p.parts[i]] = g[p.parts[i]]
      PROVE  T(p, f) = T(p, g)
  <2>1. {{into(i, leaf) : leaf \in f[p.parts[i]]} : i \in DOMAIN p.parts}
          = {{into(i, leaf) : leaf \in g[p.parts[i]]} : i \in DOMAIN p.parts}
    BY <1>2
  <2> QED BY <2>1
<1>3. textLeaves = CHOOSE g : g = [p \in Payloads |-> T(p, g)]
  BY DEF textLeaves, into
<1> HIDE DEF T
<1>4. \A p \in Payloads, f \in [Payloads -> V] : <<p, f>> \in D /\ h[<<p, f>>] = T(p, f)
  OBVIOUS
<1>5. h \in [D -> V]
  BY <1>1
<1>6. IsLocal(V, h)
  <2> HIDE DEF h, V
  <2>1. ASSUME NEW p \in Payloads, NEW f \in [Payloads -> V], NEW g \in [Payloads -> V],
               \A i \in DOMAIN p.parts : f[p.parts[i]] = g[p.parts[i]]
        PROVE  h[<<p, f>>] = h[<<p, g>>]
    <3>1. T(p, f) = T(p, g)
      BY <1>2, <2>1
    <3> QED BY <1>4, <3>1
  <2> QED BY <1>5, <2>1 DEF IsLocal
<1>7. {} \in V
  OBVIOUS
<1>8. PICK f \in [Payloads -> V] : \A p \in Payloads : f[p] = h[<<p, f>>]
  <2> HIDE DEF h, V
  <2> QED BY <1>6, <1>7, TreeRecursion
<1>9. f = [p \in Payloads |-> T(p, f)]
  <2> HIDE DEF h, V
  <2> QED BY <1>4, <1>8
<1>10. textLeaves = [p \in Payloads |-> T(p, textLeaves)]
  BY <1>3, <1>9
<1>11. \A p \in Payloads : textLeaves[p] = f[p]
  <2> DEFINE Q == {p \in Payloads : textLeaves[p] = f[p]}
  <2>1. ASSUME NEW p \in Payloads, \A i \in DOMAIN p.parts : p.parts[i] \in Q PROVE p \in Q
    <3>1. T(p, textLeaves) = T(p, f)
      BY <1>2, <2>1
    <3> QED BY <1>9, <1>10, <3>1
  <2>2. Payloads \subseteq Q
    <3> HIDE DEF Q
    <3> QED BY <2>1, TreeInduction
  <2> QED BY <2>2
<1>12. textLeaves \in [Payloads -> V]
  <2>1. textLeaves = [p \in Payloads |-> f[p]]
    BY <1>10, <1>11
  <2> QED BY <1>8, <2>1
<1> QED BY <1>10, <1>12 DEF T

\* The text that a part is, or those of the parts in it.
LEMMA LeavesOf ==
  ASSUME NEW p \in Payloads
  PROVE  /\ textLeaves[p] \subseteq Leaf
         /\ isText(p) => textLeaves[p] = {[path |-> <<>>, type |-> p.mimeType, text |-> p.data]}
         /\ ~isText(p) =>
              /\ \A i \in DOMAIN p.parts : \A l \in textLeaves[p.parts[i]] :
                   into(i, l) \in textLeaves[p]
              /\ \A k \in textLeaves[p] : \E i \in DOMAIN p.parts :
                   \E l \in textLeaves[p.parts[i]] : k = into(i, l)
BY TextLeavesAre

-----------------------------------------------------------------------------
(* The order of the walk: where the ways to two texts part, and which of the *)
(* two extractBody takes.                                                    *)

\* The first place at which two ways part.
fork(j, k) ==
  CHOOSE i \in DOMAIN j.path : /\ i \in DOMAIN k.path
                               /\ j.path[i] # k.path[i]
                               /\ \A h \in 1 .. i - 1 : j.path[h] = k.path[h]

\* Where the ways part, a text is taken before what is nested deeper, plain text
\* before HTML, and what comes first before what comes later.
walksFirst(j, k) ==
  LET at == fork(j, k)
      class(leaf) == IF Len(leaf.path) > at THEN 3 ELSE IF leaf.type = "html" THEN 2 ELSE 1
  IN \/ class(j) < class(k)
     \/ class(j) = class(k) /\ j.path[at] < k.path[at]

\* A text that is taken before all others.
IsFirstOf(body, part) ==
  LET leaves == textLeaves[part] IN
  IF leaves = {} THEN body = <<>>
  ELSE \E leaf \in leaves :
         /\ leaf.text = body
         /\ \A other \in leaves \ {leaf} : walksFirst(leaf, other)

isFork(j, k, i) ==
  /\ i \in DOMAIN j.path /\ i \in DOMAIN k.path
  /\ j.path[i] # k.path[i]
  /\ \A h \in 1 .. i - 1 : j.path[h] = k.path[h]

classAt(leaf, at) == IF Len(leaf.path) > at THEN 3 ELSE IF leaf.type = "html" THEN 2 ELSE 1

LEMMA ForkIs ==
  ASSUME NEW j \in Leaf, NEW k \in Leaf, NEW i, isFork(j, k, i)
  PROVE  fork(j, k) = i /\ i \in Nat \ {0}
<1> DEFINE D == DOMAIN j.path
           F(h) == h \in DOMAIN k.path /\ j.path[h] # k.path[h]
                   /\ \A g \in 1 .. h - 1 : j.path[g] = k.path[g]
<1>1. D \subseteq Nat \ {0}
  BY LenProperties DEF Leaf
<1>2. i \in D /\ F(i)
  BY DEF isFork
<1>3. ASSUME NEW h \in D, F(h) PROVE h = i
  <2>1. h \in Nat \ {0} /\ i \in Nat \ {0}
    BY <1>1, <1>2
  <2>2. ~(h < i)
    <3> SUFFICES ASSUME h < i PROVE FALSE
      OBVIOUS
    <3>1. h \in 1 .. i - 1
      BY <2>1
    <3> QED BY <1>2, <1>3, <3>1
  <2>3. ~(i < h)
    <3> SUFFICES ASSUME i < h PROVE FALSE
      OBVIOUS
    <3>1. i \in 1 .. h - 1
      BY <2>1
    <3> QED BY <1>2, <1>3, <3>1
  <2> QED BY <2>1, <2>2, <2>3
<1>4. fork(j, k) = CHOOSE h \in D : F(h)
  BY DEF fork
<1> HIDE DEF D, F
<1> QED BY <1>1, <1>2, <1>3, <1>4

LEMMA WalksFirstIs ==
  ASSUME NEW j \in Leaf, NEW k \in Leaf, NEW i, isFork(j, k, i)
  PROVE  walksFirst(j, k) <=>
           \/ classAt(j, i) < classAt(k, i)
           \/ classAt(j, i) = classAt(k, i) /\ j.path[i] < k.path[i]
<1>1. fork(j, k) = i
  BY ForkIs
<1> QED BY <1>1 DEF walksFirst, classAt

LEMMA ForkInto ==
  ASSUME NEW j \in Leaf, NEW k \in Leaf, NEW f, isFork(j, k, f), NEW i \in Nat
  PROVE  /\ isFork(into(i, j), into(i, k), f + 1)
         /\ walksFirst(j, k) => walksFirst(into(i, j), into(i, k))
<1> DEFINE J == into(i, j)
           K == into(i, k)
<1>1. /\ J \in Leaf /\ J.type = j.type /\ Len(j.path) \in Nat /\ Len(J.path) = Len(j.path) + 1
      /\ DOMAIN j.path = 1 .. Len(j.path) /\ DOMAIN J.path = 1 .. Len(j.path) + 1 /\ J.path[1] = i
      /\ \A h \in 1 .. Len(j.path) : J.path[h + 1] = j.path[h]
  BY IntoIs
<1>2. /\ K \in Leaf /\ K.type = k.type /\ Len(k.path) \in Nat /\ Len(K.path) = Len(k.path) + 1
      /\ DOMAIN k.path = 1 .. Len(k.path) /\ DOMAIN K.path = 1 .. Len(k.path) + 1 /\ K.path[1] = i
      /\ \A h \in 1 .. Len(k.path) : K.path[h + 1] = k.path[h]
  BY IntoIs
<1> HIDE DEF J, K
<1>3. f \in Nat \ {0} /\ f <= Len(j.path) /\ f <= Len(k.path) /\ j.path[f] # k.path[f]
      /\ \A h \in 1 .. f - 1 : j.path[h] = k.path[h]
  BY <1>1, <1>2, ForkIs DEF isFork
<1>4. J.path[f + 1] = j.path[f] /\ K.path[f + 1] = k.path[f]
  BY <1>1, <1>2, <1>3
<1>5. f + 1 \in DOMAIN J.path /\ f + 1 \in DOMAIN K.path
  BY <1>1, <1>2, <1>3
<1>6. ASSUME NEW h \in 1 .. (f + 1) - 1 PROVE J.path[h] = K.path[h]
  <2>1. CASE h = 1
    BY <1>1, <1>2, <2>1
  <2>2. CASE h # 1
    <3>1. h - 1 \in 1 .. f - 1 /\ h - 1 \in 1 .. Len(j.path) /\ h - 1 \in 1 .. Len(k.path)
          /\ (h - 1) + 1 = h
      BY <1>1, <1>2, <1>3, <2>2
    <3>2. J.path[h] = j.path[h - 1] /\ K.path[h] = k.path[h - 1]
      BY <1>1, <1>2, <3>1
    <3> QED BY <1>3, <3>1, <3>2
  <2> QED BY <2>1, <2>2
<1>7. isFork(J, K, f + 1)
  BY <1>3, <1>4, <1>5, <1>6 DEF isFork
<1>8. classAt(J, f + 1) = classAt(j, f) /\ classAt(K, f + 1) = classAt(k, f)
  BY <1>1, <1>2, <1>3 DEF classAt
<1>9. walksFirst(j, k) => walksFirst(J, K)
  BY <1>1, <1>2, <1>4, <1>7, <1>8, WalksFirstIs
<1> QED BY <1>7, <1>9 DEF J, K

LEMMA ForkApart ==
  ASSUME NEW j \in Leaf, NEW k \in Leaf, NEW i \in Nat, NEW m \in Nat, i # m
  PROVE  isFork(into(i, j), into(m, k), 1)
<1>1. /\ 1 \in DOMAIN into(i, j).path /\ 1 \in DOMAIN into(m, k).path
      /\ into(i, j).path[1] = i /\ into(m, k).path[1] = m
  BY IntoIs
<1>2. \A h \in 1 .. 1 - 1 : FALSE
  OBVIOUS
<1> QED BY <1>1, <1>2 DEF isFork

LEMMA LeavesFork ==
  \A p \in Payloads : \A j, k \in textLeaves[p] : j # k => \E f : isFork(j, k, f)
<1> DEFINE Q == {p \in Payloads : \A j, k \in textLeaves[p] : j # k => \E f : isFork(j, k, f)}
<1>1. ASSUME NEW p \in Payloads, \A i \in DOMAIN p.parts : p.parts[i] \in Q PROVE p \in Q
  <2>1. CASE isText(p)
    BY <2>1, LeavesOf
  <2>2. CASE ~isText(p)
    <3> SUFFICES ASSUME NEW j \in textLeaves[p], NEW k \in textLeaves[p], j # k
                 PROVE  \E f : isFork(j, k, f)
      OBVIOUS
    <3>1. PICK i \in DOMAIN p.parts : \E l \in textLeaves[p.parts[i]] : j = into(i, l)
      BY <2>2, LeavesOf
    <3>2. PICK l \in textLeaves[p.parts[i]] : j = into(i, l)
      BY <3>1
    <3>3. PICK m \in DOMAIN p.parts : \E o \in textLeaves[p.parts[m]] : k = into(m, o)
      BY <2>2, LeavesOf
    <3>4. PICK o \in textLeaves[p.parts[m]] : k = into(m, o)
      BY <3>3
    <3>5. i \in Nat /\ m \in Nat /\ p.parts[i] \in Payloads /\ p.parts[m] \in Payloads
      BY PartsType
    <3>6. l \in Leaf /\ o \in Leaf
      BY <3>5, LeavesOf
    <3>7. CASE i = m
      <4>1. PICK f : isFork(l, o, f)
        BY <1>1, <3>2, <3>4, <3>7
      <4> QED BY <3>2, <3>4, <3>5, <3>6, <3>7, <4>1, ForkInto
    <3>8. CASE i # m
      BY <3>2, <3>4, <3>5, <3>6, <3>8, ForkApart
    <3> QED BY <3>7, <3>8
  <2> QED BY <2>1, <2>2
<1>2. Payloads \subseteq Q
  <2> HIDE DEF Q
  <2> QED BY <1>1, TreeInduction
<1> QED BY <1>2

-----------------------------------------------------------------------------
(* The body is the text that is taken before all others. *)

LEMMA FirstOfFive ==
  ASSUME NEW a, NEW b, NEW c, NEW d, NEW e
  PROVE  firstText(<<a, b, c, d, e>>) =
           IF a # <<>> THEN a ELSE IF b # <<>> THEN b ELSE IF c # <<>> THEN c
           ELSE IF d # <<>> THEN d ELSE e
<1> DEFINE t == <<a, b, c, d, e>>
<1>1. DOMAIN t = 1 .. 5 /\ t[1] = a /\ t[2] = b /\ t[3] = c /\ t[4] = d /\ t[5] = e
  OBVIOUS
<1> HIDE DEF t
<1>2. CASE \A i \in DOMAIN t : t[i] = <<>>
  <2>1. firstText(t) = <<>>
    BY <1>1, <1>2, FirstText
  <2> QED BY <1>1, <1>2, <2>1 DEF t
<1>3. ASSUME NEW i \in DOMAIN t, t[i] # <<>>, firstText(t) = t[i],
             \A j \in DOMAIN t : j < i => t[j] = <<>>
      PROVE  firstText(t) = IF a # <<>> THEN a ELSE IF b # <<>> THEN b ELSE IF c # <<>> THEN c
                            ELSE IF d # <<>> THEN d ELSE e
  <2>1. i \in 1 .. 5 /\ \A j \in 1 .. 5 : j < i => t[j] = <<>>
    BY <1>1, <1>3
  <2>2. CASE i = 1
    BY <1>1, <1>3, <2>2
  <2>3. CASE i = 2
    BY <1>1, <1>3, <2>1, <2>3
  <2>4. CASE i = 3
    BY <1>1, <1>3, <2>1, <2>4
  <2>5. CASE i = 4
    BY <1>1, <1>3, <2>1, <2>5
  <2>6. CASE i = 5
    BY <1>1, <1>3, <2>1, <2>6
  <2> QED BY <2>1, <2>2, <2>3, <2>4, <2>5, <2>6
<1>4. DOMAIN t \subseteq Nat
  BY <1>1
<1> QED BY <1>2, <1>3, <1>4, FirstText DEF t

\* The i-th part is the first text of a type.
isFirst(p, type, i) ==
  /\ i \in DOMAIN p.parts /\ p.parts[i].mimeType = type /\ p.parts[i].data # <<>>
  /\ \A j \in DOMAIN p.parts :
       j < i => ~(p.parts[j].mimeType = type /\ p.parts[j].data # <<>>)

hasText(p, type) ==
  \E i \in DOMAIN p.parts : p.parts[i].mimeType = type /\ p.parts[i].data # <<>>

LEMMA FirstOfType ==
  ASSUME NEW p \in Payloads, NEW type
  PROVE  LET first == firstText(textsOf(p.parts, type)) IN
         /\ ~hasText(p, type) => first = <<>>
         /\ hasText(p, type) => first # <<>> /\ \E i : isFirst(p, type, i) /\ first = p.parts[i].data
<1> DEFINE t == textsOf(p.parts, type)
<1>1. DOMAIN t = DOMAIN p.parts /\ DOMAIN t \subseteq Nat
      /\ \A i \in DOMAIN t : t[i] = IF p.parts[i].mimeType = type THEN p.parts[i].data ELSE <<>>
  BY PartsType DEF textsOf
<1> HIDE DEF t
<1>2. CASE ~hasText(p, type)
  <2>1. \A i \in DOMAIN t : t[i] = <<>>
    BY <1>1, <1>2 DEF hasText
  <2>2. firstText(t) = <<>>
    BY <1>1, <2>1, FirstText
  <2> QED BY <1>2, <2>2 DEF t
<1>3. CASE hasText(p, type)
  <2>1. \E i \in DOMAIN t : t[i] # <<>>
    BY <1>1, <1>3 DEF hasText
  <2>2. PICK i \in DOMAIN t : /\ t[i] # <<>> /\ firstText(t) = t[i]
                             /\ \A j \in DOMAIN t : j < i => t[j] = <<>>
    BY <1>1, <2>1, FirstText
  <2>3. isFirst(p, type, i) /\ firstText(t) = p.parts[i].data
    BY <1>1, <2>2 DEF isFirst
  <2> QED BY <1>3, <2>2, <2>3 DEF t
<1> QED BY <1>2, <1>3

LEMMA FirstOfItself ==
  ASSUME NEW p \in Payloads, NEW type
  PROVE  firstText(textsOf(<<p>>, type)) = IF p.mimeType = type THEN p.data ELSE <<>>
<1> DEFINE t == textsOf(<<p>>, type)
<1>1. DOMAIN t = 1 .. 1 /\ t[1] = IF p.mimeType = type THEN p.data ELSE <<>>
  BY DEF textsOf
<1> HIDE DEF t
<1>2. DOMAIN t \subseteq Nat
  BY <1>1
<1>3. CASE \A i \in DOMAIN t : t[i] = <<>>
  BY <1>1, <1>2, <1>3, FirstText DEF t
<1>4. ASSUME NEW i \in DOMAIN t, firstText(t) = t[i] PROVE firstText(t) = t[1]
  BY <1>1, <1>4
<1> QED BY <1>1, <1>2, <1>3, <1>4, FirstText DEF t

\* What bodyOf says, case by case.
LEMMA BodyOfIs ==
  ASSUME NEW p \in Payloads, NEW nested
  PROVE  /\ isText(p) => bodyOf(p, nested) = p.data
         /\ ~isText(p) /\ hasText(p, "plain") =>
              \E i : isFirst(p, "plain", i) /\ bodyOf(p, nested) = p.parts[i].data
         /\ ~isText(p) /\ ~hasText(p, "plain") /\ hasText(p, "html") =>
              \E i : isFirst(p, "html", i) /\ bodyOf(p, nested) = p.parts[i].data
         /\ ~isText(p) /\ ~hasText(p, "plain") /\ ~hasText(p, "html") =>
              bodyOf(p, nested) = firstText(nested)
<1> DEFINE a == firstText(textsOf(<<p>>, "plain"))
           b == firstText(textsOf(<<p>>, "html"))
           c == firstText(textsOf(p.parts, "plain"))
           d == firstText(textsOf(p.parts, "html"))
           e == firstText(nested)
<1>1. a = IF p.mimeType = "plain" THEN p.data ELSE <<>>
  BY FirstOfItself
<1>2. b = IF p.mimeType = "html" THEN p.data ELSE <<>>
  BY FirstOfItself
<1>3. /\ ~hasText(p, "plain") => c = <<>>
      /\ hasText(p, "plain") => c # <<>> /\ \E i : isFirst(p, "plain", i) /\ c = p.parts[i].data
  BY FirstOfType
<1>4. /\ ~hasText(p, "html") => d = <<>>
      /\ hasText(p, "html") => d # <<>> /\ \E i : isFirst(p, "html", i) /\ d = p.parts[i].data
  BY FirstOfType
<1>5. bodyOf(p, nested) = firstText(<<a, b, c, d, e>>)
  BY DEF bodyOf
<1> HIDE DEF a, b, c, d
<1>6. bodyOf(p, nested) = IF a # <<>> THEN a ELSE IF b # <<>> THEN b ELSE IF c # <<>> THEN c
                          ELSE IF d # <<>> THEN d ELSE e
  BY <1>5, FirstOfFive
<1>7. isText(p) => bodyOf(p, nested) = p.data
  BY <1>1, <1>2, <1>6 DEF isText
<1>8. ~isText(p) => a = <<>> /\ b = <<>>
  BY <1>1, <1>2 DEF isText
<1> QED BY <1>3, <1>4, <1>6, <1>7, <1>8

LEMMA DepthOf ==
  ASSUME NEW q \in Payloads, NEW l \in textLeaves[q], NEW i \in Nat
  PROVE  /\ l \in Leaf
         /\ isText(q) => l = [path |-> <<>>, type |-> q.mimeType, text |-> q.data]
         /\ classAt(into(i, l), 1) =
              IF isText(q) THEN IF q.mimeType = "html" THEN 2 ELSE 1 ELSE 3
<1>1. l \in Leaf
  BY LeavesOf
<1>2. Len(into(i, l).path) = Len(l.path) + 1 /\ into(i, l).type = l.type /\ Len(l.path) \in Nat
  BY <1>1, IntoIs
<1>3. CASE isText(q)
  <2>1. l = [path |-> <<>>, type |-> q.mimeType, text |-> q.data]
    BY <1>3, LeavesOf
  <2>2. Len(l.path) = 0 /\ l.type = q.mimeType
    BY <2>1, EmptySeq
  <2> QED BY <1>1, <1>2, <1>3, <2>1, <2>2 DEF classAt
<1>4. CASE ~isText(q)
  <2>1. PICK m \in DOMAIN q.parts : \E o \in textLeaves[q.parts[m]] : l = into(m, o)
    BY <1>4, LeavesOf
  <2>2. PICK o \in textLeaves[q.parts[m]] : l = into(m, o)
    BY <2>1
  <2>3. q.parts[m] \in Payloads /\ m \in Nat
    BY PartsType
  <2>4. o \in Leaf
    BY <2>3, LeavesOf
  <2>5. Len(l.path) = Len(o.path) + 1 /\ Len(o.path) \in Nat
    BY <2>2, <2>3, <2>4, IntoIs
  <2> QED BY <1>1, <1>2, <1>4, <2>5 DEF classAt
<1> QED BY <1>3, <1>4

\* A text that is a part of the multipart itself.
LEMMA DirectText ==
  ASSUME NEW p \in Payloads, ~isText(p), NEW type \in {"plain", "html"},
         NEW i, isFirst(p, type, i), type = "html" => ~hasText(p, "plain")
  PROVE  IsFirstOf(p.parts[i].data, p)
<1>1. i \in DOMAIN p.parts /\ i \in Nat /\ p.parts[i] \in Payloads
      /\ p.parts[i].mimeType = type /\ isText(p.parts[i])
  BY PartsType DEF isFirst, isText
<1> DEFINE l == [path |-> <<>>, type |-> p.parts[i].mimeType, text |-> p.parts[i].data]
<1>2. textLeaves[p.parts[i]] = {l}
  BY <1>1, LeavesOf
<1>3. l \in textLeaves[p.parts[i]] /\ l \in Leaf
  BY <1>1, <1>2, LeavesOf
<1>4. l.text = p.parts[i].data
  OBVIOUS
<1> HIDE DEF l
<1>5. into(i, l) \in textLeaves[p] /\ into(i, l).text = p.parts[i].data
      /\ into(i, l) \in Leaf /\ into(i, l).path[1] = i
  BY <1>1, <1>3, <1>4, LeavesOf, IntoIs
<1>6. classAt(into(i, l), 1) = IF type = "html" THEN 2 ELSE 1
  BY <1>1, <1>3, DepthOf
<1>7. ASSUME NEW other \in textLeaves[p] \ {into(i, l)} PROVE walksFirst(into(i, l), other)
  <2>1. PICK m \in DOMAIN p.parts : \E o \in textLeaves[p.parts[m]] : other = into(m, o)
    BY LeavesOf
  <2>2. PICK o \in textLeaves[p.parts[m]] : other = into(m, o)
    BY <2>1
  <2>3. m \in Nat /\ p.parts[m] \in Payloads
    BY PartsType
  <2>4. o \in Leaf
    BY <2>3, LeavesOf
  <2>5. m # i
    BY <1>2, <1>7, <2>2
  <2>6. isFork(into(i, l), other, 1) /\ other \in Leaf /\ other.path[1] = m
    BY <1>1, <1>3, <2>2, <2>3, <2>4, <2>5, ForkApart, IntoIs
  <2>7. classAt(other, 1) = IF isText(p.parts[m])
                            THEN IF p.parts[m].mimeType = "html" THEN 2 ELSE 1 ELSE 3
    BY <2>2, <2>3, DepthOf
  <2>8. CASE ~isText(p.parts[m])
    BY <1>5, <1>6, <2>6, <2>7, <2>8, WalksFirstIs
  <2>9. CASE isText(p.parts[m])
    <3>1. CASE p.parts[m].mimeType = type
      <4>1. p.parts[m].data # <<>>
        BY <2>9 DEF isText
      <4>2. ~(m < i)
        BY <3>1, <4>1 DEF isFirst
      <4>3. i < m
        BY <1>1, <2>3, <2>5, <4>2
      <4>4. classAt(other, 1) = IF type = "html" THEN 2 ELSE 1
        BY <2>7, <2>9, <3>1
      <4> QED BY <1>5, <1>6, <2>6, <4>3, <4>4, WalksFirstIs
    <3>2. CASE p.parts[m].mimeType # type
      <4>1. type = "plain" /\ p.parts[m].mimeType = "html"
        BY <2>9, <3>2 DEF isText, hasText
      <4>2. classAt(into(i, l), 1) = 1 /\ classAt(other, 1) = 2
        BY <1>6, <2>7, <2>9, <4>1
      <4> QED BY <1>5, <2>6, <4>2, WalksFirstIs
    <3> QED BY <3>1, <3>2
  <2> QED BY <2>8, <2>9
<1>8. textLeaves[p] # {}
  BY <1>5
<1> QED BY <1>5, <1>7, <1>8 DEF IsFirstOf

\* No text but in the parts of the parts.
LEMMA NestedText ==
  ASSUME NEW p \in Payloads, ~isText(p), ~hasText(p, "plain"), ~hasText(p, "html"),
         NEW nested, DOMAIN nested = DOMAIN p.parts,
         \A i \in DOMAIN p.parts : IsFirstOf(nested[i], p.parts[i])
  PROVE  IsFirstOf(firstText(nested), p)
<1>1. DOMAIN nested \subseteq Nat
      /\ \A i \in DOMAIN p.parts : i \in Nat /\ p.parts[i] \in Payloads /\ ~isText(p.parts[i])
  BY PartsType DEF isText, hasText
<1>2. ASSUME NEW i \in DOMAIN p.parts PROVE textLeaves[p.parts[i]] = {} <=> nested[i] = <<>>
  <2>1. \A l \in textLeaves[p.parts[i]] : l.text # <<>>
    BY <1>1, LeavesOf DEF Leaf
  <2>2. IsFirstOf(nested[i], p.parts[i])
    OBVIOUS
  <2> QED BY <2>1, <2>2 DEF IsFirstOf
<1>3. CASE \A i \in DOMAIN nested : nested[i] = <<>>
  <2>1. firstText(nested) = <<>>
    BY <1>1, <1>3, FirstText
  <2>2. textLeaves[p] = {}
    BY <1>2, <1>3, LeavesOf
  <2> QED BY <2>1, <2>2 DEF IsFirstOf
<1>4. ASSUME NEW i \in DOMAIN nested, nested[i] # <<>>, firstText(nested) = nested[i],
             \A m \in DOMAIN nested : m < i => nested[m] = <<>>
      PROVE  IsFirstOf(firstText(nested), p)
  <2>1. textLeaves[p.parts[i]] # {} /\ IsFirstOf(nested[i], p.parts[i])
    BY <1>2, <1>4
  <2>2. PICK l \in textLeaves[p.parts[i]] :
               /\ l.text = nested[i]
               /\ \A o \in textLeaves[p.parts[i]] \ {l} : walksFirst(l, o)
    BY <2>1 DEF IsFirstOf
  <2>3. l \in Leaf /\ classAt(into(i, l), 1) = 3
    BY <1>1, DepthOf
  <2>4. into(i, l) \in textLeaves[p] /\ into(i, l).text = firstText(nested)
        /\ into(i, l) \in Leaf /\ into(i, l).path[1] = i
    BY <1>1, <1>4, <2>2, <2>3, LeavesOf, IntoIs
  <2>5. ASSUME NEW other \in textLeaves[p] \ {into(i, l)} PROVE walksFirst(into(i, l), other)
    <3>1. PICK m \in DOMAIN p.parts : \E o \in textLeaves[p.parts[m]] : other = into(m, o)
      BY LeavesOf
    <3>2. PICK o \in textLeaves[p.parts[m]] : other = into(m, o)
      BY <3>1
    <3>3. m \in Nat /\ p.parts[m] \in Payloads
      BY <1>1
    <3>4. o \in Leaf /\ classAt(other, 1) = 3
      BY <1>1, <3>2, <3>3, DepthOf
    <3>5. CASE m = i
      <4>1. o # l /\ o \in textLeaves[p.parts[i]]
        BY <2>5, <3>2, <3>5
      <4>2. walksFirst(l, o)
        BY <2>2, <4>1
      <4>3. PICK f : isFork(l, o, f)
        BY <3>3, <3>5, <4>1, LeavesFork
      <4> QED BY <2>3, <3>2, <3>3, <3>4, <3>5, <4>2, <4>3, ForkInto
    <3>6. CASE m # i
      <4>1. nested[m] # <<>>
        BY <1>2, <3>2
      <4>2. i < m
        BY <1>1, <1>4, <3>3, <3>6, <4>1
      <4>3. isFork(into(i, l), other, 1) /\ other \in Leaf /\ other.path[1] = m
        BY <1>1, <2>3, <3>2, <3>3, <3>4, <3>6, ForkApart, IntoIs
      <4> QED BY <2>3, <2>4, <3>4, <4>2, <4>3, WalksFirstIs
    <3> QED BY <3>5, <3>6
  <2> QED BY <2>4, <2>5 DEF IsFirstOf
<1> QED BY <1>1, <1>3, <1>4, FirstText

LEMMA ExtractBodyTakes == \A p \in Payloads : IsFirstOf(extractBody[p], p)
<1> DEFINE Q == {p \in Payloads : IsFirstOf(extractBody[p], p)}
<1>1. ASSUME NEW p \in Payloads, \A i \in DOMAIN p.parts : p.parts[i] \in Q PROVE p \in Q
  <2> DEFINE nested == [i \in DOMAIN p.parts |-> extractBody[p.parts[i]]]
  <2>1. extractBody[p] = bodyOf(p, nested)
    BY ExtractBodyIs
  <2>2. DOMAIN nested = DOMAIN p.parts /\ \A i \in DOMAIN p.parts : IsFirstOf(nested[i], p.parts[i])
    BY <1>1
  <2> HIDE DEF nested
  <2>3. CASE isText(p)
    <3> DEFINE l == [path |-> <<>>, type |-> p.mimeType, text |-> p.data]
    <3>1. textLeaves[p] = {l} /\ l.text = p.data
      BY <2>3, LeavesOf
    <3>2. bodyOf(p, nested) = p.data
      BY <2>3, BodyOfIs
    <3> HIDE DEF l
    <3>3. IsFirstOf(p.data, p)
      BY <3>1 DEF IsFirstOf
    <3> QED BY <2>1, <3>2, <3>3
  <2>4. CASE ~isText(p) /\ hasText(p, "plain")
    <3>1. PICK i : isFirst(p, "plain", i) /\ bodyOf(p, nested) = p.parts[i].data
      BY <2>4, BodyOfIs
    <3>2. IsFirstOf(p.parts[i].data, p)
      BY <2>4, <3>1, DirectText
    <3> QED BY <2>1, <3>1, <3>2
  <2>5. CASE ~isText(p) /\ ~hasText(p, "plain") /\ hasText(p, "html")
    <3>1. PICK i : isFirst(p, "html", i) /\ bodyOf(p, nested) = p.parts[i].data
      BY <2>5, BodyOfIs
    <3>2. IsFirstOf(p.parts[i].data, p)
      BY <2>5, <3>1, DirectText
    <3> QED BY <2>1, <3>1, <3>2
  <2>6. CASE ~isText(p) /\ ~hasText(p, "plain") /\ ~hasText(p, "html")
    <3>1. bodyOf(p, nested) = firstText(nested)
      BY <2>6, BodyOfIs
    <3>2. IsFirstOf(firstText(nested), p)
      BY <2>2, <2>6, NestedText
    <3> QED BY <2>1, <3>1, <3>2
  <2> QED BY <2>3, <2>4, <2>5, <2>6
<1>2. Payloads \subseteq Q
  <2> HIDE DEF Q
  <2> QED BY <1>1, TreeInduction
<1> QED BY <1>2

\* The way to a text beside the one taken parts from it at its last step.
LEMMA BesideIt ==
  ASSUME NEW j \in Leaf, NEW k \in Leaf, NEW i, isFork(j, k, i), beside(j, k),
         j.type = "html", walksFirst(j, k)
  PROVE  k.type = "html"
<1>1. Len(j.path) \in Nat /\ Len(k.path) = Len(j.path) /\ DOMAIN j.path = 1 .. Len(j.path)
  BY LenProperties DEF Leaf, beside
<1>2. i = Len(j.path)
  BY <1>1 DEF isFork, beside
<1>3. classAt(j, i) = 2 /\ classAt(k, i) = IF k.type = "html" THEN 2 ELSE 1
  BY <1>1, <1>2 DEF classAt
<1> QED BY <1>3, WalksFirstIs

\* For every tree, however deep and wide: what extractBody takes is a text of the
\* message, and nothing only where there is none, and it is HTML only where no
\* plain text stands beside it.
THEOREM ExtractBodyFinds == \A p \in Payloads : IsBodyOf(extractBody[p], p)
<1> SUFFICES ASSUME NEW p \in Payloads PROVE IsBodyOf(extractBody[p], p)
  OBVIOUS
<1>1. IsFirstOf(extractBody[p], p)
  BY ExtractBodyTakes
<1>2. CASE textLeaves[p] = {}
  BY <1>1, <1>2 DEF IsFirstOf, IsBodyOf
<1>3. CASE textLeaves[p] # {}
  <2>1. PICK leaf \in textLeaves[p] :
          /\ leaf.text = extractBody[p]
          /\ \A other \in textLeaves[p] \ {leaf} : walksFirst(leaf, other)
    BY <1>1, <1>3 DEF IsFirstOf
  <2>2. ASSUME NEW other \in textLeaves[p], leaf.type = "html", beside(leaf, other)
        PROVE  other.type = "html"
    <3>1. CASE other = leaf
      BY <2>2, <3>1
    <3>2. CASE other # leaf
      <4>1. leaf \in Leaf /\ other \in Leaf
        BY LeavesOf
      <4>2. PICK i : isFork(leaf, other, i)
        BY <3>2, LeavesFork
      <4> QED BY <2>1, <2>2, <3>2, <4>1, <4>2, BesideIt
    <3> QED BY <3>1, <3>2
  <2> QED BY <1>3, <2>1, <2>2 DEF IsBodyOf
<1> QED BY <1>2, <1>3

-----------------------------------------------------------------------------
(* The properties. *)

BodyTaken == payload \in Payloads /\ email.body = extractBody[payload]

LEMMA KeepsTheBody == Spec => []BodyTaken
<1>1. Init => BodyTaken
  BY DEF Init, BodyTaken
<1>2. BodyTaken /\ [Next]_vars => BodyTaken'
  BY DEF BodyTaken, Next, vars, MessageGot, MessageFails, Succeeds, Fails, TimesOut
<1> QED BY <1>1, <1>2, PTL DEF Spec

LEMMA MadeIsPrefix ==
  ASSUME OfferOK, NEW n \in Nat, made(n)
  PROVE  /\ IsPrefix(tried, Reliability)
         /\ n = total => tried = Reliability
<1>1. tried \in Seq(Attempts) /\ Reliability \in Seq(Attempts) /\ Len(Reliability) = total
      /\ Len(tried) = n /\ n <= total /\ total \in Nat /\ \A i \in 1 .. n : tried[i] = Reliability[i]
  BY ReliabilityIs, WorkType DEF made
<1>2. SubSeq(tried, 1, n) = tried
  BY <1>1, SubSeqFull
<1> DEFINE first == SubSeq(Reliability, 1, n)
<1>3. \A i \in 1 .. n : Reliability[i] \in Attempts
  BY <1>1, ElementOfSeq
<1>4. first \in Seq(Attempts) /\ Len(first) = n /\ \A i \in 1 .. n : first[i] = Reliability[i]
  <2>1. first \in Seq(Attempts) /\ (Len(first) = IF 1 <= n THEN n - 1 + 1 ELSE 0)
        /\ \A i \in 1 .. n - 1 + 1 : first[i] = Reliability[1 + i - 1]
    BY <1>3, SubSeqProperties
  <2> HIDE DEF first
  <2> QED BY <2>1
<1>5. tried = first
  <2> HIDE DEF first
  <2> QED BY <1>1, <1>4, SeqEqual
<1>6. n = total => tried = Reliability
  BY <1>1, SeqEqual
<1> QED BY <1>1, <1>2, <1>5, <1>6 DEF IsPrefix

\* A request is made for what the message offers, and its answer is one there is.
THEOREM TypeCorrect == Spec => []TypeOK
<1>1. InOrderOfReliability /\ BodyTaken => TypeOK
  <2> SUFFICES ASSUME InOrderOfReliability, BodyTaken PROVE TypeOK
    OBVIOUS
  <2>1. email \in Offer /\ attempt \in Attempts \cup Outside /\ payload \in Payloads
    BY DEF InOrderOfReliability, OfferOK, BodyTaken
  <2>2. tried \in Seq(Attempts)
    <3>1. <<>> \in Seq(Attempts)
      BY EmptySeq
    <3> QED BY <3>1 DEF InOrderOfReliability, Outside, made
  <2>3. \A i \in DOMAIN tried : tried[i] \in Attempts
    BY <2>2, LenProperties, ElementOfSeq
  <2>4. \A s \in Stages : Method[s] \in {"header-http", "header-mailto", "body-link"}
    BY DEF Method, Stages
  <2>5. result \in {"pending", "header-http", "header-mailto", "body-link", "none", "error"}
    BY <2>4 DEF InOrderOfReliability, Outside
  <2> QED BY <2>1, <2>3, <2>5 DEF TypeOK
<1> QED BY <1>1, KeepsTheOrder, KeepsTheBody, PTL

\* Whatever fails or times out, the requests made are a first part of the order
\* of reliability, for any number of links.
THEOREM ReliableFirst == Spec => []MostReliableFirst
<1>1. InOrderOfReliability => MostReliableFirst
  <2> SUFFICES ASSUME InOrderOfReliability PROVE IsPrefix(tried, Reliability)
    BY DEF MostReliableFirst
  <2>1. OfferOK /\ attempt \in Attempts \cup Outside
    BY DEF InOrderOfReliability
  <2>2. \E n \in Nat : made(n)
    <3>1. tried = <<>> => made(0)
      <4>1. <<>> \in Seq(Attempts) /\ Len(<<>>) = 0 /\ Len(Reliability) \in Nat
        BY <2>1, EmptySeq, ReliabilityIs, WorkType
      <4> QED BY <4>1 DEF made
    <3>2. CASE attempt \in Attempts
      <4>1. base(attempt[1]) + attempt[2] \in Nat
        BY <2>1, <3>2, AttemptType, WorkType
      <4> QED BY <3>2, <4>1 DEF InOrderOfReliability
    <3>3. CASE attempt = <<"fetching">>
      BY <3>1, <3>3 DEF InOrderOfReliability
    <3>4. CASE attempt = <<"answered">>
      <4>1. total \in Nat /\ \A s \in Stages : \A k \in 1 .. work(s) : base(s) + k \in Nat
        BY <2>1, WorkType
      <4> QED BY <3>1, <3>4, <4>1 DEF InOrderOfReliability
    <3> QED BY <2>1, <3>2, <3>3, <3>4 DEF Outside
  <2> QED BY <2>1, <2>2, MadeIsPrefix
<1> QED BY <1>1, KeepsTheOrder, PTL

\* A failure is reported only when everything the message offers was tried, and
\* a success is that of the last request made.
THEOREM ExhaustsTheOffer == Spec => []FailureIsExhaustive
<1>1. InOrderOfReliability => FailureIsExhaustive
  <2> SUFFICES ASSUME InOrderOfReliability PROVE FailureIsExhaustive
    OBVIOUS
  <2>1. OfferOK /\ attempt \in Attempts \cup Outside
    BY DEF InOrderOfReliability
  <2>2. CASE attempt # <<"answered">>
    BY <2>1, <2>2 DEF InOrderOfReliability, Outside, FailureIsExhaustive
  <2>3. CASE attempt = <<"answered">> /\ result = "error"
    BY <2>3 DEF FailureIsExhaustive
  <2>4. CASE attempt = <<"answered">> /\ result = "none" /\ made(total)
    BY <2>1, <2>4, MadeIsPrefix, WorkType DEF FailureIsExhaustive
  <2>5. ASSUME NEW s \in Stages, NEW k \in 1 .. work(s), result = Method[s], made(base(s) + k)
        PROVE  FailureIsExhaustive
    <3>1. base(s) \in Nat /\ work(s) \in Nat /\ base(s) + k \in Nat \ {0}
      BY <2>1, WorkType
    <3>2. Reliability[base(s) + k] = <<s, k>>
      BY <2>1, ReliabilityIs
    <3>3. Len(tried) = base(s) + k /\ tried[base(s) + k] = <<s, k>>
      BY <3>1, <3>2, <2>5 DEF made
    <3>4. tried # <<>>
      BY <3>1, <3>3, EmptySeq
    <3>5. Last(tried)[1] = s
      BY <3>3 DEF Last
    <3>6. result # "none"
      BY <2>5 DEF Method, Stages
    <3> QED BY <2>5, <3>4, <3>5, <3>6 DEF FailureIsExhaustive
  <2> QED BY <2>2, <2>3, <2>4, <2>5 DEF InOrderOfReliability
<1> QED BY <1>1, KeepsTheOrder, PTL

\* Whatever the shape of the message and however deep its parts are nested, the
\* links are looked for in a text of the message if it has one, and in HTML only
\* where no plain text stands beside it.
THEOREM FindsTheBody == Spec => []BodyIsFound
<1>1. BodyTaken => BodyIsFound
  BY ExtractBodyFinds DEF BodyTaken, BodyIsFound
<1> QED BY <1>1, KeepsTheBody, PTL

=============================================================================
