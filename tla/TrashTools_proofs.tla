-------------------------- MODULE TrashTools_proofs --------------------------
(***************************************************************************)
(* The tools that remove mail keep to their cap, their gate and their      *)
(* report, for any mailbox, query and page size and any number of calls.   *)
(***************************************************************************)
EXTENDS TrashTools, FiniteSetTheorems, TLAPS

Request == [pc : {"idle", "list", "preview", "modify", "single", "deleteOne",
                  "deleteMany", "refused", "failed", "previewed", "trashed",
                  "restored", "deleted"},
            ids : Seq(Messages), at : 1 .. PageSize,
            max : 0 .. PageSize, dry : BOOLEAN, confirm : BOOLEAN]

\* What holds of a request r that has removed the messages t.
RequestInv(r, t) ==
  /\ t \subseteq ToSet(r.ids)
  /\ r.pc \in {"idle", "list", "preview", "refused", "previewed", "restored"} => t = {}
  /\ r.pc # "refused" => r.max = 0 \/ Len(r.ids) <= r.max
  /\ r.dry => t = {} /\ r.pc \notin {"modify", "single", "deleteOne", "deleteMany"}
  /\ r.pc \in {"list", "preview", "modify"} => r.at = 1
  /\ r.pc = "list" => r.ids = <<>>
  /\ r.pc \in {"list", "preview", "modify", "single"} => r.max > 0
  /\ r.pc = "modify" => r.ids # <<>>
  /\ r.pc = "single" =>
       r.at \in DOMAIN r.ids /\ \A j \in DOMAIN r.ids : j < r.at => r.ids[j] \in t
  /\ r.pc \in {"deleteOne", "deleteMany"} => r.confirm

Inv ==
  /\ box \in [Messages -> {"absent", "mail", "trash", "deleted"}]
  /\ req \in [Requests -> Request]
  /\ touched \in [Requests -> SUBSET Messages]
  /\ \A q \in Requests : RequestInv(req[q], touched[q])

-----------------------------------------------------------------------------
(* Sequences made from sets, and sets made from sequences. *)

LEMMA SetToSeqLists ==
  ASSUME NEW S, IsFiniteSet(S)
  PROVE  /\ SetToSeq(S) \in Seq(S)
         /\ ToSet(SetToSeq(S)) = S
<1> DEFINE n == Cardinality(S)
<1>1. n \in Nat /\ ExistsBijection(1 .. n, S)
  BY FS_CardinalityType
<1>2. PICK f \in [1 .. n -> S] : IsInjective(f)
  BY <1>1 DEF ExistsBijection, Bijection, Injection
<1>3. /\ SetToSeq(S) \in [1 .. n -> S]
      /\ IsInjective(SetToSeq(S))
  BY <1>2 DEF SetToSeq
<1>4. IsFiniteSet(1 .. n) /\ Cardinality(1 .. n) = n
  BY <1>1, FS_Interval
<1>5. SetToSeq(S) \in Surjection(1 .. n, S)
  BY <1>3, <1>4, FS_Injection DEF Injection
<1>6. \A x \in S : \E i \in 1 .. n : SetToSeq(S)[i] = x
  BY <1>5 DEF Surjection
<1>7. \A T, k : k \in Nat => \A s \in [1 .. k -> T] : s \in Seq(T) /\ DOMAIN s = 1 .. k
  OBVIOUS
<1>8. SetToSeq(S) \in Seq(S) /\ DOMAIN SetToSeq(S) = 1 .. n
  BY <1>1, <1>3, <1>7
<1> QED BY <1>3, <1>6, <1>8 DEF ToSet

LEMMA ToSetIsNoLarger ==
  ASSUME NEW s \in Seq(Messages)
  PROVE  IsFiniteSet(ToSet(s)) /\ Cardinality(ToSet(s)) <= Len(s)
<1>1. Len(s) \in Nat /\ DOMAIN s = 1 .. Len(s) /\ s \in [1 .. Len(s) -> ToSet(s)]
  BY DEF ToSet
<1>2. s \in Surjection(1 .. Len(s), ToSet(s))
  BY <1>1 DEF Surjection, ToSet
<1>3. IsFiniteSet(1 .. Len(s)) /\ Cardinality(1 .. Len(s)) = Len(s)
  BY <1>1, FS_Interval
<1> QED BY <1>2, <1>3, FS_Surjection

-----------------------------------------------------------------------------
(* A step of one request leaves the others alone. *)

LEMMA OneRequest ==
  ASSUME Inv, NEW q \in Requests, NEW r \in Request,
         req' = [req EXCEPT ![q] = r],
         box' \in [Messages -> {"absent", "mail", "trash", "deleted"}],
         touched' \in [Requests -> SUBSET Messages],
         \A p \in Requests : p # q => touched'[p] = touched[p],
         RequestInv(r, touched'[q])
  PROVE  Inv'
<1>1. req' \in [Requests -> Request]
  BY DEF Inv
<1>2. ASSUME NEW p \in Requests PROVE RequestInv(req'[p], touched'[p])
  <2>1. CASE p = q
    BY <2>1 DEF Inv
  <2>2. CASE p # q
    <3>1. req'[p] = req[p] /\ touched'[p] = touched[p]
      BY <2>2
    <3> QED BY <3>1 DEF Inv
  <2> QED BY <2>1, <2>2
<1> QED BY <1>1, <1>2 DEF Inv

LEMMA MoveEffect ==
  ASSUME Inv, NEW q \in Requests, NEW S \in SUBSET Messages, NEW place \in {"trash", "deleted"},
         Move(q, S, place)
  PROVE  /\ box' \in [Messages -> {"absent", "mail", "trash", "deleted"}]
         /\ touched' \in [Requests -> SUBSET Messages]
         /\ touched'[q] = touched[q] \cup {m \in S : exists(m)}
         /\ \A p \in Requests : p # q => touched'[p] = touched[p]
BY DEF Inv, Move

\* A step that leaves the mailbox alone.
LEMMA QuietStep ==
  ASSUME Inv, NEW q \in Requests, NEW r \in Request,
         req' = [req EXCEPT ![q] = r], UNCHANGED <<box, touched>>,
         RequestInv(r, touched[q])
  PROVE  Inv'
BY OneRequest DEF Inv

\* A step in which Gmail moves messages the request names.
LEMMA MovingStep ==
  ASSUME Inv, NEW q \in Requests, NEW r \in Request,
         NEW S \in SUBSET Messages, NEW place \in {"trash", "deleted"},
         Move(q, S, place), req' = [req EXCEPT ![q] = r],
         RequestInv(r, touched[q] \cup {m \in S : exists(m)})
  PROVE  Inv'
BY OneRequest, MoveEffect

LEMMA IdsAreMessages ==
  ASSUME NEW s \in Seq(Messages)
  PROVE  ToSet(s) \in SUBSET Messages
BY DEF ToSet

LEMMA IdListsAreSeqs == IdLists \subseteq Seq(Messages)
<1>1. \A k \in Nat : [1 .. k -> Messages] \subseteq Seq(Messages)
  OBVIOUS
<1> QED BY <1>1, Sizes DEF IdLists

-----------------------------------------------------------------------------
(* The invariant holds at first and is kept by every action. *)

LEMMA IdleRequest == Idle \in Request /\ RequestInv(Idle, {})
BY Sizes DEF Idle, Request, RequestInv, ToSet

LEMMA InvInit == Init => Inv
BY IdleRequest DEF Init, Inv

\* proceed refuses more ids than the cap, and acts on at least one.
LEMMA ProceedCases ==
  ASSUME NEW ids \in Seq(Messages), NEW max \in 1 .. PageSize, NEW dry \in BOOLEAN
  PROVE  LET pc == proceed(ids, max, dry) IN
         /\ pc \in {"refused", "previewed", "trashed", "preview", "modify"}
         /\ pc # "refused" => Len(ids) <= max
         /\ pc \in {"previewed", "trashed"} => ids = <<>>
         /\ pc = "modify" => ids # <<>> /\ ~dry
<1>1. Len(ids) \in Nat /\ max \in Nat
  BY Sizes
<1> QED BY <1>1 DEF proceed

Outcomes == {"refused", "list", "previewed", "trashed", "preview", "modify"}

\* Where a request that has these ids may go from there.
Resolved(ids, max, dry, pc) ==
  /\ pc \in Outcomes
  /\ pc # "refused" => Len(ids) <= max
  /\ pc \in {"list", "previewed", "trashed"} => ids = <<>>
  /\ pc = "modify" => ids # <<>> /\ ~dry

LEMMA ResolvedRequest ==
  ASSUME NEW r \in Request, r.at = 1,
         r.max \in 1 .. PageSize, Resolved(r.ids, r.max, r.dry, r.pc)
  PROVE  RequestInv(r, {})
BY Sizes DEF Request, RequestInv, Resolved, Outcomes

LEMMA CalledRequest ==
  ASSUME NEW ids \in Seq(Messages), NEW max \in 1 .. PageSize, NEW dry \in BOOLEAN,
         NEW pc, Resolved(ids, max, dry, pc)
  PROVE  LET r == [Idle EXCEPT !.max = max, !.dry = dry, !.ids = ids, !.pc = pc]
         IN  r \in Request /\ RequestInv(r, {})
<1> DEFINE r == [Idle EXCEPT !.max = max, !.dry = dry, !.ids = ids, !.pc = pc]
<1>1. Idle \in Request /\ Idle.at = 1
  BY IdleRequest DEF Idle
<1> DEFINE s1 == [Idle EXCEPT !.max = max]
           s2 == [s1 EXCEPT !.dry = dry]
           s3 == [s2 EXCEPT !.ids = ids]
<1>2. s1 \in Request /\ s1.at = 1 /\ s1.max = max
  BY <1>1, Sizes DEF Request
<1>3. s2 \in Request /\ s2.at = 1 /\ s2.max = max /\ s2.dry = dry
  <2> HIDE DEF s1
  <2> QED BY <1>2 DEF Request
<1>4. s3 \in Request /\ s3.at = 1 /\ s3.max = max /\ s3.dry = dry /\ s3.ids = ids
  <2> HIDE DEF s2
  <2> QED BY <1>3 DEF Request
<1>5. r = [s3 EXCEPT !.pc = pc]
  OBVIOUS
<1>6. /\ r \in Request /\ r.at = 1
      /\ r.max = max /\ r.dry = dry /\ r.ids = ids /\ r.pc = pc
  <2> HIDE DEF s3, r
  <2> QED BY <1>4, <1>5 DEF Request, Resolved, Outcomes
<1>7. RequestInv(r, {})
  BY <1>6, ResolvedRequest
<1> QED BY <1>6, <1>7

LEMMA BatchTrashCalledKeeps ==
  ASSUME Inv, NEW q \in Requests, NEW byQuery \in BOOLEAN, NEW dry \in BOOLEAN,
         NEW max \in 1 .. PageSize, NEW ids \in IdLists \cup {NoIds},
         BatchTrashCalled(q, byQuery, ids, max, dry)
  PROVE  Inv'
<1> DEFINE given == IF ids = NoIds \/ byQuery THEN <<>> ELSE ids
           pc == IF byQuery = (ids # NoIds) THEN "refused"
                 ELSE IF byQuery THEN "list" ELSE proceed(ids, max, dry)
           r == [Idle EXCEPT !.max = max, !.dry = dry, !.ids = given, !.pc = pc]
<1>1. /\ req' = [req EXCEPT ![q] = r] /\ UNCHANGED <<box, touched>>
      /\ req[q].pc = "idle"
  BY DEF BatchTrashCalled
<1>2. given \in Seq(Messages)
  BY IdListsAreSeqs
<1>3. touched[q] = {}
  BY <1>1 DEF Inv, RequestInv
<1>4. Resolved(given, max, dry, pc)
  <2>1. CASE byQuery = (ids # NoIds)
    BY <2>1 DEF Resolved, Outcomes
  <2>2. CASE byQuery /\ ids = NoIds
    <3>1. given = <<>> /\ pc = "list"
      BY <2>2
    <3>2. Len(given) <= max
      BY <3>1, Sizes
    <3> HIDE DEF given, pc
    <3> QED BY <3>1, <3>2 DEF Resolved, Outcomes
  <2>3. CASE ~byQuery /\ ids # NoIds
    <3>1. given = ids /\ pc = proceed(ids, max, dry) /\ ids \in Seq(Messages)
      BY <1>2, <2>3
    <3> HIDE DEF given, pc
    <3> QED BY <3>1, ProceedCases DEF Resolved, Outcomes
  <2> QED BY <2>1, <2>2, <2>3
<1> HIDE DEF given, pc
<1>5. r \in Request /\ RequestInv(r, {})
  BY <1>2, <1>4, CalledRequest
<1> QED BY <1>1, <1>3, <1>5, QuietStep

\* What the answer of list makes of a request: it is acted on or previewed only
\* when the ids are all that matched.
LEMMA ListedRequest ==
  ASSUME Inv, NEW q \in Requests, ListAnswered(q)
  PROVE  \E ids \in Seq(Messages), pc \in Outcomes :
           /\ Resolved(ids, req[q].max, req[q].dry, pc)
           /\ pc # "refused" => ToSet(ids) = {m \in Matching : box[m] = "mail"}
           /\ req' = [req EXCEPT ![q] = [req[q] EXCEPT !.ids = ids, !.pc = pc]]
<1> DEFINE found == {m \in Matching : box[m] = "mail"}
<1>1. PICK page \in SUBSET found :
        req' = [req EXCEPT
         ![q].ids = SetToSeq(page),
         ![q].pc = listed(SetToSeq(page), page # found, req[q].max, req[q].dry)]
  BY DEF ListAnswered, kSubset
<1>2. page \in SUBSET Messages /\ IsFiniteSet(page)
  BY MatchingAreMessages, MailboxIsFinite, FS_Subset
<1>3. SetToSeq(page) \in Seq(page) /\ ToSet(SetToSeq(page)) = page
  BY <1>2, SetToSeqLists
<1>4. SetToSeq(page) \in Seq(Messages)
  BY <1>2, <1>3
<1>5. req[q].max \in 1 .. PageSize /\ req[q].dry \in BOOLEAN
  BY Sizes DEF ListAnswered, Inv, Request, RequestInv
<1> DEFINE ids == SetToSeq(page)
           pc == listed(ids, page # found, req[q].max, req[q].dry)
<1>6. /\ Resolved(ids, req[q].max, req[q].dry, pc)
      /\ pc # "refused" => ToSet(ids) = found
  <2>1. CASE page # found
    <3>1. pc = "refused"
      BY <2>1 DEF listed
    <3> HIDE DEF pc
    <3> QED BY <3>1 DEF Resolved, Outcomes
  <2>2. CASE page = found
    <3>1. pc = proceed(ids, req[q].max, req[q].dry)
      BY <2>2 DEF listed
    <3>2. ToSet(ids) = found
      BY <1>3, <2>2
    <3> HIDE DEF pc, ids, found
    <3> QED BY <1>4, <1>5, <3>1, <3>2, ProceedCases DEF Resolved, Outcomes, ids
  <2> QED BY <2>1, <2>2
<1>7. req' = [req EXCEPT ![q].ids = ids, ![q].pc = pc]
  BY <1>1
<1>8. pc \in Outcomes
  <2> HIDE DEF pc, ids, found
  <2> QED BY <1>6 DEF Resolved
<1> HIDE DEF ids, found, pc
<1>9. req' = [req EXCEPT ![q] = [req[q] EXCEPT !.ids = ids, !.pc = pc]]
  BY <1>7 DEF Inv, Request
<1> QED BY <1>4, <1>6, <1>8, <1>9 DEF ids, found

LEMMA ListAnsweredKeeps ==
  ASSUME Inv, NEW q \in Requests, ListAnswered(q)
  PROVE  Inv'
<1>1. PICK ids \in Seq(Messages), pc \in Outcomes :
        /\ Resolved(ids, req[q].max, req[q].dry, pc)
        /\ req' = [req EXCEPT ![q] = [req[q] EXCEPT !.ids = ids, !.pc = pc]]
  BY ListedRequest
<1> DEFINE r == [req[q] EXCEPT !.ids = ids, !.pc = pc]
<1>2. /\ req[q] \in Request /\ req[q].pc = "list" /\ RequestInv(req[q], touched[q])
      /\ UNCHANGED <<box, touched>>
  BY DEF ListAnswered, Inv
<1>3. /\ touched[q] = {} /\ req[q].at = 1
      /\ req[q].max \in 1 .. PageSize /\ req[q].dry \in BOOLEAN
  BY <1>2, Sizes DEF RequestInv, Request
<1>4. /\ r \in Request /\ r.ids = ids /\ r.pc = pc /\ r.at = 1
      /\ r.max = req[q].max /\ r.dry = req[q].dry /\ r.confirm = req[q].confirm
  BY <1>1, <1>2, <1>3 DEF Request, Resolved, Outcomes
<1>5. RequestInv(r, {})
  BY <1>1, <1>3, <1>4, ResolvedRequest
<1> QED BY <1>1, <1>2, <1>3, <1>4, <1>5, QuietStep

-----------------------------------------------------------------------------
(* The steps that only move a request on, with or without a move of mail. *)

Places == {"idle", "list", "preview", "modify", "single", "deleteOne", "deleteMany",
           "refused", "failed", "previewed", "trashed", "restored", "deleted"}

LEMMA GotoRequest ==
  ASSUME Inv, NEW q \in Requests, NEW pc \in Places, Goto(q, pc)
  PROVE  \E r \in Request :
           /\ req' = [req EXCEPT ![q] = r]
           /\ r.pc = pc /\ r.ids = req[q].ids /\ r.at = req[q].at
           /\ r.max = req[q].max /\ r.dry = req[q].dry /\ r.confirm = req[q].confirm
<1> DEFINE r == [req[q] EXCEPT !.pc = pc]
<1>1. /\ r \in Request
      /\ r.pc = pc /\ r.ids = req[q].ids /\ r.at = req[q].at
      /\ r.max = req[q].max /\ r.dry = req[q].dry /\ r.confirm = req[q].confirm
  BY DEF Inv, Request, Places
<1>2. req' = [req EXCEPT ![q] = r]
  BY DEF Goto
<1> HIDE DEF r
<1> QED BY <1>1, <1>2

LEMMA ReadsKeep ==
  ASSUME Inv, NEW q \in Requests, PreviewAnswered(q) \/ ReadFails(q)
  PROVE  Inv'
<1>1. PICK pc \in {"previewed", "failed"} : Goto(q, pc)
  BY DEF PreviewAnswered, ReadFails
<1>2. /\ req[q].pc \in {"list", "preview"} /\ RequestInv(req[q], touched[q])
      /\ UNCHANGED <<box, touched>> /\ req[q] \in Request
  BY DEF PreviewAnswered, ReadFails, Inv
<1>3. PICK r \in Request :
        /\ req' = [req EXCEPT ![q] = r]
        /\ r.pc = pc /\ r.ids = req[q].ids /\ r.at = req[q].at
        /\ r.max = req[q].max /\ r.dry = req[q].dry
  BY <1>1, GotoRequest DEF Places
<1>4. RequestInv(r, touched[q])
  BY <1>1, <1>2, <1>3 DEF RequestInv
<1> QED BY <1>2, <1>3, <1>4, QuietStep

LEMMA BatchModifyKeeps ==
  ASSUME Inv, NEW q \in Requests, BatchModified(q) \/ BatchModifyFails(q)
  PROVE  Inv'
<1>1. PICK pc \in {"trashed", "single"} : Goto(q, pc)
  BY DEF BatchModified, BatchModifyFails
<1>2. req[q].pc = "modify" /\ RequestInv(req[q], touched[q]) /\ req[q] \in Request
  BY DEF BatchModified, BatchModifyFails, Inv
<1>3. PICK r \in Request :
        /\ req' = [req EXCEPT ![q] = r]
        /\ r.pc = pc /\ r.ids = req[q].ids /\ r.at = req[q].at
        /\ r.max = req[q].max /\ r.dry = req[q].dry
  BY <1>1, GotoRequest DEF Places
<1>4. r.at = 1 /\ 1 \in DOMAIN r.ids /\ \A j \in DOMAIN r.ids : ~(j < 1)
  BY <1>2, <1>3 DEF RequestInv, Request
<1>5. ASSUME NEW t \in SUBSET ToSet(req[q].ids) PROVE RequestInv(r, t)
  BY <1>1, <1>2, <1>3, <1>4 DEF RequestInv
<1>6. touched[q] \subseteq ToSet(req[q].ids)
  BY <1>2 DEF RequestInv
<1>7. PICK S \in SUBSET ToSet(req[q].ids) : Move(q, S, "trash")
  BY DEF BatchModified, BatchModifyFails
<1>8. S \in SUBSET Messages
  BY <1>2, IdsAreMessages DEF Request
<1>9. RequestInv(r, touched[q] \cup {m \in S : exists(m)})
  BY <1>5, <1>6
<1> QED BY <1>3, <1>7, <1>8, <1>9, MovingStep

\* The message whose turn it is.
LEMMA AtMessage ==
  ASSUME Inv, NEW q \in Requests, req[q].pc = "single"
  PROVE  /\ req[q] \in Request /\ RequestInv(req[q], touched[q])
         /\ req[q].at \in DOMAIN req[q].ids
         /\ {req[q].ids[req[q].at]} \in SUBSET Messages
         /\ {req[q].ids[req[q].at]} \subseteq ToSet(req[q].ids)
<1>1. req[q] \in Request /\ RequestInv(req[q], touched[q])
  BY DEF Inv
<1>2. req[q].at \in DOMAIN req[q].ids /\ req[q].ids \in Seq(Messages)
  BY <1>1 DEF RequestInv, Request
<1> QED BY <1>1, <1>2 DEF ToSet

LEMMA TrashedOneKeeps ==
  ASSUME Inv, NEW q \in Requests, TrashedOne(q)
  PROVE  Inv'
<1> DEFINE r == req[q]
           S == {r.ids[r.at]}
           t == touched[q] \cup {m \in S : exists(m)}
<1>1. r.pc = "single" /\ exists(r.ids[r.at]) /\ Move(q, S, "trash")
  BY DEF TrashedOne
<1>2. /\ r \in Request /\ RequestInv(r, touched[q]) /\ r.at \in DOMAIN r.ids
      /\ S \in SUBSET Messages /\ S \subseteq ToSet(r.ids)
  BY <1>1, AtMessage
<1>3. t = touched[q] \cup S /\ t \subseteq ToSet(r.ids)
  BY <1>1, <1>2 DEF RequestInv
<1>4. \A j \in DOMAIN r.ids : j < r.at + 1 => r.ids[j] \in t
  <2>1. ASSUME NEW j \in DOMAIN r.ids, j < r.at + 1 PROVE j < r.at \/ j = r.at
    BY <1>2, <2>1 DEF Request
  <2> QED BY <1>1, <1>2, <1>3, <2>1 DEF RequestInv
<1>5. CASE r.at = Len(r.ids)
  <2> DEFINE s == [r EXCEPT !.pc = "trashed"]
  <2>1. req' = [req EXCEPT ![q] = s]
    BY <1>5 DEF TrashedOne
  <2>2. /\ s \in Request /\ s.pc = "trashed" /\ s.ids = r.ids
        /\ s.max = r.max /\ s.dry = r.dry
    BY <1>2 DEF Request
  <2>3. RequestInv(s, t)
    <3> HIDE DEF s, t
    <3> QED BY <1>1, <1>2, <1>3, <2>2 DEF RequestInv
  <2> QED BY <1>1, <1>2, <2>1, <2>2, <2>3, MovingStep
<1>6. CASE r.at # Len(r.ids)
  <2> DEFINE s == [r EXCEPT !.at = r.at + 1]
  <2>1. req' = [req EXCEPT ![q] = s]
    BY <1>6 DEF TrashedOne
  <2>2. r.at \in Nat /\ Len(r.ids) \in Nat /\ r.max \in Nat /\ r.max <= PageSize
    BY <1>2, Sizes DEF Request
  <2>3. r.at + 1 \in DOMAIN r.ids /\ r.at + 1 \in 1 .. PageSize
    BY <1>1, <1>2, <1>6, <2>2, Sizes DEF RequestInv, Request
  <2>4. /\ s \in Request /\ s.pc = "single" /\ s.ids = r.ids
        /\ s.at = r.at + 1 /\ s.max = r.max /\ s.dry = r.dry
    BY <1>1, <1>2, <2>3 DEF Request
  <2>5. RequestInv(s, t)
    <3> HIDE DEF s, t
    <3> QED BY <1>1, <1>2, <1>3, <1>4, <2>3, <2>4 DEF RequestInv
  <2> QED BY <1>1, <1>2, <2>1, <2>4, <2>5, MovingStep
<1> QED BY <1>5, <1>6

LEMMA TrashOneFailsKeeps ==
  ASSUME Inv, NEW q \in Requests, TrashOneFails(q)
  PROVE  Inv'
<1> DEFINE S == {req[q].ids[req[q].at]}
<1>1. req[q].pc = "single" /\ Goto(q, "failed")
  BY DEF TrashOneFails
<1>2. /\ req[q] \in Request /\ RequestInv(req[q], touched[q])
      /\ S \in SUBSET Messages /\ S \subseteq ToSet(req[q].ids)
  BY <1>1, AtMessage
<1>3. PICK r \in Request :
        /\ req' = [req EXCEPT ![q] = r]
        /\ r.pc = "failed" /\ r.ids = req[q].ids
        /\ r.max = req[q].max /\ r.dry = req[q].dry
  BY <1>1, GotoRequest DEF Places
<1>4. ASSUME NEW t \in SUBSET ToSet(req[q].ids) PROVE RequestInv(r, t)
  BY <1>1, <1>2, <1>3 DEF RequestInv
<1>5. touched[q] \subseteq ToSet(req[q].ids)
  BY <1>2 DEF RequestInv
<1>6. CASE Move(q, S, "trash")
  <2>1. RequestInv(r, touched[q] \cup {m \in S : exists(m)})
    BY <1>2, <1>4, <1>5
  <2> HIDE DEF S
  <2> QED BY <1>2, <1>3, <1>6, <2>1, MovingStep
<1>7. CASE UNCHANGED <<box, touched>>
  BY <1>3, <1>4, <1>5, <1>7, QuietStep
<1> QED BY <1>6, <1>7 DEF TrashOneFails

-----------------------------------------------------------------------------
(* trash_email, untrash_email, the deletions, and mail that arrives. *)

LEMMA TrashEmailCalledKeeps ==
  ASSUME Inv, NEW q \in Requests, NEW m \in Messages, TrashEmailCalled(q, m)
  PROVE  Inv'
<1> DEFINE s1 == [Idle EXCEPT !.pc = "single"]
           s2 == [s1 EXCEPT !.ids = <<m>>]
           r  == [s2 EXCEPT !.max = 1]
<1>1. /\ req' = [req EXCEPT ![q] = r] /\ UNCHANGED <<box, touched>>
      /\ req[q].pc = "idle"
  BY DEF TrashEmailCalled
<1>2. touched[q] = {}
  BY <1>1 DEF Inv, RequestInv
<1>3. <<m>> \in Seq(Messages) /\ Len(<<m>>) = 1 /\ DOMAIN <<m>> = {1}
  OBVIOUS
<1>4. Idle \in Request /\ Idle.at = 1 /\ ~Idle.dry
  BY IdleRequest DEF Idle
<1>5. s1 \in Request /\ s1.pc = "single" /\ s1.at = 1 /\ ~s1.dry
  BY <1>4 DEF Request
<1>6. s2 \in Request /\ s2.pc = "single" /\ s2.at = 1 /\ ~s2.dry /\ s2.ids = <<m>>
  <2> HIDE DEF s1
  <2> QED BY <1>3, <1>5 DEF Request
<1>7. r \in Request /\ r.pc = "single" /\ r.at = 1 /\ ~r.dry /\ r.ids = <<m>> /\ r.max = 1
  <2> HIDE DEF s2
  <2> QED BY <1>6, Sizes DEF Request
<1>8. RequestInv(r, {})
  <2> HIDE DEF r
  <2> QED BY <1>3, <1>7 DEF RequestInv
<1> HIDE DEF r
<1> QED BY <1>1, <1>2, <1>7, <1>8, QuietStep

LEMMA UntrashEmailKeeps ==
  ASSUME Inv, NEW q \in Requests, NEW m \in Messages, UntrashEmail(q, m)
  PROVE  Inv'
<1>1. Goto(q, "restored") /\ req[q].pc = "idle" /\ UNCHANGED touched
  BY DEF UntrashEmail
<1>2. req[q] \in Request /\ RequestInv(req[q], touched[q])
  BY DEF Inv
<1>3. PICK r \in Request :
        /\ req' = [req EXCEPT ![q] = r]
        /\ r.pc = "restored" /\ r.ids = req[q].ids
        /\ r.max = req[q].max /\ r.dry = req[q].dry
  BY <1>1, GotoRequest DEF Places
<1>4. RequestInv(r, touched[q])
  BY <1>1, <1>2, <1>3 DEF RequestInv
<1>5. box' \in [Messages -> {"absent", "mail", "trash", "deleted"}]
  BY DEF Inv, UntrashEmail
<1> QED BY <1>1, <1>3, <1>4, <1>5, OneRequest DEF Inv

LEMMA DeleteCalledKeeps ==
  ASSUME Inv, NEW q \in Requests, NEW ids \in Seq(Messages), NEW confirm \in BOOLEAN,
         NEW next \in {"deleteOne", "deleteMany"},
         DeleteCalled(q, ids, confirm, next)
  PROVE  Inv'
<1> DEFINE pc == IF confirm THEN next ELSE "refused"
           s1 == [Idle EXCEPT !.ids = ids]
           s2 == [s1 EXCEPT !.confirm = confirm]
           r  == [s2 EXCEPT !.pc = pc]
<1>1. /\ req' = [req EXCEPT ![q] = r] /\ UNCHANGED <<box, touched>>
      /\ req[q].pc = "idle"
  BY DEF DeleteCalled
<1>2. touched[q] = {}
  BY <1>1 DEF Inv, RequestInv
<1>3. pc \in {"refused", "deleteOne", "deleteMany"} /\ (pc # "refused" => confirm)
  OBVIOUS
<1>4. Idle \in Request /\ Idle.max = 0 /\ ~Idle.dry
  BY IdleRequest DEF Idle
<1>5. s1 \in Request /\ s1.max = 0 /\ ~s1.dry
  BY <1>4 DEF Request
<1>6. s2 \in Request /\ s2.max = 0 /\ ~s2.dry /\ s2.confirm = confirm
  <2> HIDE DEF s1
  <2> QED BY <1>5 DEF Request
<1> HIDE DEF pc
<1>7. r \in Request /\ r.pc = pc /\ r.max = 0 /\ ~r.dry /\ r.confirm = confirm
  <2> HIDE DEF s2
  <2> QED BY <1>3, <1>6 DEF Request
<1>8. RequestInv(r, {})
  <2> HIDE DEF r
  <2> QED BY <1>3, <1>7 DEF RequestInv
<1> HIDE DEF r
<1> QED BY <1>1, <1>2, <1>7, <1>8, QuietStep

LEMMA DeletionKeeps ==
  ASSUME Inv, NEW q \in Requests, Deleted(q) \/ DeleteFails(q)
  PROVE  Inv'
<1> DEFINE S == ToSet(req[q].ids)
<1>1. PICK pc \in {"deleted", "failed"} : Goto(q, pc)
  BY DEF Deleted, DeleteFails
<1>2. /\ req[q].pc \in {"deleteOne", "deleteMany"}
      /\ req[q] \in Request /\ RequestInv(req[q], touched[q])
  BY DEF Deleted, DeleteFails, Inv
<1>3. PICK r \in Request :
        /\ req' = [req EXCEPT ![q] = r]
        /\ r.pc = pc /\ r.ids = req[q].ids
        /\ r.max = req[q].max /\ r.dry = req[q].dry
  BY <1>1, GotoRequest DEF Places
<1>4. ASSUME NEW t \in SUBSET S PROVE RequestInv(r, t)
  BY <1>1, <1>2, <1>3 DEF RequestInv
<1>5. touched[q] \subseteq S /\ S \in SUBSET Messages
  BY <1>2, IdsAreMessages DEF RequestInv, Request
<1>6. ASSUME NEW D \in SUBSET S, Move(q, D, "deleted") PROVE Inv'
  <2>1. RequestInv(r, touched[q] \cup {m \in D : exists(m)}) /\ D \in SUBSET Messages
    BY <1>4, <1>5
  <2> HIDE DEF S
  <2> QED BY <1>3, <1>6, <2>1, MovingStep
<1>7. CASE UNCHANGED <<box, touched>>
  BY <1>3, <1>4, <1>5, <1>7, QuietStep
<1> QED BY <1>6, <1>7 DEF Deleted, DeleteFails

LEMMA MailArrivesKeeps ==
  ASSUME Inv, NEW m \in Messages, MailArrives(m)
  PROVE  Inv'
BY DEF Inv, MailArrives

LEMMA DeleteIdsAreSeqs ==
  /\ \A m \in Messages : <<m>> \in Seq(Messages)
  /\ \A ids \in IdLists \ {<<>>} : ids \in Seq(Messages)
BY IdListsAreSeqs

LEMMA InvStep == Inv /\ [Next]_vars => Inv'
<1> SUFFICES ASSUME Inv, [Next]_vars PROVE Inv'
  OBVIOUS
<1>1. CASE UNCHANGED vars
  BY <1>1 DEF vars, Inv
<1>2. CASE Next
  BY <1>2, BatchTrashCalledKeeps, ListAnsweredKeeps, ReadsKeep, BatchModifyKeeps,
     TrashedOneKeeps, TrashOneFailsKeeps, TrashEmailCalledKeeps, UntrashEmailKeeps,
     DeleteCalledKeeps, DeletionKeeps, MailArrivesKeeps, DeleteIdsAreSeqs DEF Next
<1> QED BY <1>1, <1>2

LEMMA InvAlways == Spec => []Inv
BY InvInit, InvStep, PTL DEF Spec

-----------------------------------------------------------------------------
\* The types of the requests, and a loop index that is always at a message of
\* the list, whatever is asked for.
THEOREM TypeCorrect == Spec => []TypeOK
<1>1. Inv => TypeOK
  BY DEF Inv, TypeOK, Request, RequestInv
<1> QED BY <1>1, InvAlways, PTL

\* batch_trash removes no more than its cap, and nothing when it refuses or
\* runs dry, for any page size, query and history of failing calls.
THEOREM CapHolds == Spec => []WithinCap
<1>1. ASSUME Inv, NEW q \in Requests
      PROVE  /\ touched[q] \subseteq ToSet(req[q].ids)
             /\ req[q].max > 0 => Cardinality(touched[q]) <= req[q].max
             /\ req[q].pc = "refused" \/ req[q].dry => touched[q] = {}
  <2>1. req[q] \in Request /\ RequestInv(req[q], touched[q])
    BY <1>1 DEF Inv
  <2>2. touched[q] \subseteq ToSet(req[q].ids) /\ req[q].ids \in Seq(Messages)
    BY <2>1 DEF RequestInv, Request
  <2>3. /\ IsFiniteSet(ToSet(req[q].ids))
        /\ Cardinality(ToSet(req[q].ids)) <= Len(req[q].ids)
    BY <2>2, ToSetIsNoLarger
  <2>4. /\ IsFiniteSet(touched[q])
        /\ Cardinality(touched[q]) <= Cardinality(ToSet(req[q].ids))
    BY <2>2, <2>3, FS_Subset
  <2>5. /\ Cardinality(touched[q]) \in Nat /\ Cardinality(ToSet(req[q].ids)) \in Nat
        /\ Len(req[q].ids) \in Nat /\ req[q].max \in Nat
    BY <2>1, <2>2, <2>3, <2>4, FS_CardinalityType, Sizes DEF Request
  <2>6. CASE req[q].pc = "refused"
    <3>1. touched[q] = {}
      BY <2>1, <2>6 DEF RequestInv
    <3> QED BY <2>2, <2>5, <3>1, FS_EmptySet
  <2>7. CASE req[q].pc # "refused"
    <3>1. req[q].max > 0 => Len(req[q].ids) <= req[q].max
      BY <2>1, <2>5, <2>7 DEF RequestInv
    <3>2. req[q].dry => touched[q] = {}
      BY <2>1 DEF RequestInv
    <3> QED BY <2>2, <2>3, <2>4, <2>5, <2>7, <3>1, <3>2
  <2> QED BY <2>6, <2>7
<1>2. Inv => WithinCap
  BY <1>1 DEF WithinCap
<1> QED BY <1>2, InvAlways, PTL

-----------------------------------------------------------------------------
\* Which steps take a request where.

\* A query leaves its state "list" towards an action only by its answer.
LEMMA OnlyListAnswered ==
  ASSUME Inv, Next, NEW q \in Requests, req[q].pc = "list",
         req'[q].pc \in {"modify", "preview", "previewed", "trashed"}
  PROVE  ListAnswered(q)
<1>1. req'[q].pc # req[q].pc /\ q \in DOMAIN req
  BY DEF Inv
<1>2. ASSUME NEW p \in Requests, NEW pc, Goto(p, pc) PROVE p = q /\ req'[q].pc = pc
  <2>1. p = q
    BY <1>1, <1>2 DEF Goto
  <2> QED BY <1>1, <1>2, <2>1 DEF Goto, Inv, Request
<1>3. \A p \in Requests : ~ReadFails(p)
  BY <1>2 DEF ReadFails
<1>4. \A p \in Requests : ~(PreviewAnswered(p) \/ BatchModified(p) \/ BatchModifyFails(p)
                            \/ TrashOneFails(p) \/ Deleted(p) \/ DeleteFails(p))
  BY <1>2 DEF PreviewAnswered, BatchModified, BatchModifyFails, TrashOneFails,
     Deleted, DeleteFails
<1>5. \A p \in Requests : ~TrashedOne(p)
  BY <1>1 DEF TrashedOne
<1>6. \A p \in Requests, m \in Messages : ~TrashEmailCalled(p, m) /\ ~UntrashEmail(p, m)
  BY <1>1, <1>2 DEF TrashEmailCalled, UntrashEmail
<1>7. \A p \in Requests : \A ids, confirm, next : ~DeleteCalled(p, ids, confirm, next)
  BY <1>1 DEF DeleteCalled
<1>8. \A p \in Requests : \A byQuery, ids, max, dry : ~BatchTrashCalled(p, byQuery, ids, max, dry)
  BY <1>1 DEF BatchTrashCalled
<1>9. \A m \in Messages : ~MailArrives(m)
  BY <1>1 DEF MailArrives
<1>10. \A p \in Requests : ListAnswered(p) => p = q
  BY <1>1 DEF ListAnswered
<1> QED BY <1>3, <1>4, <1>5, <1>6, <1>7, <1>8, <1>9, <1>10 DEF Next

\* A query is acted on, or previewed, only as a whole, however the page size
\* cuts the listing.
THEOREM QueriesAreWhole == Spec => QueryResolvedWhole
<1>1. ASSUME Inv, Next, NEW q \in Requests, req[q].pc = "list",
             req'[q].pc \in {"modify", "preview", "previewed", "trashed"}
      PROVE  ToSet(req'[q].ids) = {m \in Matching : box[m] = "mail"}
  <2>1. PICK ids \in Seq(Messages), pc \in Outcomes :
          /\ pc # "refused" => ToSet(ids) = {m \in Matching : box[m] = "mail"}
          /\ req' = [req EXCEPT ![q] = [req[q] EXCEPT !.ids = ids, !.pc = pc]]
    BY <1>1, OnlyListAnswered, ListedRequest
  <2>2. req'[q].pc = pc /\ req'[q].ids = ids
    BY <1>1, <2>1 DEF Inv, Request, Outcomes
  <2> QED BY <1>1, <2>1, <2>2
<1>2. Inv /\ [Next]_vars =>
        [\A q \in Requests :
           req[q].pc = "list" /\ req'[q].pc \in {"modify", "preview", "previewed", "trashed"} =>
             ToSet(req'[q].ids) = {m \in Matching : box[m] = "mail"}]_vars
  BY <1>1
<1> QED BY <1>2, InvAlways, PTL DEF Spec, QueryResolvedWhole

\* batch_trash with ids, an empty list of them included, or with a query.
LEMMA CalledOutcome ==
  ASSUME Inv, NEW q \in Requests, NEW byQuery \in BOOLEAN, NEW dry \in BOOLEAN,
         NEW max \in 1 .. PageSize, NEW ids \in IdLists \cup {NoIds},
         BatchTrashCalled(q, byQuery, ids, max, dry), req'[q].pc = "trashed"
  PROVE  ToSet(req'[q].ids) = {}
<1> DEFINE given == IF ids = NoIds \/ byQuery THEN <<>> ELSE ids
           pc == IF byQuery = (ids # NoIds) THEN "refused"
                 ELSE IF byQuery THEN "list" ELSE proceed(ids, max, dry)
           r == [Idle EXCEPT !.max = max, !.dry = dry, !.ids = given, !.pc = pc]
<1>1. req'[q] = r
  BY DEF BatchTrashCalled, Inv
<1>2. r.pc = pc /\ r.ids = given
  BY DEF Idle
<1>3. ~byQuery /\ ids # NoIds
  BY <1>1, <1>2
<1>4. ids \in Seq(Messages) /\ given = ids /\ proceed(ids, max, dry) = "trashed"
  BY <1>1, <1>2, <1>3, IdListsAreSeqs
<1>5. ids = <<>>
  BY <1>4, ProceedCases
<1> HIDE DEF r
<1> QED BY <1>1, <1>2, <1>4, <1>5 DEF ToSet

LEMMA ReportedIsTrashed ==
  ASSUME Inv, Next, NEW q \in Requests, req[q].pc # "trashed", req'[q].pc = "trashed"
  PROVE  \A m \in ToSet(req'[q].ids) : m \in touched'[q] \/ ~exists(m)
<1>1. req'[q].pc # req[q].pc /\ q \in DOMAIN req /\ req[q] \in Request
      /\ RequestInv(req[q], touched[q])
  BY DEF Inv
<1>2. ASSUME NEW p \in Requests, NEW pc, Goto(p, pc)
      PROVE  p = q /\ pc = "trashed" /\ req'[q].ids = req[q].ids
  <2>1. p = q
    BY <1>1, <1>2 DEF Goto
  <2> QED BY <1>1, <1>2, <2>1 DEF Goto, Inv, Request
<1>3. ASSUME NEW p \in Requests, NEW byQuery \in BOOLEAN, NEW dry \in BOOLEAN,
             NEW max \in 1 .. PageSize, NEW ids \in IdLists \cup {NoIds},
             BatchTrashCalled(p, byQuery, ids, max, dry)
      PROVE  ToSet(req'[q].ids) = {}
  <2>1. p = q
    BY <1>1, <1>3 DEF BatchTrashCalled
  <2> QED BY <1>3, <2>1, CalledOutcome
<1>4. ASSUME NEW p \in Requests, ListAnswered(p) PROVE ToSet(req'[q].ids) = {}
  <2>1. p = q
    BY <1>1, <1>4 DEF ListAnswered
  <2>2. PICK ids \in Seq(Messages), pc \in Outcomes :
          /\ Resolved(ids, req[q].max, req[q].dry, pc)
          /\ req' = [req EXCEPT ![q] = [req[q] EXCEPT !.ids = ids, !.pc = pc]]
    BY <1>4, <2>1, ListedRequest
  <2>3. req'[q].pc = pc /\ req'[q].ids = ids
    BY <1>1, <2>2 DEF Request
  <2> QED BY <2>2, <2>3 DEF Resolved, ToSet
<1>5. ASSUME NEW p \in Requests, BatchModified(p)
      PROVE  \A m \in ToSet(req'[q].ids) : m \in touched'[q] \/ ~exists(m)
  <2>1. p = q /\ req'[q].ids = req[q].ids /\ Move(q, ToSet(req[q].ids), "trash")
    BY <1>2, <1>5 DEF BatchModified
  <2>2. ToSet(req[q].ids) \in SUBSET Messages
    BY <1>1, IdsAreMessages DEF Request
  <2> QED BY <2>1, <2>2, MoveEffect
<1>6. ASSUME NEW p \in Requests, TrashedOne(p)
      PROVE  \A m \in ToSet(req'[q].ids) : m \in touched'[q] \/ ~exists(m)
  <2> DEFINE r == req[q]
             S == {r.ids[r.at]}
  <2>1. p = q
    BY <1>1, <1>6 DEF TrashedOne
  <2>2. r.pc = "single" /\ Move(q, S, "trash") /\ exists(r.ids[r.at])
    BY <1>6, <2>1 DEF TrashedOne
  <2>3. r.at \in DOMAIN r.ids /\ S \in SUBSET Messages
    BY <2>2, AtMessage
  <2>4. r.at = Len(r.ids) /\ req'[q].ids = r.ids
    BY <1>1, <1>6, <2>1, <2>2 DEF TrashedOne, Request
  <2>5. touched'[q] = touched[q] \cup {m \in S : exists(m)}
    BY <2>2, <2>3, MoveEffect
  <2>6. ASSUME NEW j \in DOMAIN r.ids PROVE r.ids[j] \in touched'[q]
    <3>1. j < r.at \/ j = r.at
      BY <1>1, <2>4 DEF Request
    <3>2. j < r.at => r.ids[j] \in touched[q]
      BY <1>1, <2>2 DEF RequestInv
    <3> QED BY <2>2, <2>5, <3>1, <3>2
  <2> QED BY <2>4, <2>6 DEF ToSet
<1>7. \A p \in Requests : ~(PreviewAnswered(p) \/ ReadFails(p) \/ BatchModifyFails(p)
                            \/ TrashOneFails(p) \/ Deleted(p) \/ DeleteFails(p))
  <2>1. \A p \in Requests, pc \in {"previewed", "failed", "single", "deleted"} : ~Goto(p, pc)
    BY <1>2
  <2> QED BY <2>1 DEF PreviewAnswered, ReadFails, BatchModifyFails, TrashOneFails,
        Deleted, DeleteFails
<1>8. \A p \in Requests, m \in Messages : ~TrashEmailCalled(p, m) /\ ~UntrashEmail(p, m)
  <2>1. \A p \in Requests, m \in Messages : ~UntrashEmail(p, m)
    BY <1>2 DEF UntrashEmail
  <2>2. ASSUME NEW p \in Requests, NEW m \in Messages, TrashEmailCalled(p, m) PROVE FALSE
    <3>1. req'[q] = [Idle EXCEPT !.pc = "single", !.ids = <<m>>, !.max = 1]
      BY <1>1, <2>2 DEF TrashEmailCalled
    <3> QED BY <3>1 DEF Idle
  <2> QED BY <2>1, <2>2
<1>9. ASSUME NEW p \in Requests, NEW ids, NEW confirm \in BOOLEAN,
             NEW next \in {"deleteOne", "deleteMany"}, DeleteCalled(p, ids, confirm, next)
      PROVE  FALSE
  <2>1. req'[q].pc = IF confirm THEN next ELSE "refused"
    BY <1>1, <1>9 DEF DeleteCalled, Idle
  <2> QED BY <2>1
<1>10. \A m \in Messages : ~MailArrives(m)
  BY <1>1 DEF MailArrives
<1> QED BY <1>3, <1>4, <1>5, <1>6, <1>7, <1>8, <1>9, <1>10 DEF Next

\* A request that reports its ids as trashed has put each of them there, unless
\* Gmail does not know the id any more.
THEOREM ReportsAreTrue == Spec => ReportIsTrue
<1>1. Inv /\ [Next]_vars =>
        [\A q \in Requests :
           req'[q].pc = "trashed" /\ req[q].pc # "trashed" =>
             \A m \in ToSet(req'[q].ids) : m \in touched'[q] \/ ~exists(m)]_vars
  BY ReportedIsTrashed
<1> QED BY <1>1, InvAlways, PTL DEF Spec, ReportIsTrue

-----------------------------------------------------------------------------
\* Mail is lost for good only by a deletion whose caller confirmed.
LEMMA OnlyDeletionLoses ==
  ASSUME Inv, Next, NEW m \in Messages, box'[m] = "deleted", box[m] # "deleted"
  PROVE  \E q \in Requests :
           req[q].confirm /\ m \in ToSet(req[q].ids) /\ req'[q].pc # req[q].pc
<1>1. ASSUME NEW q \in Requests, NEW S, Move(q, S, "trash") PROVE FALSE
  BY <1>1 DEF Move, Inv
<1>2. box' # box
  OBVIOUS
<1>3. \A q \in Requests : ~(BatchModified(q) \/ BatchModifyFails(q) \/ TrashedOne(q)
                            \/ TrashOneFails(q))
  BY <1>1, <1>2 DEF BatchModified, BatchModifyFails, TrashedOne, TrashOneFails
<1>4. \A q \in Requests : ~(ListAnswered(q) \/ PreviewAnswered(q) \/ ReadFails(q))
  BY <1>2 DEF ListAnswered, PreviewAnswered, ReadFails
<1>5. \A q \in Requests, n \in Messages : ~(TrashEmailCalled(q, n) \/ UntrashEmail(q, n))
  BY DEF TrashEmailCalled, UntrashEmail, Inv
<1>6. \A q \in Requests : \A ids, confirm, next : ~DeleteCalled(q, ids, confirm, next)
  BY <1>2 DEF DeleteCalled
<1>7. \A q \in Requests : \A byQuery, ids, max, dry : ~BatchTrashCalled(q, byQuery, ids, max, dry)
  BY <1>2 DEF BatchTrashCalled
<1>8. \A n \in Messages : ~MailArrives(n)
  BY DEF MailArrives, Inv
<1>9. ASSUME NEW q \in Requests, Deleted(q) \/ DeleteFails(q)
      PROVE  req[q].confirm /\ m \in ToSet(req[q].ids) /\ req'[q].pc # req[q].pc
  <2>1. PICK S \in SUBSET ToSet(req[q].ids) : Move(q, S, "deleted")
    BY <1>2, <1>9 DEF Deleted, DeleteFails
  <2>2. m \in ToSet(req[q].ids)
    BY <2>1 DEF Move, Inv
  <2>3. req[q].pc \in {"deleteOne", "deleteMany"} /\ req[q].confirm
    BY <1>9 DEF Deleted, DeleteFails, Inv, RequestInv
  <2>4. PICK pc \in {"deleted", "failed"} : Goto(q, pc)
    BY <1>9 DEF Deleted, DeleteFails
  <2>5. req'[q].pc = pc
    BY <2>4 DEF Goto, Inv, Request
  <2> QED BY <2>2, <2>3, <2>5
<1> QED BY <1>3, <1>4, <1>5, <1>6, <1>7, <1>8, <1>9 DEF Next

\* "Permanent deletion sits behind an explicit confirm:true gate", whatever the
\* tools in progress.
THEOREM DeletionsAreConfirmed == Spec => DeletionIsConfirmed
<1>1. Inv /\ [Next]_vars =>
        [\A m \in Messages :
           box'[m] = "deleted" /\ box[m] # "deleted" =>
             \E q \in Requests :
               req[q].confirm /\ m \in ToSet(req[q].ids) /\ req'[q].pc # req[q].pc]_vars
  BY OnlyDeletionLoses
<1> QED BY <1>1, InvAlways, PTL DEF Spec, DeletionIsConfirmed

=============================================================================
