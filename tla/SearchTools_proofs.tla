------------------------- MODULE SearchTools_proofs -------------------------
(***************************************************************************)
(* A search answers for every account it was asked for, whole or with an   *)
(* error, and reads no account that was removed before its turn: for any   *)
(* mailboxes, messages, page and chunk sizes, and disk faults.             *)
(***************************************************************************)
EXTENDS SearchTools, TokenStore_proofs, SequenceTheorems, FiniteSetTheorems, TLAPS

Search ==
  [pc : Awaiting \cup {"idle", "done", "threw"}, tool : {"none", "search", "drafts"},
   todo : Seq(Emails), token : Token \cup {NoToken},
   ids : Seq(Messages), i : Nat, out : SUBSET Messages,
   emails : Seq(Messages), results : Seq(Result)]

-----------------------------------------------------------------------------
(* Sequences. *)

accountsOf(results) == [k \in DOMAIN results |-> results[k].account]

LEMMA AccountsOfAppend ==
  ASSUME NEW results \in Seq(Result), NEW r \in Result
  PROVE  /\ accountsOf(results) \in Seq(Emails)
         /\ accountsOf(Append(results, r)) = Append(accountsOf(results), r.account)
<1>1. /\ Append(results, r) \in Seq(Result) /\ Len(Append(results, r)) = Len(results) + 1
      /\ \A k \in 1 .. Len(results) : Append(results, r)[k] = results[k]
      /\ Append(results, r)[Len(results) + 1] = r
  BY AppendProperties
<1>2. /\ Len(results) \in Nat /\ DOMAIN results = 1 .. Len(results)
      /\ \A k \in 1 .. Len(results) : results[k] \in Result
  BY LenProperties, ElementOfSeq
<1>3. accountsOf(results) \in Seq(Emails) /\ Len(accountsOf(results)) = Len(results)
  <2>1. accountsOf(results) \in [1 .. Len(results) -> Emails]
    BY <1>2 DEF accountsOf, Result
  <2> QED BY <1>2, <2>1, IsASeq, LenProperties
<1>4. DOMAIN Append(results, r) = 1 .. Len(results) + 1
  BY <1>1, LenProperties
<1>5. r.account \in Emails
  BY DEF Result
<1> DEFINE a == Append(accountsOf(results), r.account)
           b == accountsOf(Append(results, r))
<1>6. /\ a \in Seq(Emails) /\ Len(a) = Len(results) + 1
      /\ \A k \in 1 .. Len(results) : a[k] = accountsOf(results)[k]
      /\ a[Len(results) + 1] = r.account
  BY <1>3, <1>5, AppendProperties
<1>7. a = [k \in 1 .. Len(results) + 1 |-> a[k]]
  BY <1>6, LenProperties
<1>8. \A k \in 1 .. Len(results) + 1 : a[k] = Append(results, r)[k].account
  BY <1>1, <1>2, <1>6 DEF accountsOf
<1>9. b = [k \in 1 .. Len(results) + 1 |-> Append(results, r)[k].account]
  BY <1>4 DEF accountsOf
<1> HIDE DEF a, b
<1>10. a = b
  BY <1>7, <1>8, <1>9
<1> QED BY <1>3, <1>10 DEF a, b

\* A turn moves the head of what is to be asked behind what was answered.
LEMMA MoveHead ==
  ASSUME NEW S, NEW s \in Seq(S), NEW t \in Seq(S), t # <<>>
  PROVE  Append(s, Head(t)) \o Tail(t) = s \o t
<1>1. Head(t) \in S /\ Tail(t) \in Seq(S) /\ t = <<Head(t)>> \o Tail(t)
  BY HeadTailAppend, HeadTailProperties, ConcatProperties
<1>2. Append(s, Head(t)) = s \o <<Head(t)>> /\ <<Head(t)>> \in Seq(S)
  BY <1>1, AppendIsConcat
<1> QED BY <1>1, <1>2, ConcatAssociative

\* The accounts that were answered and those still to be asked are different.
LEMMA TurnsApart ==
  ASSUME NEW results \in Seq(Result), NEW todo \in Seq(Emails),
         injective(accountsOf(results) \o todo)
  PROVE  /\ \A j, k \in DOMAIN results : results[j].account = results[k].account => j = k
         /\ injective(todo)
         /\ \A k \in DOMAIN results, j \in DOMAIN todo : results[k].account # todo[j]
<1> DEFINE a == accountsOf(results)
           ask == a \o todo
<1>1. /\ Len(results) \in Nat /\ DOMAIN results = 1 .. Len(results)
      /\ Len(todo) \in Nat /\ DOMAIN todo = 1 .. Len(todo)
      /\ \A k \in 1 .. Len(results) : results[k] \in Result
  BY LenProperties, ElementOfSeq
<1>2. /\ a \in Seq(Emails) /\ Len(a) = Len(results)
      /\ \A k \in 1 .. Len(results) : a[k] = results[k].account
  <2>1. a \in [1 .. Len(results) -> Emails]
    BY <1>1 DEF accountsOf, Result
  <2> QED BY <1>1, <2>1, IsASeq, LenProperties DEF accountsOf
<1> HIDE DEF a
<1>3. /\ ask \in Seq(Emails) /\ Len(ask) = Len(results) + Len(todo)
      /\ \A k \in 1 .. Len(results) + Len(todo) :
           ask[k] = IF k <= Len(results) THEN a[k] ELSE todo[k - Len(results)]
  <2>1. /\ ask \in Seq(Emails) /\ Len(ask) = Len(a) + Len(todo)
        /\ \A k \in 1 .. Len(a) + Len(todo) :
             ask[k] = IF k <= Len(a) THEN a[k] ELSE todo[k - Len(a)]
    BY <1>2, ConcatProperties, Zenon
  <2> QED BY <1>2, <2>1, Zenon
<1>4. DOMAIN ask = 1 .. Len(results) + Len(todo)
  BY <1>3, LenProperties
<1> HIDE DEF ask
<1>5. \A j, k \in 1 .. Len(results) + Len(todo) : ask[j] = ask[k] => j = k
  BY <1>4 DEF injective, ask, a
<1>6. \A k \in 1 .. Len(results) : ask[k] = results[k].account
  BY <1>1, <1>2, <1>3
<1>7. \A j \in 1 .. Len(todo) : ask[Len(results) + j] = todo[j]
  BY <1>1, <1>3
<1>8. \A j, k \in DOMAIN results : results[j].account = results[k].account => j = k
  BY <1>1, <1>5, <1>6
<1>9. injective(todo)
  <2>1. ASSUME NEW j \in 1 .. Len(todo), NEW k \in 1 .. Len(todo), todo[j] = todo[k]
        PROVE  j = k
    BY <1>1, <1>5, <1>7, <2>1
  <2> QED BY <1>1, <2>1 DEF injective
<1>10. \A k \in DOMAIN results, j \in DOMAIN todo : results[k].account # todo[j]
  <2>1. ASSUME NEW k \in 1 .. Len(results), NEW j \in 1 .. Len(todo),
               results[k].account = todo[j]
        PROVE  FALSE
    BY <1>1, <1>5, <1>6, <1>7, <2>1
  <2> QED BY <1>1, <2>1
<1> QED BY <1>8, <1>9, <1>10

-----------------------------------------------------------------------------
(* The invariant of the call, over its record s, the accounts ask that it   *)
(* resolved to, those that were removed before their turn, lt, and what was *)
(* listed, sn.                                                              *)

TurnInv(s, ask, lt, sn) ==
  /\ injective(ask)
  /\ ask = accountsOf(s.results) \o s.todo
  /\ s.pc = "idle" => s.results = <<>> /\ s.todo = <<>>
  /\ s.pc = "done" => s.todo = <<>>
  /\ s.pc \in Awaiting => s.todo # <<>>
  /\ s.pc \in {"getAccessToken", "list", "summaries"} =>
       s.token # NoToken /\ s.token.owner = Head(s.todo) /\ Head(s.todo) \notin lt
  /\ s.pc \in {"rejected", "getAccessToken", "list"} =>
       s.ids = <<>> /\ s.i = 0 /\ s.emails = <<>>
  /\ s.pc # "summaries" => s.out = {}
  /\ s.pc = "summaries" =>
       /\ s.ids \in pages(sn[Head(s.todo)])
       /\ s.i < Len(s.ids) /\ s.emails = SubSeq(s.ids, 1, s.i)
       /\ s.out \subseteq chunk(s)

ResultInv(r, lt, sn) ==
  /\ IF r.error THEN r.emails = <<>> ELSE r.emails \in pages(sn[r.account])
  /\ r.account \in lt => r.error

ResultsInv(results, lt, sn) == \A k \in DOMAIN results : ResultInv(results[k], lt, sn)

\* At an await, every account so far has its result or is still to be asked.
InTurn(s, ask, lt, sn) ==
  /\ s \in Search /\ s.todo # <<>>
  /\ injective(ask) /\ ask = accountsOf(s.results) \o s.todo
  /\ ResultsInv(s.results, lt, sn)

\* What is removed has no token, so that its turn cannot get a client.
LateInv(lt) == \A e \in lt : accounts[e] = NoAccount

\* The head of the loop takes the token that the store has at that moment.
LEMMA BeginTurn ==
  ASSUME StoreTypeOK, OwnersKept, NEW s \in Search, NEW lt, LateInv(lt)
  PROVE  /\ begin(s) \in Search
         /\ begin(s).tool = s.tool /\ begin(s).todo = s.todo /\ begin(s).results = s.results
         /\ begin(s).ids = s.ids /\ begin(s).i = s.i /\ begin(s).out = s.out
         /\ begin(s).emails = s.emails
         /\ begin(s).pc \in {"done", "rejected", "getAccessToken"}
         /\ begin(s).pc = "done" <=> s.todo = <<>>
         /\ begin(s).pc = "getAccessToken" =>
              /\ begin(s).token # NoToken /\ begin(s).token.owner = Head(s.todo)
              /\ Head(s.todo) \notin lt
<1>1. CASE s.todo = <<>>
  BY <1>1 DEF begin, Search
<1>2. CASE s.todo # <<>>
  <2> DEFINE e == Head(s.todo)
             refreshToken == getRefreshToken(e)
  <2>1. e \in Emails
    BY <1>2, HeadTailProperties DEF Search
  <2>2. /\ refreshToken \in Token \cup {NoToken}
        /\ refreshToken # NoToken => refreshToken.owner = e /\ e \notin lt
    BY <2>1, RefreshTokenType, OwnerOfRefreshToken DEF LateInv
  <2>3. begin(s) = [s EXCEPT !.token = refreshToken,
                            !.pc = IF refreshToken = NoToken THEN "rejected"
                                                             ELSE "getAccessToken"]
    BY <1>2 DEF begin
  <2> HIDE DEF refreshToken
  <2> QED BY <1>2, <2>2, <2>3 DEF Search, Awaiting
<1> QED BY <1>1, <1>2

LEMMA EmptySeqOfMessages == <<>> \in Seq(Messages)
BY EmptySeq

\* results.push of a row r, and the next turn.
turnOver(s, r) ==
  begin([s EXCEPT !.results = Append(@, r), !.todo = Tail(@), !.ids = <<>>,
                  !.i = 0, !.out = {}, !.emails = <<>>])

LEMMA TurnOver ==
  ASSUME StoreTypeOK, OwnersKept, NEW s, NEW ask, NEW lt, NEW sn, LateInv(lt),
         InTurn(s, ask, lt, sn),
         NEW r \in Result, r.account = Head(s.todo), ResultInv(r, lt, sn)
  PROVE  /\ turnOver(s, r) \in Search
         /\ turnOver(s, r).tool = s.tool
         /\ turnOver(s, r).out = {}
         /\ turnOver(s, r).pc # "summaries"
         /\ turnOver(s, r).todo = Tail(s.todo)
         /\ TurnInv(turnOver(s, r), ask, lt, sn)
         /\ ResultsInv(turnOver(s, r).results, lt, sn)
<1> DEFINE results == Append(s.results, r)
           t == [s EXCEPT !.results = results, !.todo = Tail(s.todo), !.ids = <<>>,
                          !.i = 0, !.out = {}, !.emails = <<>>]
<1>1. /\ s \in Search /\ s.todo # <<>> /\ s.todo \in Seq(Emails) /\ s.results \in Seq(Result)
      /\ injective(ask) /\ ask = accountsOf(s.results) \o s.todo
      /\ ResultsInv(s.results, lt, sn)
  BY DEF Search, InTurn
<1>2. Head(s.todo) \in Emails /\ Tail(s.todo) \in Seq(Emails)
  BY <1>1, HeadTailProperties
<1>3. r \in Result /\ r.account = Head(s.todo)
  OBVIOUS
<1>4. turnOver(s, r) = begin(t)
  BY DEF turnOver
<1>5. /\ results \in Seq(Result)
      /\ accountsOf(results) = Append(accountsOf(s.results), Head(s.todo))
      /\ accountsOf(s.results) \in Seq(Emails)
  BY <1>1, <1>3, AccountsOfAppend, AppendProperties
<1>6. ask = accountsOf(results) \o Tail(s.todo)
  BY <1>1, <1>5, MoveHead
<1>7. ResultsInv(results, lt, sn)
  <2>1. /\ DOMAIN s.results = 1 .. Len(s.results) /\ Len(s.results) \in Nat
        /\ DOMAIN results = 1 .. Len(s.results) + 1
        /\ \A k \in 1 .. Len(s.results) : results[k] = s.results[k]
        /\ results[Len(s.results) + 1] = r
    BY <1>1, <1>3, <1>5, AppendProperties, LenProperties
  <2> HIDE DEF results
  <2>3. ASSUME NEW k \in DOMAIN results PROVE ResultInv(results[k], lt, sn)
    <3>1. CASE k = Len(s.results) + 1
      BY <2>1, <3>1
    <3>2. CASE k # Len(s.results) + 1
      <4>1. k \in DOMAIN s.results /\ results[k] = s.results[k]
        BY <2>1, <3>2
      <4> QED BY <1>1, <4>1 DEF ResultsInv
    <3> QED BY <3>1, <3>2
  <2> QED BY <2>3 DEF ResultsInv
<1> HIDE DEF results
<1>8. /\ t \in Search /\ t.tool = s.tool /\ t.results = results /\ t.todo = Tail(s.todo)
      /\ t.ids = <<>> /\ t.i = 0 /\ t.out = {} /\ t.emails = <<>>
  BY <1>1, <1>2, <1>5, EmptySeqOfMessages DEF Search
<1> HIDE DEF t
<1> DEFINE u == begin(t)
<1>9. /\ u \in Search /\ u.tool = s.tool /\ u.todo = Tail(s.todo) /\ u.results = results
      /\ u.ids = <<>> /\ u.i = 0 /\ u.out = {} /\ u.emails = <<>>
      /\ u.pc \in {"done", "rejected", "getAccessToken"}
      /\ u.pc = "done" <=> u.todo = <<>>
      /\ u.pc = "getAccessToken" =>
           u.token # NoToken /\ u.token.owner = Head(u.todo) /\ Head(u.todo) \notin lt
  BY <1>8, BeginTurn
<1> HIDE DEF u
<1>10. TurnInv(u, ask, lt, sn)
  BY <1>1, <1>6, <1>9 DEF TurnInv, Awaiting
<1> QED BY <1>4, <1>7, <1>9, <1>10 DEF u

\* The turn of an account whose summaries are all there.
wholeTurn(s, ids) == pushes(s, ids, FALSE)

LEMMA WholeTurn ==
  ASSUME StoreTypeOK, OwnersKept, NEW s, NEW ask, NEW lt, NEW sn, LateInv(lt),
         InTurn(s, ask, lt, sn), Head(s.todo) \notin lt,
         NEW ids \in Seq(Messages), ids \in pages(sn[Head(s.todo)])
  PROVE  /\ wholeTurn(s, ids) \in Search
         /\ wholeTurn(s, ids).tool = s.tool
         /\ wholeTurn(s, ids).out = {}
         /\ wholeTurn(s, ids).todo = Tail(s.todo)
         /\ TurnInv(wholeTurn(s, ids), ask, lt, sn)
         /\ ResultsInv(wholeTurn(s, ids).results, lt, sn)
<1> DEFINE r == [account |-> Head(s.todo), emails |-> ids, error |-> FALSE]
<1>1. wholeTurn(s, ids) = turnOver(s, r)
  BY DEF wholeTurn, pushes, turnOver
<1>2. Head(s.todo) \in Emails
  BY HeadTailProperties DEF Search, InTurn
<1>3. r \in Result /\ r.account = Head(s.todo)
  BY <1>2 DEF Result
<1>4. ResultInv(r, lt, sn)
  BY DEF ResultInv
<1> HIDE DEF r
<1>6. /\ turnOver(s, r) \in Search
      /\ turnOver(s, r).tool = s.tool
      /\ turnOver(s, r).out = {}
      /\ turnOver(s, r).todo = Tail(s.todo)
      /\ TurnInv(turnOver(s, r), ask, lt, sn)
      /\ ResultsInv(turnOver(s, r).results, lt, sn)
  BY <1>3, <1>4, TurnOver
<1> QED BY <1>1, <1>6, Zenon

LEMMA ThrowsTurn ==
  ASSUME StoreTypeOK, OwnersKept, NEW s, NEW ask, NEW lt, NEW sn, LateInv(lt),
         InTurn(s, ask, lt, sn)
  PROVE  /\ throws(s) \in Search
         /\ throws(s).tool = s.tool
         /\ throws(s).out = {} /\ throws(s).pc # "summaries"
         /\ throws(s).pc = "threw" \/ throws(s).todo = Tail(s.todo)
         /\ TurnInv(throws(s), ask, lt, sn)
         /\ ResultsInv(throws(s).results, lt, sn)
<1>1. CASE s.tool = "drafts"
  <2> DEFINE t == [s EXCEPT !.pc = "threw", !.out = {}]
  <2>1. throws(s) = t
    BY <1>1 DEF throws
  <2>2. /\ t \in Search /\ t.tool = s.tool /\ t.pc = "threw" /\ t.out = {}
        /\ t.todo = s.todo /\ t.results = s.results
    BY DEF Search, InTurn
  <2> HIDE DEF t
  <2>3. TurnInv(t, ask, lt, sn) /\ ResultsInv(t.results, lt, sn)
    BY <2>2 DEF TurnInv, InTurn, Awaiting
  <2> QED BY <2>1, <2>2, <2>3
<1>2. CASE s.tool # "drafts"
  <2> DEFINE r == [account |-> Head(s.todo), emails |-> <<>>, error |-> TRUE]
  <2>1. throws(s) = turnOver(s, r)
    BY <1>2 DEF throws, pushes, turnOver
  <2>2. Head(s.todo) \in Emails
    BY HeadTailProperties DEF Search, InTurn
  <2>3. r \in Result /\ r.account = Head(s.todo)
    BY <2>2, EmptySeqOfMessages DEF Result
  <2>4. ResultInv(r, lt, sn)
    BY DEF ResultInv
  <2> HIDE DEF r
  <2> QED BY <2>1, <2>3, <2>4, TurnOver
<1> QED BY <1>1, <1>2

LEMMA PagesOfMessages ==
  ASSUME NEW S \in SUBSET Messages, NEW ids \in pages(S)
  PROVE  ids \in Seq(Messages) /\ Len(ids) <= MaxResults /\ \A k \in DOMAIN ids : ids[k] \in S
<1>1. pageSize(S) \in Nat /\ pageSize(S) <= MaxResults
  BY FS_Subset, FS_CardinalityType, SearchConfig DEF pageSize
<1>2. ids \in [1 .. pageSize(S) -> S]
  BY DEF pages
<1>3. ids \in [1 .. pageSize(S) -> Messages]
  BY <1>2
<1>4. ids \in Seq(Messages) /\ Len(ids) = pageSize(S)
  BY <1>1, <1>3, SeqDef, LenProperties
<1> QED BY <1>1, <1>2, <1>4

\* The head of the loop over the chunks, when all before i is fetched.
LEMMA NextChunkTurn ==
  ASSUME StoreTypeOK, OwnersKept, NEW s, NEW ask, NEW lt, NEW sn, LateInv(lt),
         InTurn(s, ask, lt, sn), s.pc = "summaries", s.out = {},
         s.token # NoToken, s.token.owner = Head(s.todo), Head(s.todo) \notin lt,
         s.ids \in pages(sn[Head(s.todo)]),
         s.emails = SubSeq(s.ids, 1, IF s.i < Len(s.ids) THEN s.i ELSE Len(s.ids))
  PROVE  /\ nextChunk(s) \in Search
         /\ nextChunk(s).tool = s.tool
         /\ TurnInv(nextChunk(s), ask, lt, sn)
         /\ ResultsInv(nextChunk(s).results, lt, sn)
<1>1. s.ids \in Seq(Messages) /\ Len(s.ids) \in Nat /\ s.i \in Nat /\ s.todo \in Seq(Emails)
  BY LenProperties DEF Search, InTurn
<1>2. CASE s.i >= Len(s.ids)
  <2>1. s.emails = s.ids
    BY <1>1, <1>2, SubSeqFull
  <2>2. nextChunk(s) = wholeTurn(s, s.ids)
    BY <1>2, <2>1 DEF nextChunk, wholeTurn
  <2> QED BY <1>1, <2>2, WholeTurn
<1>3. CASE s.i < Len(s.ids)
  <2> DEFINE t == [s EXCEPT !.out = chunk(s)]
  <2>1. nextChunk(s) = t
    <3>1. ~(s.i >= Len(s.ids))
      BY <1>1, <1>3
    <3> QED BY <3>1 DEF nextChunk
  <2>2. chunk(s) \subseteq Messages
    BY <1>1, ElementOfSeq, LenProperties DEF chunk
  <2>3. chunk(t) = chunk(s)
    BY DEF chunk, Search, InTurn
  <2>4. /\ t \in Search /\ t.pc = "summaries" /\ t.todo = s.todo /\ t.results = s.results
        /\ t.tool = s.tool /\ t.out = chunk(t) /\ t.token = s.token /\ t.ids = s.ids
        /\ t.i = s.i /\ t.emails = s.emails
    BY <2>2, <2>3 DEF Search, InTurn
  <2> HIDE DEF t
  <2>5. TurnInv(t, ask, lt, sn) /\ ResultsInv(t.results, lt, sn)
    BY <1>1, <1>3, <2>4 DEF TurnInv, InTurn, Awaiting
  <2> QED BY <2>1, <2>4, <2>5
<1> QED BY <1>1, <1>2, <1>3

-----------------------------------------------------------------------------
(* The steps. *)

SearchInv ==
  /\ TypeOK /\ OwnersKept
  /\ TurnInv(search, asked, late, seen)
  /\ ResultsInv(search.results, late, seen)
  /\ LateInv(late)
  /\ ~up => late = {}

LEMMA TypeParts == TypeOK => StoreTypeOK /\ search \in Search
BY DEF TypeOK, Search

\* A step of the call that listed nothing.
LEMMA ProceedStep ==
  ASSUME SearchInv, NEW s \in Search, Proceed(s), seen' = seen, strays' \in SUBSET Messages,
         TurnInv(s, asked, late, seen), ResultsInv(s.results, late, seen)
  PROVE  SearchInv'
<1>1. search' = s /\ UNCHANGED <<storeVars, present, asked, late, seen>>
  BY DEF Proceed
<1>2. TypeOK'
  BY <1>1 DEF SearchInv, TypeOK, StoreTypeOK, storeVars, Search
<1>3. OwnersKept' /\ LateInv(late)' /\ (~up => late = {})'
  BY <1>1 DEF SearchInv, OwnersKept, OwnerKept, LateInv, storeVars
<1>4. TurnInv(search, asked, late, seen)' /\ ResultsInv(search.results, late, seen)'
  BY <1>1 DEF TurnInv, ResultsInv, ResultInv
<1> QED BY <1>2, <1>3, <1>4 DEF SearchInv

\* An account that fails, at any await of its turn.
LEMMA ThrowsStep ==
  ASSUME SearchInv, search.pc \in Awaiting, Proceed(throws(search)), seen' = seen,
         strays' \in SUBSET Messages
  PROVE  SearchInv'
<1>1. /\ StoreTypeOK /\ OwnersKept /\ LateInv(late)
      /\ InTurn(search, asked, late, seen)
  BY TypeParts DEF SearchInv, TurnInv, InTurn
<1>2. /\ throws(search) \in Search /\ TurnInv(throws(search), asked, late, seen)
      /\ ResultsInv(throws(search).results, late, seen)
  BY <1>1, ThrowsTurn
<1> QED BY <1>2, ProceedStep

LEMMA AccessTokenStep == ASSUME SearchInv, AccessTokenReceived PROVE SearchInv'
<1> DEFINE t == [search EXCEPT !.pc = "list"]
<1>1. /\ search \in Search /\ search.pc = "getAccessToken"
      /\ Proceed(t) /\ UNCHANGED <<strays, seen>>
      /\ strays \in SUBSET Messages
      /\ TurnInv(search, asked, late, seen) /\ ResultsInv(search.results, late, seen)
  BY TypeParts DEF SearchInv, AccessTokenReceived, TypeOK
<1>2. /\ t \in Search /\ t.pc = "list" /\ t.todo = search.todo /\ t.results = search.results
      /\ t.token = search.token /\ t.ids = search.ids /\ t.i = search.i
      /\ t.out = search.out /\ t.emails = search.emails
  BY <1>1 DEF Search, Awaiting
<1> HIDE DEF t
<1>3. TurnInv(t, asked, late, seen)
  BY <1>1, <1>2 DEF TurnInv, Awaiting
<1> QED BY <1>1, <1>2, <1>3, ProceedStep

LEMMA InboxOfMessages ==
  ASSUME TypeOK, NEW e
  PROVE  inbox(e) \in SUBSET Messages
BY DEF inbox, TypeOK

LEMMA ListedStep == ASSUME SearchInv, Listed PROVE SearchInv'
<1> DEFINE e == Head(search.todo)
<1>1. /\ TypeOK /\ StoreTypeOK /\ OwnersKept /\ search \in Search /\ LateInv(late)
      /\ (~up => late = {})
      /\ search.pc = "list" /\ search.todo # <<>> /\ search.out = {}
      /\ injective(asked) /\ asked = accountsOf(search.results) \o search.todo
      /\ ResultsInv(search.results, late, seen)
      /\ search.token # NoToken /\ search.token.owner = e /\ e \notin late
      /\ search.i = 0 /\ search.emails = <<>>
  BY TypeParts DEF SearchInv, TurnInv, Listed, Awaiting
<1>2. /\ search.todo \in Seq(Emails) /\ search.results \in Seq(Result) /\ e \in Emails
      /\ e = search.todo[1] /\ 1 \in DOMAIN search.todo
  BY <1>1, HeadTailProperties, LenProperties, EmptySeq DEF Search
<1>3. PICK ids \in pages(inbox(e)) :
        Proceed(nextChunk([search EXCEPT !.pc = "summaries", !.ids = ids]))
  BY <1>1 DEF Listed
<1> DEFINE s == [search EXCEPT !.pc = "summaries", !.ids = ids]
           sn == [seen EXCEPT ![e] = inbox(e)]
<1>4. inbox(e) \in SUBSET Messages /\ seen \in [Emails -> SUBSET Messages]
  BY <1>1, InboxOfMessages DEF TypeOK
<1>5. seen' = sn /\ sn \in [Emails -> SUBSET Messages] /\ sn[e] = inbox(e)
      /\ \A x \in Emails : x # e => sn[x] = seen[x]
  BY <1>1, <1>2, <1>4 DEF Listed
<1>6. ids \in Seq(Messages) /\ Len(ids) \in Nat
  BY <1>3, <1>4, PagesOfMessages, LenProperties
<1>7. /\ s \in Search /\ s.pc = "summaries" /\ s.ids = ids /\ s.todo = search.todo
      /\ s.results = search.results /\ s.token = search.token /\ s.i = 0
      /\ s.emails = <<>> /\ s.out = {} /\ s.tool = search.tool
  BY <1>1, <1>6 DEF Search, Awaiting
<1>8. Proceed(nextChunk(s))
  BY <1>3
<1> HIDE DEF s, sn
<1>9. ResultsInv(search.results, late, sn)
  <2>1. \A k \in DOMAIN search.results : search.results[k].account # e
    BY <1>1, <1>2, TurnsApart
  <2>2. \A k \in DOMAIN search.results : search.results[k].account \in Emails
    <3>1. search.results \in [1 .. Len(search.results) -> Result]
      BY <1>2, LenProperties
    <3> QED BY <3>1 DEF Result
  <2> QED BY <1>1, <1>5, <2>1, <2>2 DEF ResultsInv, ResultInv
<1>10. s.emails = SubSeq(s.ids, 1, IF s.i < Len(s.ids) THEN s.i ELSE Len(s.ids))
  BY <1>6, <1>7, SubSeqEmpty
<1>11. InTurn(s, asked, late, sn)
  BY <1>1, <1>7, <1>9 DEF InTurn
<1>12. /\ nextChunk(s) \in Search /\ TurnInv(nextChunk(s), asked, late, sn)
       /\ ResultsInv(nextChunk(s).results, late, sn)
  BY <1>1, <1>3, <1>5, <1>7, <1>10, <1>11, NextChunkTurn
<1>13. search' = nextChunk(s) /\ UNCHANGED <<storeVars, present, asked, late, strays>>
  BY <1>8 DEF Proceed, Listed
<1>14. TypeOK'
  BY <1>1, <1>5, <1>12, <1>13 DEF TypeOK, StoreTypeOK, storeVars, Search
<1>15. OwnersKept' /\ LateInv(late)' /\ (~up => late = {})'
  BY <1>1, <1>13 DEF OwnersKept, OwnerKept, LateInv, storeVars
<1>16. TurnInv(search, asked, late, seen)' /\ ResultsInv(search.results, late, seen)'
  BY <1>5, <1>12, <1>13 DEF TurnInv, ResultsInv, ResultInv
<1> QED BY <1>14, <1>15, <1>16 DEF SearchInv

LEMMA SummaryReceivedStep ==
  ASSUME SearchInv, NEW m \in Messages, SummaryReceived(m)
  PROVE  SearchInv'
<1> DEFINE s == [search EXCEPT !.out = @ \ {m}]
           upto == IF s.i + Concurrency < Len(s.ids) THEN s.i + Concurrency ELSE Len(s.ids)
           t == [s EXCEPT !.i = @ + Concurrency,
                          !.emails = @ \o SubSeq(s.ids, s.i + 1, upto)]
<1>1. /\ search \in Search /\ search.pc = "summaries" /\ search.todo # <<>>
      /\ StoreTypeOK /\ OwnersKept /\ LateInv(late) /\ InTurn(search, asked, late, seen)
      /\ search.token # NoToken /\ search.token.owner = Head(search.todo)
      /\ Head(search.todo) \notin late /\ search.ids \in pages(seen[Head(search.todo)])
      /\ search.i < Len(search.ids) /\ search.emails = SubSeq(search.ids, 1, search.i)
      /\ search.out \subseteq chunk(search)
      /\ TurnInv(search, asked, late, seen) /\ ResultsInv(search.results, late, seen)
      /\ strays \in SUBSET Messages
  BY TypeParts DEF SearchInv, TurnInv, InTurn, Awaiting, SummaryReceived, TypeOK
<1>2. /\ s \in Search /\ s.pc = "summaries" /\ s.todo = search.todo /\ s.tool = search.tool
      /\ s.results = search.results /\ s.token = search.token /\ s.ids = search.ids
      /\ s.i = search.i /\ s.emails = search.emails /\ s.out = search.out \ {m}
  BY <1>1 DEF Search
<1>3. /\ Proceed(IF s.out # {} THEN s ELSE nextChunk(t))
      /\ UNCHANGED <<strays, seen>>
  BY DEF SummaryReceived
<1> HIDE DEF s
<1>4. CASE s.out # {}
  <2>1. chunk(s) = chunk(search)
    BY <1>2 DEF chunk
  <2>2. TurnInv(s, asked, late, seen) /\ ResultsInv(s.results, late, seen)
    BY <1>1, <1>2, <2>1 DEF TurnInv, Awaiting
  <2>3. Proceed(s)
    BY <1>3, <1>4
  <2> QED BY <1>1, <1>2, <1>3, <2>2, <2>3, ProceedStep
<1>5. CASE s.out = {}
  <2>1. /\ s.ids \in Seq(Messages) /\ Len(s.ids) \in Nat /\ s.i \in Nat
        /\ Concurrency \in Nat /\ upto \in s.i .. Len(s.ids)
        /\ s.i < Len(s.ids) /\ s.emails = SubSeq(s.ids, 1, s.i)
        /\ upto = IF s.i + Concurrency < Len(s.ids) THEN s.i + Concurrency ELSE Len(s.ids)
    BY <1>1, <1>2, LenProperties, SearchConfig DEF Search
  <2> HIDE DEF upto
  <2>2. s.emails \o SubSeq(s.ids, s.i + 1, upto) = SubSeq(s.ids, 1, upto)
    <3>1. 1 \in 1 .. Len(s.ids) + 1 /\ s.i \in 1 - 1 .. Len(s.ids)
      BY <2>1
    <3> QED BY <2>1, <3>1, ConcatAdjacentSubSeq
  <2>3. SubSeq(s.ids, 1, upto) \in Seq(Messages)
    <3>1. s.ids \in [1 .. Len(s.ids) -> Messages]
      BY <2>1, LenProperties
    <3>2. \A k \in 1 .. upto : s.ids[k] \in Messages
      BY <2>1, <3>1
    <3>3. upto \in Int /\ 1 \in Int
      BY <2>1
    <3> QED BY <3>2, <3>3, SubSeqProperties
  <2>4. /\ t \in Search /\ t.pc = "summaries" /\ t.todo = s.todo /\ t.results = s.results
        /\ t.token = s.token /\ t.ids = s.ids /\ t.i = s.i + Concurrency
        /\ t.out = {} /\ t.emails = SubSeq(s.ids, 1, upto)
    <3>1. PICK fetched, j : fetched = SubSeq(s.ids, 1, upto) /\ j = s.i + Concurrency
      OBVIOUS
    <3>2. fetched \in Seq(Messages) /\ j \in Nat
      BY <2>1, <2>3, <3>1
    <3>3. t = [s EXCEPT !.i = j, !.emails = fetched]
      BY <2>2, <3>1
    <3> HIDE DEF t
    <3>4. /\ t \in Search /\ t.pc = s.pc /\ t.todo = s.todo /\ t.results = s.results
          /\ t.token = s.token /\ t.ids = s.ids /\ t.i = j /\ t.out = s.out
          /\ t.emails = fetched
      BY <1>2, <3>2, <3>3 DEF Search
    <3> QED BY <1>2, <1>5, <3>1, <3>4
  <2>5. Proceed(nextChunk(t))
    BY <1>3, <1>5
  <2> HIDE DEF t
  <2>6. t.emails = SubSeq(t.ids, 1, IF t.i < Len(t.ids) THEN t.i ELSE Len(t.ids))
    BY <2>1, <2>4
  <2>7. InTurn(t, asked, late, seen)
    BY <1>1, <1>2, <2>4 DEF InTurn
  <2>8. /\ t.token # NoToken /\ t.token.owner = Head(t.todo) /\ Head(t.todo) \notin late
        /\ t.ids \in pages(seen[Head(t.todo)]) /\ t.pc = "summaries" /\ t.out = {}
    BY <1>1, <1>2, <2>4
  <2>9. /\ nextChunk(t) \in Search /\ TurnInv(nextChunk(t), asked, late, seen)
        /\ ResultsInv(nextChunk(t).results, late, seen)
    BY <1>1, <2>6, <2>7, <2>8, NextChunkTurn
  <2> QED BY <1>1, <1>3, <2>5, <2>9, ProceedStep
<1> QED BY <1>4, <1>5

LEMMA FailStep ==
  ASSUME SearchInv, GetGmailServiceThrew \/ AccountFails \/ \E m \in Messages : SummaryFails(m)
  PROVE  SearchInv'
<1>1. search.pc \in Awaiting /\ Proceed(throws(search)) /\ seen' = seen
  BY DEF GetGmailServiceThrew, AccountFails, SummaryFails, Awaiting
<1>2. strays' \in SUBSET Messages
  BY DEF GetGmailServiceThrew, AccountFails, SummaryFails, SearchInv, TypeOK
<1> QED BY <1>1, <1>2, ThrowsStep

\* A tool is called, for accounts that are all different.
LEMMA CallStep ==
  ASSUME SearchInv, NEW tool \in {"search", "drafts"}, NEW emails \in Seq(Emails),
         injective(emails), Call(tool, emails)
  PROVE  SearchInv'
<1> DEFINE t == [Idle EXCEPT !.tool = tool, !.todo = emails]
           u == begin(t)
<1>1. /\ t \in Search /\ t.todo = emails /\ t.results = <<>> /\ t.ids = <<>> /\ t.i = 0
      /\ t.out = {} /\ t.emails = <<>> /\ t.pc = "idle"
  <2>1. <<>> \in Seq(Emails) /\ <<>> \in Seq(Messages) /\ <<>> \in Seq(Result)
    BY EmptySeq
  <2> QED BY <2>1 DEF Idle, Search
<1>2. search' = u /\ asked' = emails /\ UNCHANGED <<storeVars, present, strays, seen, late>>
  BY DEF Call
<1> HIDE DEF t
<1>3. /\ StoreTypeOK /\ OwnersKept /\ LateInv(late)
  BY TypeParts DEF SearchInv
<1>4. /\ u \in Search /\ u.todo = emails /\ u.results = <<>> /\ u.ids = <<>> /\ u.i = 0
      /\ u.out = {} /\ u.emails = <<>> /\ u.pc \in {"done", "rejected", "getAccessToken"}
      /\ u.pc = "done" <=> emails = <<>>
      /\ u.pc = "getAccessToken" =>
           u.token # NoToken /\ u.token.owner = Head(emails) /\ Head(emails) \notin late
  BY <1>1, <1>3, BeginTurn
<1> HIDE DEF u
<1>5. emails = accountsOf(<<>>) \o emails
  <2>1. accountsOf(<<>>) = <<>>
    BY DEF accountsOf
  <2> QED BY <2>1, ConcatEmptySeq
<1>6. TurnInv(u, emails, late, seen)
  BY <1>4, <1>5 DEF TurnInv, Awaiting
<1>7. ResultsInv(u.results, late, seen)
  BY <1>4 DEF ResultsInv
<1>8. TypeOK'
  BY <1>2, <1>4 DEF SearchInv, TypeOK, StoreTypeOK, storeVars, Search
<1>9. OwnersKept' /\ LateInv(late)' /\ (~up => late = {})'
  BY <1>2 DEF SearchInv, OwnersKept, OwnerKept, LateInv, storeVars
<1>10. TurnInv(search, asked, late, seen)' /\ ResultsInv(search.results, late, seen)'
  BY <1>2, <1>6, <1>7 DEF TurnInv, ResultsInv, ResultInv
<1> QED BY <1>8, <1>9, <1>10 DEF SearchInv

LEMMA OneAccount ==
  ASSUME NEW e \in Emails
  PROVE  <<e>> \in Seq(Emails) /\ injective(<<e>>)
BY DEF injective

LEMMA ToolStep ==
  ASSUME SearchInv, ListAllEmails \/ \E e \in Emails : ListEmails(e) \/ ListDrafts(e)
  PROVE  SearchInv'
<1>1. ASSUME NEW e \in Emails, ListEmails(e) \/ ListDrafts(e) PROVE SearchInv'
  <2>1. Call("search", <<e>>) \/ Call("drafts", <<e>>)
    BY <1>1 DEF ListEmails, ListDrafts
  <2> QED BY <2>1, OneAccount, CallStep
<1>2. CASE ListAllEmails
  <2>1. PICK emails \in orders(connected) : Call("search", emails)
    BY <1>2 DEF ListAllEmails
  <2>2. connected \in SUBSET Emails /\ Cardinality(connected) \in Nat
    BY FS_Subset, FS_CardinalityType, SearchConfig DEF connected
  <2>3. emails \in [1 .. Cardinality(connected) -> Emails] /\ injective(emails)
    BY <2>2 DEF orders
  <2>4. emails \in Seq(Emails)
    BY <2>2, <2>3, SeqDef
  <2> QED BY <2>1, <2>3, <2>4, CallStep
<1> QED BY <1>1, <1>2

LEMMA CallRefusedStep == ASSUME SearchInv, CallRefused PROVE SearchInv'
<1> DEFINE t == [Idle EXCEPT !.tool = "search", !.pc = "threw"]
<1>1. /\ search.pc = "idle" /\ search' = t
      /\ UNCHANGED <<storeVars, present, strays, asked, seen, late>>
  BY DEF CallRefused
<1>2. /\ t \in Search /\ t.todo = <<>> /\ t.results = <<>> /\ t.ids = <<>> /\ t.i = 0
      /\ t.out = {} /\ t.emails = <<>> /\ t.pc = "threw"
  <2>1. <<>> \in Seq(Emails) /\ <<>> \in Seq(Messages) /\ <<>> \in Seq(Result)
    BY EmptySeq
  <2> QED BY <2>1 DEF Idle, Search
<1> HIDE DEF t
<1>3. TurnInv(t, asked, late, seen) /\ ResultsInv(t.results, late, seen)
  BY <1>1, <1>2 DEF SearchInv, TurnInv, ResultsInv, Awaiting
<1>4. TypeOK'
  BY <1>1, <1>2 DEF SearchInv, TypeOK, StoreTypeOK, storeVars, Search
<1>5. OwnersKept' /\ LateInv(late)' /\ (~up => late = {})'
  BY <1>1 DEF SearchInv, OwnersKept, OwnerKept, LateInv, storeVars
<1>6. TurnInv(search, asked, late, seen)' /\ ResultsInv(search.results, late, seen)'
  BY <1>1, <1>3 DEF TurnInv, ResultsInv, ResultInv
<1> QED BY <1>4, <1>5, <1>6 DEF SearchInv

\* Messages go, and answers come that nobody waits for.
LEMMA OthersStep ==
  ASSUME SearchInv, \E m \in Messages : StrayEnds(m) \/ MessageGone(m)
  PROVE  SearchInv'
<1>1. /\ UNCHANGED <<storeVars, search, asked, seen, late>>
      /\ present' \in SUBSET Messages /\ strays' \in SUBSET Messages
  BY DEF StrayEnds, MessageGone, SearchInv, TypeOK
<1>2. TypeOK'
  BY <1>1 DEF SearchInv, TypeOK, StoreTypeOK, storeVars
<1>3. OwnersKept' /\ LateInv(late)' /\ (~up => late = {})'
  BY <1>1 DEF SearchInv, OwnersKept, OwnerKept, LateInv, storeVars
<1>4. TurnInv(search, asked, late, seen)' /\ ResultsInv(search.results, late, seen)'
  BY <1>1 DEF SearchInv, TurnInv, ResultsInv, ResultInv
<1> QED BY <1>2, <1>3, <1>4 DEF SearchInv

LEMMA AccountAddedStep ==
  ASSUME SearchInv, NEW e \in Emails, NEW id \in Grants, AccountAdded(e, id)
  PROVE  SearchInv'
<1> DEFINE t == [owner |-> e, id |-> id]
<1>1. t \in Token /\ t.owner = e
  BY DEF Token
<1>2. /\ addAccount(e, t) /\ addAccount(t.owner, t) /\ late' = late \ {e}
      /\ UNCHANGED <<present, search, strays, asked, seen>>
  BY <1>1 DEF AccountAdded
<1> HIDE DEF t
<1>3. StoreTypeOK' /\ OwnersKept'
  BY <1>1, <1>2, AddAccountType, AddAccountOwners, TypeParts DEF SearchInv
<1>4. /\ up /\ up' = up /\ accounts' = [accounts EXCEPT ![e] = encrypt(t)]
      /\ accounts \in Book /\ late \in SUBSET Emails /\ LateInv(late)
  BY <1>2 DEF addAccount, SearchInv, TypeOK, StoreTypeOK
<1>5. LateInv(late)'
  BY <1>2, <1>4 DEF LateInv, Book
<1>6. TurnInv(search, asked, late, seen)' /\ ResultsInv(search.results, late, seen)'
  BY <1>2 DEF SearchInv, TurnInv, ResultsInv, ResultInv
<1>7. TypeOK'
  BY <1>2, <1>3 DEF SearchInv, TypeOK
<1> QED BY <1>3, <1>4, <1>5, <1>6, <1>7 DEF SearchInv

\* What is removed before its turn has no result and is not at its turn.
LEMMA AccountRemovedStep ==
  ASSUME SearchInv, NEW e \in Emails, AccountRemoved(e)
  PROVE  SearchInv'
<1>1. /\ removeAccount(e) /\ late' = IF waiting(e) THEN late \cup {e} ELSE late
      /\ UNCHANGED <<present, search, strays, asked, seen>>
  BY DEF AccountRemoved
<1>2. /\ search \in Search /\ accounts \in Book /\ late \in SUBSET Emails /\ LateInv(late)
      /\ TurnInv(search, asked, late, seen) /\ ResultsInv(search.results, late, seen)
  BY TypeParts DEF SearchInv, TypeOK, StoreTypeOK
<1>3. StoreTypeOK' /\ OwnersKept'
  BY <1>1, RemoveAccountType, RemoveAccountOwners, TypeParts DEF SearchInv
<1>4. up /\ up' = up /\ accounts' = [accounts EXCEPT ![e] = NoAccount]
  BY <1>1 DEF removeAccount
<1>5. LateInv(late)'
  BY <1>1, <1>2, <1>4 DEF LateInv, Book
<1>6. ASSUME waiting(e)
      PROVE  /\ search.todo # <<>> /\ e # Head(search.todo)
             /\ \A k \in DOMAIN search.results : search.results[k].account # e
  <2>1. /\ search.todo \in Seq(Emails) /\ search.results \in Seq(Result)
        /\ search.todo # <<>> /\ Len(search.todo) \in Nat
        /\ injective(accountsOf(search.results) \o search.todo)
    BY <1>2, <1>6, LenProperties DEF Search, TurnInv, waiting
  <2>2. PICK k \in DOMAIN Tail(search.todo) : Tail(search.todo)[k] = e
    BY <1>6 DEF waiting, elements
  <2>3. /\ k \in 1 .. Len(search.todo) - 1 /\ search.todo[k + 1] = e
        /\ Head(search.todo) = search.todo[1]
        /\ DOMAIN search.todo = 1 .. Len(search.todo)
    <3>1. /\ Tail(search.todo) \in Seq(Emails) /\ Len(Tail(search.todo)) = Len(search.todo) - 1
          /\ \A j \in 1 .. Len(Tail(search.todo)) : Tail(search.todo)[j] = search.todo[j + 1]
          /\ Head(search.todo) = search.todo[1]
      BY <2>1, HeadTailProperties
    <3>2. DOMAIN Tail(search.todo) = 1 .. Len(search.todo) - 1
      BY <3>1, LenProperties
    <3> QED BY <2>1, <2>2, <3>1, <3>2, LenProperties
  <2>4. k + 1 \in DOMAIN search.todo /\ 1 \in DOMAIN search.todo /\ k + 1 # 1
    BY <2>1, <2>3
  <2>5. /\ injective(search.todo)
        /\ \A j \in DOMAIN search.results, n \in DOMAIN search.todo :
             search.results[j].account # search.todo[n]
    BY <2>1, TurnsApart
  <2>6. e # Head(search.todo)
    BY <2>3, <2>4, <2>5 DEF injective
  <2> QED BY <2>1, <2>3, <2>4, <2>5, <2>6
<1>7. TurnInv(search, asked, late, seen)' /\ ResultsInv(search.results, late, seen)'
  BY <1>1, <1>2, <1>6 DEF TurnInv, ResultsInv, ResultInv
<1>8. TypeOK'
  BY <1>1, <1>2, <1>3 DEF SearchInv, TypeOK
<1> QED BY <1>3, <1>4, <1>5, <1>7, <1>8 DEF SearchInv

LEMMA IdleIsFresh ==
  ASSUME NEW lt, NEW sn
  PROVE  /\ Idle \in Search
         /\ TurnInv(Idle, <<>>, lt, sn)
         /\ ResultsInv(Idle.results, lt, sn)
<1>1. <<>> \in Seq(Emails) /\ <<>> \in Seq(Messages) /\ <<>> \in Seq(Result)
  BY EmptySeq
<1>2. Idle \in Search
  BY <1>1 DEF Idle, Search
<1>3. <<>> = accountsOf(<<>>) \o <<>>
  <2>1. accountsOf(<<>>) = <<>>
    BY DEF accountsOf
  <2> QED BY <1>1, <2>1, ConcatEmptySeq
<1>4. injective(<<>>)
  BY DEF injective
<1>5. TurnInv(Idle, <<>>, lt, sn)
  BY <1>3, <1>4 DEF TurnInv, Idle, Awaiting
<1> QED BY <1>2, <1>5 DEF ResultsInv, Idle

LEMMA CrashStep == ASSUME SearchInv, Crash PROVE SearchInv'
<1>1. /\ crash /\ search' = Idle /\ strays' = {} /\ asked' = <<>> /\ late' = {}
      /\ seen' = [e \in Emails |-> {}] /\ present' = present
  BY DEF Crash
<1>2. StoreTypeOK' /\ OwnersKept'
  BY <1>1, CrashType, CrashOwners, TypeParts DEF SearchInv
<1>3. /\ Idle \in Search /\ TurnInv(Idle, <<>>, {}, seen')
      /\ ResultsInv(Idle.results, {}, seen')
  BY IdleIsFresh
<1>4. TurnInv(search, asked, late, seen)' /\ ResultsInv(search.results, late, seen)'
  BY <1>1, <1>3 DEF TurnInv, ResultsInv, ResultInv
<1>5. <<>> \in Seq(Emails)
  BY EmptySeq
<1>6. TypeOK'
  BY <1>1, <1>2, <1>3, <1>5 DEF SearchInv, TypeOK, Search
<1> QED BY <1>1, <1>2, <1>4, <1>6 DEF SearchInv, LateInv

LEMMA RestartStep ==
  ASSUME SearchInv, NEW k \in Keys, NEW env \in Snapshots, Restart(k, env)
  PROVE  SearchInv'
<1>1. start(k, env) /\ UNCHANGED <<present, search, strays, asked, seen, late>>
  BY DEF Restart, searchVars
<1>2. StoreTypeOK' /\ OwnersKept'
  <2>1. env \in Book \cup {Absent, Corrupt} /\ OwnerKept(env)
    BY SnapshotsTaken, SentinelsApart DEF OwnerKept
  <2> QED BY <1>1, <2>1, StartType, StartOwners, TypeParts DEF SearchInv
<1>3. late = {}
  BY <1>1 DEF start, SearchInv
<1>4. TurnInv(search, asked, late, seen)' /\ ResultsInv(search.results, late, seen)'
  BY <1>1 DEF SearchInv, TurnInv, ResultsInv, ResultInv
<1>5. TypeOK'
  BY <1>1, <1>2 DEF SearchInv, TypeOK
<1> QED BY <1>1, <1>2, <1>3, <1>4, <1>5 DEF SearchInv, LateInv

-----------------------------------------------------------------------------
(* The cap on the fetches, given what is known of the turns.  A call that   *)
(* gives up a chunk leaves the fetches behind, and goes on to a mailbox in   *)
(* which it left none.                                                      *)

inBox(S, e) == {m \in S : MailboxOf[m] = e}

\* None of the messages is in a mailbox that is still to be asked.
apart(S, todo) == \A m \in S, k \in DOMAIN todo : MailboxOf[m] # todo[k]

CapInv ==
  /\ \A e \in Emails : \A m \in seen[e] : MailboxOf[m] = e
  /\ search.pc = "idle" => strays = {}
  /\ search.pc \in Awaiting => apart(strays, search.todo)
  /\ \A e \in Emails : Cardinality(inBox(strays, e)) <= Concurrency

LEMMA ChunkIsCapped ==
  ASSUME NEW s \in Search
  PROVE  IsFiniteSet(chunk(s)) /\ Cardinality(chunk(s)) <= Concurrency
<1> DEFINE J == {j \in DOMAIN s.ids : s.i < j /\ j <= s.i + Concurrency}
           f == [j \in J |-> s.ids[j]]
           lo == s.i + 1
           hi == s.i + Concurrency
<1>1. /\ s.i \in Nat /\ Concurrency \in Nat \ {0} /\ DOMAIN s.ids \subseteq Nat
  BY LenProperties, SearchConfig DEF Search
<1>2. lo \in Int /\ hi \in Int /\ hi - lo + 1 = Concurrency /\ ~(lo > hi)
      /\ J \in SUBSET (lo .. hi)
  BY <1>1
<1>3. f \in Surjection(J, chunk(s))
  BY DEF Surjection, chunk
<1> HIDE DEF J, f, lo, hi
<1>4. IsFiniteSet(lo .. hi) /\ Cardinality(lo .. hi) = Concurrency
  BY <1>2, FS_Interval
<1>5. IsFiniteSet(J) /\ Cardinality(J) <= Concurrency
  BY <1>2, <1>4, FS_Subset
<1>6. IsFiniteSet(chunk(s)) /\ Cardinality(chunk(s)) <= Cardinality(J)
  BY <1>3, <1>5, FS_Surjection
<1>7. Cardinality(J) \in Nat /\ Cardinality(chunk(s)) \in Nat
  BY <1>5, <1>6, FS_CardinalityType
<1> QED BY <1>1, <1>5, <1>6, <1>7

\* At an await of a turn, the fetches in flight are of the mailbox at its turn,
\* and none of an earlier chunk is.
LEMMA FetchesOfTheTurn ==
  ASSUME SearchInv, CapInv
  PROVE  /\ IsFiniteSet(search.out) /\ Cardinality(search.out) <= Concurrency
         /\ \A m \in search.out : MailboxOf[m] = Head(search.todo)
         /\ search.out # {} => search.pc = "summaries" /\ inBox(strays, Head(search.todo)) = {}
<1>1. search \in Search /\ TurnInv(search, asked, late, seen) /\ seen \in [Emails -> SUBSET Messages]
  BY TypeParts DEF SearchInv, TypeOK
<1>2. CASE search.out = {}
  <2>1. Cardinality({}) <= Concurrency
    BY FS_EmptySet, SearchConfig
  <2> QED BY <1>2, <2>1, FS_EmptySet
<1>3. CASE search.out # {}
  <2>1. /\ search.pc = "summaries" /\ search.todo # <<>> /\ search.todo \in Seq(Emails)
        /\ search.ids \in pages(seen[Head(search.todo)]) /\ search.out \subseteq chunk(search)
    BY <1>1, <1>3 DEF TurnInv, Awaiting, Search
  <2>2. Head(search.todo) \in Emails /\ 1 \in DOMAIN search.todo
        /\ search.todo[1] = Head(search.todo)
    BY <2>1, HeadTailProperties, LenProperties, EmptySeq
  <2>3. \A k \in DOMAIN search.ids : search.ids[k] \in seen[Head(search.todo)]
    BY <1>1, <2>1, <2>2, PagesOfMessages
  <2>4. \A m \in search.out : MailboxOf[m] = Head(search.todo)
    BY <2>1, <2>2, <2>3 DEF chunk, CapInv
  <2>5. inBox(strays, Head(search.todo)) = {}
    BY <2>1, <2>2 DEF CapInv, apart, inBox, Awaiting
  <2>6. IsFiniteSet(search.out) /\ Cardinality(search.out) <= Cardinality(chunk(search))
        /\ IsFiniteSet(chunk(search)) /\ Cardinality(chunk(search)) <= Concurrency
    BY <1>1, <2>1, ChunkIsCapped, FS_Subset
  <2>7. /\ Cardinality(search.out) \in Nat /\ Cardinality(chunk(search)) \in Nat
        /\ Concurrency \in Nat
    BY <2>6, FS_CardinalityType, SearchConfig
  <2>8. Cardinality(search.out) <= Concurrency
    BY <2>6, <2>7
  <2> QED BY <2>1, <2>4, <2>5, <2>6, <2>8
<1> QED BY <1>2, <1>3

\* Every list that is left is one that is still to be asked.
LEMMA TailIsApart ==
  ASSUME NEW todo \in Seq(Emails), todo # <<>>, NEW S, apart(S, todo)
  PROVE  apart(S, Tail(todo))
<1>1. \A k \in DOMAIN Tail(todo) : \E j \in DOMAIN todo : Tail(todo)[k] = todo[j]
  <2>1. /\ Tail(todo) \in Seq(Emails) /\ Len(Tail(todo)) = Len(todo) - 1 /\ Len(todo) \in Nat
        /\ \A j \in 1 .. Len(Tail(todo)) : Tail(todo)[j] = todo[j + 1]
    BY HeadTailProperties, LenProperties
  <2>2. DOMAIN Tail(todo) = 1 .. Len(todo) - 1 /\ DOMAIN todo = 1 .. Len(todo)
    BY <2>1, LenProperties
  <2> QED BY <2>1, <2>2
<1> QED BY <1>1 DEF apart

LEMMA HeadIsNotInTail ==
  ASSUME NEW todo \in Seq(Emails), todo # <<>>, injective(todo)
  PROVE  \A k \in DOMAIN Tail(todo) : Tail(todo)[k] # Head(todo)
<1>1. /\ Tail(todo) \in Seq(Emails) /\ Len(Tail(todo)) = Len(todo) - 1 /\ Len(todo) \in Nat
      /\ \A j \in 1 .. Len(Tail(todo)) : Tail(todo)[j] = todo[j + 1]
      /\ Head(todo) = todo[1]
  BY HeadTailProperties, LenProperties
<1>2. DOMAIN Tail(todo) = 1 .. Len(todo) - 1 /\ DOMAIN todo = 1 .. Len(todo)
  BY <1>1, LenProperties
<1>3. ASSUME NEW k \in 1 .. Len(todo) - 1 PROVE Tail(todo)[k] # Head(todo)
  <2>1. /\ k + 1 \in 1 .. Len(todo) /\ 1 \in 1 .. Len(todo) /\ k + 1 # 1
        /\ Tail(todo)[k] = todo[k + 1]
    BY <1>1
  <2> QED BY <1>1, <1>2, <2>1 DEF injective
<1> QED BY <1>2, <1>3

\* The call goes on with the mailbox at its turn, or with the ones after it.
LEMMA NextChunkTodo ==
  ASSUME NEW s, DOMAIN s = DOMAIN Idle, s.pc # "idle"
  PROVE  nextChunk(s).todo \in {s.todo, Tail(s.todo)} /\ nextChunk(s).pc # "idle"
<1>1. CASE s.i >= Len(s.ids)
  BY <1>1 DEF nextChunk, pushes, begin, Idle
<1>2. CASE ~(s.i >= Len(s.ids))
  BY <1>2 DEF nextChunk, Idle
<1> QED BY <1>1, <1>2

\* Fetches that are left behind end, and none is added.
LEMMA CapFollows ==
  ASSUME SearchInv, CapInv, strays' \subseteq strays,
         \A e \in Emails : \A m \in seen'[e] : MailboxOf[m] = e,
         search'.pc = "idle" => strays' = {},
         search'.pc \in Awaiting => apart(strays, search'.todo)
  PROVE  CapInv'
<1>1. search'.pc \in Awaiting => apart(strays', search'.todo)
  BY DEF apart
<1>2. ASSUME NEW e \in Emails PROVE Cardinality(inBox(strays', e)) <= Concurrency
  <2>1. /\ inBox(strays', e) \in SUBSET inBox(strays, e)
        /\ inBox(strays, e) \in SUBSET Messages /\ IsFiniteSet(Messages)
    BY SearchConfig DEF inBox, SearchInv, TypeOK
  <2>2. IsFiniteSet(inBox(strays, e)) /\ IsFiniteSet(inBox(strays', e))
        /\ Cardinality(inBox(strays', e)) <= Cardinality(inBox(strays, e))
    BY <2>1, FS_Subset
  <2>3. /\ Cardinality(inBox(strays, e)) \in Nat /\ Cardinality(inBox(strays', e)) \in Nat
        /\ Concurrency \in Nat
    BY <2>2, FS_CardinalityType, SearchConfig
  <2> QED BY <2>2, <2>3 DEF CapInv
<1>3. CapInv' <=> /\ \A e \in Emails : \A m \in seen'[e] : MailboxOf[m] = e
                  /\ search'.pc = "idle" => strays' = {}
                  /\ search'.pc \in Awaiting => apart(strays', search'.todo)
                  /\ \A e \in Emails : Cardinality(inBox(strays', e)) <= Concurrency
  BY DEF CapInv, apart, inBox
<1> QED BY <1>1, <1>2, <1>3

\* Where the call goes when an account fails: on, or out.
LEMMA ThrowsTodo ==
  ASSUME SearchInv, search.pc \in Awaiting
  PROVE  /\ search.todo \in Seq(Emails) /\ search.todo # <<>> /\ injective(search.todo)
         /\ throws(search).pc = "threw" \/ throws(search).todo = Tail(search.todo)
         /\ throws(search).pc # "idle"
<1>1. /\ StoreTypeOK /\ OwnersKept /\ LateInv(late) /\ search \in Search
      /\ InTurn(search, asked, late, seen)
  BY TypeParts DEF SearchInv, TurnInv, InTurn
<1>2. throws(search).pc = "threw" \/ throws(search).todo = Tail(search.todo)
  BY <1>1, ThrowsTurn
<1>3. /\ search.todo \in Seq(Emails) /\ search.results \in Seq(Result) /\ search.todo # <<>>
      /\ injective(accountsOf(search.results) \o search.todo)
  BY <1>1 DEF Search, InTurn
<1>4. injective(search.todo)
  BY <1>3, TurnsApart
<1>5. throws(search).pc # "idle"
  BY <1>1 DEF throws, pushes, begin, Search
<1> QED BY <1>2, <1>3, <1>4, <1>5

LEMMA CapFail ==
  ASSUME SearchInv, CapInv, GetGmailServiceThrew \/ AccountFails
  PROVE  CapInv'
<1>1. /\ search.pc \in Awaiting /\ search' = throws(search) /\ UNCHANGED <<strays, seen>>
  BY DEF GetGmailServiceThrew, AccountFails, Proceed, Awaiting
<1>2. search'.pc # "idle" /\ (search'.pc \in Awaiting => search'.todo = Tail(search.todo))
  BY <1>1, ThrowsTodo DEF Awaiting
<1>3. apart(strays, Tail(search.todo))
  BY <1>1, ThrowsTodo, TailIsApart DEF CapInv
<1> QED BY <1>1, <1>2, <1>3, CapFollows DEF CapInv

\* A chunk that is given up leaves its fetches to a mailbox that had none left
\* behind and that is not asked again.
LEMMA CapSummaryFails ==
  ASSUME SearchInv, CapInv, NEW m \in Messages, SummaryFails(m)
  PROVE  CapInv'
<1> DEFINE e == Head(search.todo)
           left == strays \cup (search.out \ {m})
<1>1. /\ search.pc \in Awaiting /\ search' = throws(search) /\ UNCHANGED seen
      /\ strays' = left /\ m \in search.out
  BY DEF SummaryFails, Proceed, Awaiting
<1>2. search'.pc # "idle" /\ (search'.pc \in Awaiting => search'.todo = Tail(search.todo))
  BY <1>1, ThrowsTodo DEF Awaiting
<1>3. apart(strays, Tail(search.todo)) /\ \A k \in DOMAIN Tail(search.todo) : Tail(search.todo)[k] # e
  BY <1>1, ThrowsTodo, TailIsApart, HeadIsNotInTail DEF CapInv
<1>4. /\ IsFiniteSet(search.out) /\ Cardinality(search.out) <= Concurrency
      /\ \A n \in search.out : MailboxOf[n] = e
      /\ inBox(strays, e) = {}
  BY <1>1, FetchesOfTheTurn
<1>5. apart(left, Tail(search.todo))
  BY <1>3, <1>4 DEF apart
<1>6. ASSUME NEW x \in Emails PROVE Cardinality(inBox(left, x)) <= Concurrency
  <2>1. CASE x = e
    <3>1. inBox(left, x) \in SUBSET search.out
      BY <1>4, <2>1 DEF inBox
    <3>2. IsFiniteSet(inBox(left, x)) /\ Cardinality(inBox(left, x)) <= Cardinality(search.out)
      BY <1>4, <3>1, FS_Subset
    <3>3. /\ Cardinality(inBox(left, x)) \in Nat /\ Cardinality(search.out) \in Nat
          /\ Concurrency \in Nat
      BY <1>4, <3>2, FS_CardinalityType, SearchConfig
    <3> QED BY <1>4, <3>2, <3>3
  <2>2. CASE x # e
    <3>1. inBox(left, x) = inBox(strays, x)
      BY <1>4, <2>2 DEF inBox
    <3> QED BY <3>1 DEF CapInv
  <2> QED BY <2>1, <2>2
<1> HIDE DEF left
<1>7. search'.pc \in Awaiting => apart(strays', search'.todo)
  BY <1>1, <1>2, <1>5
<1>8. \A x \in Emails : Cardinality(inBox(strays', x)) <= Concurrency
  BY <1>1, <1>6
<1>9. CapInv' <=> /\ \A x \in Emails : \A n \in seen'[x] : MailboxOf[n] = x
                  /\ search'.pc = "idle" => strays' = {}
                  /\ search'.pc \in Awaiting => apart(strays', search'.todo)
                  /\ \A x \in Emails : Cardinality(inBox(strays', x)) <= Concurrency
  BY DEF CapInv, apart, inBox
<1> QED BY <1>1, <1>2, <1>7, <1>8, <1>9 DEF CapInv

\* The list of a mailbox holds messages of that mailbox.
LEMMA CapListed == ASSUME SearchInv, CapInv, Listed PROVE CapInv'
<1> DEFINE e == Head(search.todo)
<1>1. /\ TypeOK /\ search \in Search /\ search.pc = "list" /\ search.todo # <<>>
      /\ search.token.owner = e /\ search.todo \in Seq(Emails) /\ apart(strays, search.todo)
  BY TypeParts DEF SearchInv, TurnInv, Listed, Awaiting, CapInv, Search
<1>2. PICK ids \in pages(inbox(e)) :
        Proceed(nextChunk([search EXCEPT !.pc = "summaries", !.ids = ids]))
  BY <1>1 DEF Listed
<1> DEFINE s == [search EXCEPT !.pc = "summaries", !.ids = ids]
<1>3. ids \in Seq(Messages)
  BY <1>1, <1>2, InboxOfMessages, PagesOfMessages
<1>4. s.pc = "summaries" /\ s.todo = search.todo /\ DOMAIN s = DOMAIN Idle
  BY <1>1, <1>3 DEF Search, Awaiting, Idle
<1>5. search' = nextChunk(s) /\ UNCHANGED strays /\ seen' = [seen EXCEPT ![e] = inbox(e)]
  BY <1>1, <1>2 DEF Proceed, Listed
<1> HIDE DEF s
<1>6. search'.todo \in {search.todo, Tail(search.todo)} /\ search'.pc # "idle"
  <2>1. nextChunk(s).todo \in {s.todo, Tail(s.todo)} /\ nextChunk(s).pc # "idle"
    BY <1>4, NextChunkTodo
  <2> QED BY <1>4, <1>5, <2>1
<1>7. apart(strays, search'.todo)
  BY <1>1, <1>6, TailIsApart
<1>8. \A x \in Emails : \A m \in seen'[x] : MailboxOf[m] = x
  <2>1. seen \in [Emails -> SUBSET Messages]
    BY <1>1 DEF TypeOK
  <2> QED BY <1>5, <2>1 DEF CapInv, inbox
<1> QED BY <1>5, <1>6, <1>7, <1>8, CapFollows

LEMMA CapSummaryReceived ==
  ASSUME SearchInv, CapInv, NEW m \in Messages, SummaryReceived(m)
  PROVE  CapInv'
<1>1. /\ search \in Search /\ search.todo \in Seq(Emails) /\ search.todo # <<>>
      /\ search.pc = "summaries" /\ apart(strays, search.todo) /\ UNCHANGED <<strays, seen>>
  BY TypeParts DEF SearchInv, TurnInv, SummaryReceived, Awaiting, CapInv, Search
<1>2. PICK s : s = [search EXCEPT !.out = @ \ {m}]
  OBVIOUS
<1>3. PICK t : t = [s EXCEPT !.i = @ + Concurrency,
                             !.emails = @ \o SubSeq(s.ids, s.i + 1,
                                IF s.i + Concurrency < Len(s.ids) THEN s.i + Concurrency
                                                                  ELSE Len(s.ids))]
  OBVIOUS
<1>4. search' = IF s.out # {} THEN s ELSE nextChunk(t)
  BY <1>2, <1>3 DEF SummaryReceived, Proceed
<1>5. /\ s.todo = search.todo /\ s.pc = "summaries" /\ DOMAIN s = DOMAIN Idle
      /\ t.todo = search.todo /\ t.pc = "summaries" /\ DOMAIN t = DOMAIN Idle
  BY <1>1, <1>2, <1>3 DEF Search, Idle
<1>6. search'.todo \in {search.todo, Tail(search.todo)} /\ search'.pc # "idle"
  BY <1>4, <1>5, NextChunkTodo
<1>7. apart(strays, search'.todo)
  BY <1>1, <1>6, TailIsApart
<1> QED BY <1>1, <1>6, <1>7, CapFollows DEF CapInv

\* A call that begins finds no fetch of another one.
LEMMA CapCall ==
  ASSUME SearchInv, CapInv,
         CallRefused \/ ListAllEmails \/ \E e \in Emails : ListEmails(e) \/ ListDrafts(e)
  PROVE  CapInv'
<1>1. strays = {} /\ UNCHANGED <<strays, seen>>
  BY DEF CallRefused, ListAllEmails, ListEmails, ListDrafts, Call, CapInv
<1>2. search'.pc = "idle" => strays' = {}
  BY <1>1
<1>3. apart(strays, search'.todo)
  BY <1>1 DEF apart
<1> QED BY <1>1, <1>2, <1>3, CapFollows DEF CapInv

LEMMA CapInit == Init => CapInv
<1> SUFFICES ASSUME Init PROVE CapInv
  OBVIOUS
<1>1. strays = {} /\ \A e \in Emails : inBox(strays, e) = {} /\ seen[e] = {}
  BY DEF Init, inBox
<1>2. Cardinality({}) <= Concurrency
  BY FS_EmptySet, SearchConfig
<1> QED BY <1>1, <1>2 DEF CapInv, apart

LEMMA CapStep == SearchInv /\ CapInv /\ [Next]_vars => CapInv'
<1> SUFFICES ASSUME SearchInv, CapInv, [Next]_vars PROVE CapInv'
  OBVIOUS
<1>1. CASE UNCHANGED vars
  <2>1. UNCHANGED <<search, strays, seen>>
    BY <1>1 DEF vars, searchVars
  <2> QED BY <2>1 DEF CapInv, apart, inBox
<1>2. CASE CallProceeds
  <2>1. CASE AccessTokenReceived
    <3>1. search' = [search EXCEPT !.pc = "list"] /\ UNCHANGED <<strays, seen>>
          /\ search.pc \in Awaiting /\ search \in Search
      BY <2>1, TypeParts DEF AccessTokenReceived, Proceed, Awaiting, SearchInv
    <3>2. search'.todo = search.todo /\ search'.pc = "list"
      BY <3>1 DEF Search
    <3> QED BY <3>1, <3>2, CapFollows DEF CapInv
  <2> QED BY <1>2, <2>1, CapFail, CapSummaryFails, CapListed, CapSummaryReceived DEF CallProceeds
<1>3. CASE CallRefused \/ ListAllEmails \/ \E e \in Emails : ListEmails(e) \/ ListDrafts(e)
  BY <1>3, CapCall
<1>4. CASE \E m \in Messages : StrayEnds(m) \/ MessageGone(m)
  <2>1. strays' \subseteq strays /\ UNCHANGED <<search, seen>>
    BY <1>4 DEF StrayEnds, MessageGone
  <2>2. search'.pc = "idle" => strays' = {}
    BY <2>1 DEF CapInv
  <2> QED BY <2>1, <2>2, CapFollows DEF CapInv
<1>5. CASE \/ \E e \in Emails, id \in Grants : AccountAdded(e, id)
           \/ \E e \in Emails : AccountRemoved(e)
           \/ \E k \in Keys, env \in Snapshots : Restart(k, env)
  <2>1. UNCHANGED <<search, strays, seen>>
    BY <1>5 DEF AccountAdded, AccountRemoved, Restart, searchVars
  <2> QED BY <2>1 DEF CapInv, apart, inBox
<1>6. CASE Crash
  <2>1. /\ strays' = {} /\ search' = Idle /\ seen' = [e \in Emails |-> {}]
    BY <1>6 DEF Crash
  <2>2. search'.pc \in Awaiting => apart(strays, search'.todo)
    BY <2>1 DEF Idle, Awaiting
  <2> QED BY <2>1, <2>2, CapFollows
<1> QED BY <1>1, <1>2, <1>3, <1>4, <1>5, <1>6 DEF Next

-----------------------------------------------------------------------------
(* The theorems. *)

LEMMA SearchInit == Init => SearchInv
<1> SUFFICES ASSUME Init PROVE SearchInv
  OBVIOUS
<1>1. StoreTypeOK /\ OwnersKept
  BY StoreInitOwners DEF Init
<1>2. /\ Idle \in Search /\ TurnInv(Idle, <<>>, late, seen)
      /\ ResultsInv(Idle.results, late, seen)
  BY IdleIsFresh
<1>3. <<>> \in Seq(Emails)
  BY EmptySeq
<1>4. TypeOK
  BY <1>1, <1>2, <1>3 DEF Init, TypeOK, Search
<1> QED BY <1>1, <1>2, <1>4 DEF Init, SearchInv, LateInv

LEMMA SearchStep == SearchInv /\ [Next]_vars => SearchInv'
<1> SUFFICES ASSUME SearchInv, [Next]_vars PROVE SearchInv'
  OBVIOUS
<1>1. CASE UNCHANGED vars
  <2>1. UNCHANGED <<storeVars, present, search, strays, asked, seen, late>>
    BY <1>1 DEF vars, searchVars
  <2>2. TypeOK' /\ OwnersKept' /\ LateInv(late)' /\ (~up => late = {})'
    BY <2>1 DEF SearchInv, TypeOK, StoreTypeOK, OwnersKept, OwnerKept, LateInv, storeVars
  <2>3. TurnInv(search, asked, late, seen)' /\ ResultsInv(search.results, late, seen)'
    BY <2>1 DEF SearchInv, TurnInv, ResultsInv, ResultInv
  <2> QED BY <2>2, <2>3 DEF SearchInv
<1>2. CASE CallProceeds
  BY <1>2, FailStep, AccessTokenStep, ListedStep, SummaryReceivedStep DEF CallProceeds
<1>3. CASE ListAllEmails \/ \E e \in Emails : ListEmails(e) \/ ListDrafts(e)
  BY <1>3, ToolStep
<1>4. CASE CallRefused
  BY <1>4, CallRefusedStep
<1>5. CASE \E m \in Messages : StrayEnds(m) \/ MessageGone(m)
  BY <1>5, OthersStep
<1>6. CASE \E e \in Emails, id \in Grants : AccountAdded(e, id)
  BY <1>6, AccountAddedStep
<1>7. CASE \E e \in Emails : AccountRemoved(e)
  BY <1>7, AccountRemovedStep
<1>8. CASE Crash
  BY <1>8, CrashStep
<1>9. CASE \E k \in Keys, env \in Snapshots : Restart(k, env)
  BY <1>9, RestartStep
<1> QED BY <1>1, <1>2, <1>3, <1>4, <1>5, <1>6, <1>7, <1>8, <1>9 DEF Next

LEMMA SearchHolds == Spec => []SearchInv
BY SearchInit, SearchStep, PTL DEF Spec

\* Type correctness of the call, of the mailboxes and of the store.
THEOREM TypeCorrect == Spec => []TypeOK
<1>1. SearchInv => TypeOK
  BY DEF SearchInv
<1> QED BY <1>1, SearchHolds, PTL

\* No account is lost and none is asked twice, whichever of them fail or are
\* removed while the loop over them awaits another.
THEOREM EveryAccountIsAnswered == Spec => []EveryAccountAnswers
<1>1. SearchInv => EveryAccountAnswers
  BY DEF SearchInv, TurnInv, EveryAccountAnswers, accountsOf
<1> QED BY <1>1, SearchHolds, PTL

\* A result without an error is the whole page that Gmail listed, in its order,
\* for any page and chunk sizes and any order of the answers to the fetches.
THEOREM AnswersAreWhole == Spec => []AnswerIsWhole
<1>1. SearchInv => AnswerIsWhole
  BY DEF SearchInv, ResultsInv, ResultInv, AnswerIsWhole
<1> QED BY <1>1, SearchHolds, PTL

\* What an admin removed before its turn is not read.
THEOREM RemovedAreNotRead == Spec => []RemovedIsNotRead
<1>1. SearchInv => RemovedIsNotRead
  BY DEF SearchInv, ResultsInv, ResultInv, RemovedIsNotRead
<1> QED BY <1>1, SearchHolds, PTL

\* However the fetches of a chunk end, and whatever is left of a chunk that was
\* given up, no mailbox has more of them at once than the cap.
THEOREM FetchesCapped == Spec => []FetchesAreCapped
<1>1. Spec => []CapInv
  BY CapInit, CapStep, SearchHolds, PTL DEF Spec
<1>2. SearchInv /\ CapInv => FetchesAreCapped
  <2> SUFFICES ASSUME SearchInv, CapInv, NEW e \in Emails
               PROVE  Cardinality(inBox(search.out \cup strays, e)) <= Concurrency
    BY DEF FetchesAreCapped, inBox
  <2>1. /\ IsFiniteSet(search.out) /\ Cardinality(search.out) <= Concurrency
        /\ \A m \in search.out : MailboxOf[m] = Head(search.todo)
        /\ search.out # {} => search.pc = "summaries" /\ inBox(strays, Head(search.todo)) = {}
    BY FetchesOfTheTurn
  <2>2. CASE e = Head(search.todo) /\ search.out # {}
    <3>1. inBox(search.out \cup strays, e) = search.out
      BY <2>1, <2>2 DEF inBox
    <3> QED BY <2>1, <3>1
  <2>3. CASE ~(e = Head(search.todo) /\ search.out # {})
    <3>1. inBox(search.out \cup strays, e) = inBox(strays, e)
      BY <2>1, <2>3 DEF inBox
    <3> QED BY <3>1 DEF CapInv
  <2> QED BY <2>2, <2>3
<1> QED BY <1>1, <1>2, SearchHolds, PTL

-----------------------------------------------------------------------------
(* The store under the search. *)

LEMMA StoreStep == TypeOK /\ [Next]_vars => [StoreNext]_storeVars
<1> SUFFICES ASSUME TypeOK, [Next]_vars, ~UNCHANGED storeVars PROVE StoreNext
  OBVIOUS
<1>1. ASSUME NEW e \in Emails, NEW id \in Grants, AccountAdded(e, id) PROVE StoreNext
  <2> DEFINE t == [owner |-> e, id |-> id]
  <2>1. t \in Token /\ t.owner = e
    BY DEF Token
  <2>2. addAccount(t.owner, t)
    BY <1>1, <2>1 DEF AccountAdded
  <2> QED BY <2>1, <2>2 DEF StoreNext
<1>2. ASSUME NEW e \in Emails, AccountRemoved(e) PROVE StoreNext
  BY <1>2 DEF AccountRemoved, StoreNext
<1>3. CASE Crash
  BY <1>3 DEF Crash, StoreNext
<1>4. ASSUME NEW k \in Keys, NEW env \in Snapshots, Restart(k, env) PROVE StoreNext
  <2>1. env \in Book \cup {Absent, Corrupt}
    BY SnapshotsTaken
  <2> QED BY <1>4, <2>1 DEF Restart, StoreNext
<1> QED
  BY <1>1, <1>2, <1>3, <1>4
  DEF Next, vars, storeVars, ListEmails, ListDrafts, ListAllEmails, Call, CallRefused, CallProceeds,
      Proceed, GetGmailServiceThrew, AccessTokenReceived, AccountFails, Listed, SummaryReceived,
      SummaryFails, StrayEnds, MessageGone

\* A search reads the store, and what changes it meanwhile is an operation of it,
\* so that accounts stay recoverable and survive a restart during a search too.
THEOREM ImplementsStore == Spec => StoreSpec
<1>1. Init => StoreInit
  BY DEF Init
<1> QED BY <1>1, TypeCorrect, StoreStep, PTL DEF Spec, StoreSpec

=============================================================================
