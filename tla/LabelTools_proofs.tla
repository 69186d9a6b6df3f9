-------------------------- MODULE LabelTools_proofs --------------------------
(***************************************************************************)
(* A filter is stored as it was asked for, and the answers of the label    *)
(* tools are true, for any number of labels and concurrent calls and       *)
(* however often the user deletes labels that are made anew.               *)
(***************************************************************************)
EXTENDS LabelTools, TLAPS

Pc == {"idle", "adding", "create", "removing", "get", "modify", "store",
       "refused", "conflict", "failed", "applied", "removed", "absent", "stored"}

Call == [tool : {"none", "apply", "remove", "filter"}, pc : Pc,
         add : SUBSET Names, remove : SUBSET Names, todo : SUBSET UserLabels,
         making : SUBSET UserLabels, addIds : SUBSET Label, removeIds : SUBSET Label]

-----------------------------------------------------------------------------
(* The names of the ids. *)

LEMMA NamesOfNone == namesOf({}) = {}
BY DEF namesOf

LEMMA NamesOfOneMore ==
  ASSUME NEW ids, NEW l
  PROVE  namesOf(ids \cup {l}) = namesOf(ids) \cup {l.name}
BY DEF namesOf

LEMMA CurrentIsLabel ==
  ASSUME TypeOK, NEW n \in Names
  PROVE  current(n) \in Label /\ current(n).name = n
BY LabelConfig DEF TypeOK, current, Label, Names, System

LEMMA SystemIds ==
  ASSUME TypeOK, NEW names \in SUBSET Names
  PROVE  /\ systemIds(names) \in SUBSET Label
         /\ namesOf(systemIds(names)) = names \cap System
<1>1. \A n \in System : current(n) \in Label /\ current(n).name = n
  BY CurrentIsLabel DEF Names
<1> QED BY <1>1 DEF systemIds, namesOf

-----------------------------------------------------------------------------
(* What a call has resolved so far, by where it is.  A name is resolved or  *)
(* still to be resolved, in both lists.                                     *)

CallInv(r) ==
  /\ r.pc \in {"adding", "create"} =>
       /\ r.tool \in {"apply", "filter"}
       /\ namesOf(r.addIds) \cup r.todo = r.add
       /\ r.making \subseteq r.todo
       /\ r.removeIds = {}
  /\ r.pc = "removing" =>
       /\ r.tool \in {"remove", "filter"}
       /\ r.tool = "filter" => namesOf(r.addIds) = r.add
       /\ namesOf(r.removeIds) \cup r.todo = r.remove
       /\ r.tool = "remove" => r.todo = r.remove
  /\ r.pc \in {"removing", "get", "modify"} /\ r.tool = "remove" =>
       /\ r.addIds = {}
       /\ \A m, n \in r.remove : m = n
       /\ r.pc # "removing" => namesOf(r.removeIds) = r.remove
  /\ r.pc = "get" => r.tool = "remove"
  /\ r.pc = "modify" =>
       /\ r.tool \in {"apply", "remove"}
       /\ r.tool = "apply" => namesOf(r.addIds) = r.add /\ r.removeIds = {}
  /\ r.pc = "store" =>
       /\ r.tool = "filter"
       /\ namesOf(r.addIds) = r.add /\ namesOf(r.removeIds) = r.remove
       /\ r.addIds \cup r.removeIds # {}

\* A call that stores a filter is over.
StoredOnce == \A f \in filters : req[f.by].pc \in {"stored", "failed"}

LabelInv == TypeOK /\ StoredOnce /\ \A q \in Requests : CallInv(req[q])

LEMMA filterListsInv ==
  ASSUME NEW r \in Call, r.tool = "filter",
         namesOf(r.addIds) = r.add, namesOf(r.removeIds) = r.remove
  PROVE  /\ filterLists(r) \in Call /\ CallInv(filterLists(r))
         /\ filterLists(r).pc \in {"refused", "store"}
BY DEF filterLists, Call, Pc, CallInv

LEMMA addedInv ==
  ASSUME TypeOK, NEW r \in Call, r.tool \in {"apply", "filter"},
         namesOf(r.addIds) = r.add, r.removeIds = {}
  PROVE  /\ added(r) \in Call /\ CallInv(added(r))
         /\ added(r).pc \in {"modify", "removing", "refused", "store"}
<1>1. CASE r.tool = "apply"
  BY <1>1 DEF added, Call, Pc, CallInv
<1>2. CASE r.tool = "filter"
  <2> DEFINE s == [r EXCEPT !.pc = "removing", !.todo = r.remove \cap UserLabels,
                            !.removeIds = systemIds(r.remove)]
  <2>1. /\ systemIds(r.remove) \in SUBSET Label
        /\ namesOf(systemIds(r.remove)) = r.remove \cap System
    BY SystemIds DEF Call
  <2>2. /\ s \in Call /\ s.tool = "filter" /\ s.pc = "removing"
        /\ s.todo = r.remove \cap UserLabels /\ s.removeIds = systemIds(r.remove)
        /\ s.add = r.add /\ s.addIds = r.addIds /\ s.remove = r.remove
    BY <1>2, <2>1 DEF Call, Pc
  <2>3. namesOf(s.removeIds) \cup s.todo = s.remove
    BY <2>1, <2>2 DEF Call, Names
  <2>4. added(r) = IF s.todo = {} THEN filterLists(s) ELSE s
    BY <1>2 DEF added
  <2> HIDE DEF s
  <2>5. CASE s.todo = {}
    BY <2>2, <2>3, <2>4, <2>5, filterListsInv
  <2>6. CASE s.todo # {}
    BY <1>2, <2>2, <2>3, <2>4, <2>6 DEF CallInv
  <2> QED BY <2>5, <2>6
<1> QED BY <1>1, <1>2

LEMMA addsInv ==
  ASSUME TypeOK, NEW r \in Call, CallInv(r), r.pc \in {"adding", "create"},
         NEW l \in Label, l.name \in r.todo
  PROVE  /\ adds(r, l) \in Call /\ CallInv(adds(r, l))
         /\ adds(r, l).pc \in {"adding", "modify", "removing", "refused", "store"}
<1> DEFINE s == [r EXCEPT !.pc = "adding", !.making = {},
                          !.addIds = @ \cup {l}, !.todo = @ \ {l.name}]
<1>1. /\ s \in Call /\ s.tool = r.tool /\ s.pc = "adding" /\ s.making = {}
      /\ s.todo = r.todo \ {l.name} /\ s.addIds = r.addIds \cup {l}
      /\ s.add = r.add /\ s.removeIds = r.removeIds
  BY DEF Call, Pc
<1>2. namesOf(s.addIds) \cup s.todo = s.add /\ s.tool \in {"apply", "filter"}
      /\ s.removeIds = {}
  BY <1>1, NamesOfOneMore DEF CallInv
<1>3. adds(r, l) = IF s.todo = {} THEN added(s) ELSE s
  BY DEF adds
<1> HIDE DEF s
<1>4. CASE s.todo = {}
  BY <1>1, <1>2, <1>3, <1>4, addedInv
<1>5. CASE s.todo # {}
  BY <1>1, <1>2, <1>3, <1>5 DEF CallInv
<1> QED BY <1>4, <1>5

LEMMA removesInv ==
  ASSUME NEW r \in Call, CallInv(r), r.pc = "removing",
         NEW l \in Label, l.name \in r.todo
  PROVE  /\ removes(r, l) \in Call /\ CallInv(removes(r, l))
         /\ removes(r, l).pc \in {"removing", "get", "refused", "store"}
<1> DEFINE s == [r EXCEPT !.todo = @ \ {l.name}, !.removeIds = @ \cup {l}]
<1>1. /\ s \in Call /\ s.tool = r.tool /\ s.pc = "removing" /\ s.addIds = r.addIds
      /\ s.todo = r.todo \ {l.name} /\ s.removeIds = r.removeIds \cup {l}
      /\ s.add = r.add /\ s.remove = r.remove
  BY DEF Call, Pc
<1>2. namesOf(s.removeIds) \cup s.todo = s.remove
  BY <1>1, NamesOfOneMore DEF CallInv
<1>3. removes(r, l) = IF r.tool = "remove" THEN [s EXCEPT !.pc = "get"]
                      ELSE IF s.todo = {} THEN filterLists(s) ELSE s
  BY DEF removes
<1> HIDE DEF s
<1>4. CASE r.tool = "remove"
  <2> DEFINE t == [s EXCEPT !.pc = "get"]
  <2>1. /\ t \in Call /\ t.pc = "get" /\ t.tool = "remove" /\ t.addIds = r.addIds
        /\ t.removeIds = s.removeIds /\ t.remove = s.remove
    BY <1>1, <1>4 DEF Call, Pc
  <2>2. s.todo = {} /\ r.addIds = {} /\ \A m, n \in r.remove : m = n
    <3>1. /\ r.todo = r.remove /\ r.addIds = {} /\ \A m, n \in r.remove : m = n
      BY <1>4 DEF CallInv
    <3> QED BY <1>1, <3>1
  <2>3. removes(r, l) = t
    BY <1>3, <1>4
  <2>4. namesOf(t.removeIds) = t.remove
    BY <1>2, <2>1, <2>2
  <2> HIDE DEF t
  <2>5. CallInv(t)
    BY <1>1, <2>1, <2>2, <2>4 DEF CallInv
  <2> QED BY <2>1, <2>3, <2>5
<1>5. CASE r.tool = "filter" /\ s.todo = {}
  <2>1. namesOf(s.addIds) = s.add /\ namesOf(s.removeIds) = s.remove
    BY <1>1, <1>2, <1>5 DEF CallInv
  <2>2. removes(r, l) = filterLists(s)
    BY <1>3, <1>5
  <2> QED BY <1>1, <1>5, <2>1, <2>2, filterListsInv
<1>6. CASE r.tool = "filter" /\ s.todo # {}
  BY <1>1, <1>2, <1>3, <1>6 DEF CallInv
<1> QED BY <1>4, <1>5, <1>6 DEF CallInv

\* A call that has gone past its conditions.
LEMMA OverInv ==
  ASSUME NEW r \in Call, NEW pc \in Pc,
         pc \notin {"adding", "create", "removing", "get", "modify", "store"}
  PROVE  /\ [r EXCEPT !.pc = pc] \in Call /\ [r EXCEPT !.pc = pc].pc = pc
         /\ CallInv([r EXCEPT !.pc = pc])
BY DEF Call, Pc, CallInv

-----------------------------------------------------------------------------
(* Steps of the system. *)

MailboxOK ==
  /\ gen \in [UserLabels -> 0 .. MaxGens]
  /\ live \in SUBSET UserLabels
  /\ on \in SUBSET Label
  /\ filters \in SUBSET [by : Requests, add : SUBSET Label, remove : SUBSET Label]

LEMMA TypeOKParts == TypeOK <=> MailboxOK /\ req \in [Requests -> Call]
BY DEF TypeOK, MailboxOK, Call, Pc

Going(q) == req[q].pc \notin {"stored", "failed"}

\* A step of one call that stores nothing.
LEMMA OneCall ==
  ASSUME LabelInv, NEW q \in Requests, Going(q), MailboxOK', filters' = filters,
         NEW r \in Call, CallInv(r), req' = [req EXCEPT ![q] = r]
  PROVE  LabelInv'
<1>1. req \in [Requests -> Call] /\ req' \in [Requests -> Call] /\ req'[q] = r
      /\ \A p \in Requests : p # q => req'[p] = req[p]
  BY TypeOKParts DEF LabelInv
<1>2. StoredOnce'
  BY <1>1, TypeOKParts DEF LabelInv, StoredOnce, Going, MailboxOK
<1>3. \A p \in Requests : CallInv(req'[p])
  BY <1>1 DEF LabelInv
<1>4. TypeOK'
  BY <1>1, TypeOKParts DEF TypeOK, MailboxOK, Call, Pc
<1> QED BY <1>2, <1>3, <1>4 DEF LabelInv

LEMMA SameMailbox ==
  ASSUME LabelInv, UNCHANGED <<gen, live, on, filters>>
  PROVE  MailboxOK'
BY TypeOKParts DEF LabelInv, MailboxOK

LEMMA IdleIsCall == Idle \in Call /\ CallInv(Idle)
BY DEF Idle, Call, Pc, CallInv

LEMMA StartStep ==
  ASSUME LabelInv, NEW q \in Requests, NEW tool \in {"apply", "filter"},
         NEW add \in SUBSET Names, NEW remove \in SUBSET Names,
         Start(q, tool, add, remove)
  PROVE  LabelInv'
<1> DEFINE r == [Idle EXCEPT !.tool = tool, !.add = add, !.remove = remove, !.pc = "adding",
                             !.todo = add \cap UserLabels, !.addIds = systemIds(add)]
<1>1. /\ systemIds(add) \in SUBSET Label
      /\ namesOf(systemIds(add)) = add \cap System
  BY SystemIds DEF LabelInv
<1>2. /\ r \in Call /\ r.tool = tool /\ r.pc = "adding" /\ r.todo = add \cap UserLabels
      /\ r.addIds = systemIds(add) /\ r.add = add /\ r.removeIds = {} /\ r.making = {}
  BY <1>1 DEF Call, Pc, Idle
<1>3. namesOf(r.addIds) \cup r.todo = r.add
  BY <1>1, <1>2 DEF Names
<1>4. /\ req' = [req EXCEPT ![q] = IF r.todo = {} THEN added(r) ELSE r]
      /\ UNCHANGED <<gen, live, on, filters>> /\ Going(q)
  BY DEF Start, Going
<1> HIDE DEF r
<1>5. CASE r.todo = {}
  <2>1. added(r) \in Call /\ CallInv(added(r))
    BY <1>2, <1>3, <1>5, addedInv DEF LabelInv
  <2> QED BY <1>4, <1>5, <2>1, OneCall, SameMailbox
<1>6. CASE r.todo # {}
  <2>1. CallInv(r)
    BY <1>2, <1>3 DEF CallInv
  <2> QED BY <1>2, <1>4, <1>6, <2>1, OneCall, SameMailbox
<1> QED BY <1>5, <1>6

LEMMA removeLabelStep ==
  ASSUME LabelInv, NEW q \in Requests, NEW n \in Names, removeLabel(q, n)
  PROVE  LabelInv'
<1> DEFINE r == [Idle EXCEPT !.tool = "remove", !.remove = {n}, !.todo = {n} \cap UserLabels,
                             !.removeIds = systemIds({n}),
                             !.pc = IF n \in System THEN "get" ELSE "removing"]
<1>1. /\ systemIds({n}) \in SUBSET Label
      /\ namesOf(systemIds({n})) = {n} \cap System
  BY SystemIds DEF LabelInv
<1>2. /\ r \in Call /\ r.tool = "remove" /\ r.pc = IF n \in System THEN "get" ELSE "removing"
      /\ r.todo = {n} \cap UserLabels /\ r.addIds = {} /\ r.remove = {n}
      /\ r.removeIds = systemIds({n})
  BY <1>1 DEF Call, Pc, Idle
<1>3. req' = [req EXCEPT ![q] = r] /\ UNCHANGED <<gen, live, on, filters>> /\ Going(q)
  BY DEF removeLabel, Going
<1> HIDE DEF r
<1>4. CallInv(r)
  BY <1>1, <1>2 DEF CallInv, Names
<1> QED BY <1>2, <1>3, <1>4, OneCall, SameMailbox

LEMMA removeSystemLabelStep ==
  ASSUME LabelInv, NEW q \in Requests, NEW n \in System, removeSystemLabel(q, n)
  PROVE  LabelInv'
<1> DEFINE r == [Idle EXCEPT !.tool = "remove", !.pc = "modify", !.remove = {n},
                             !.removeIds = systemIds({n})]
<1>0. n \in Names /\ {n} \cap System = {n}
  BY DEF Names
<1>1. /\ systemIds({n}) \in SUBSET Label /\ namesOf(systemIds({n})) = {n} /\ n \in Names
  BY <1>0, SystemIds DEF LabelInv
<1>2. /\ r \in Call /\ r.tool = "remove" /\ r.pc = "modify" /\ r.addIds = {}
      /\ r.remove = {n} /\ r.removeIds = systemIds({n})
  BY <1>1 DEF Call, Pc, Idle
<1>3. req' = [req EXCEPT ![q] = r] /\ UNCHANGED <<gen, live, on, filters>> /\ Going(q)
  BY DEF removeSystemLabel, Going
<1> HIDE DEF r
<1>4. CallInv(r)
  BY <1>1, <1>2 DEF CallInv
<1> QED BY <1>2, <1>3, <1>4, OneCall, SameMailbox

\* What is stored is stored by one call, which is then over.
LEMMA StoreStep ==
  ASSUME LabelInv, NEW q \in Requests, req[q].pc = "store", StoreFilter(q),
         NEW pc \in {"stored", "failed"}, req' = [req EXCEPT ![q].pc = pc]
  PROVE  LabelInv'
<1>1. /\ MailboxOK /\ req \in [Requests -> Call] /\ StoredOnce
      /\ \A p \in Requests : CallInv(req[p])
  BY TypeOKParts DEF LabelInv
<1> DEFINE r == [req[q] EXCEPT !.pc = pc]
<1>2. r \in Call /\ r.pc = pc /\ CallInv(r)
  <2>1. pc \in Pc \ {"adding", "create", "removing", "get", "modify", "store"}
    BY DEF Pc
  <2>2. req[q] \in Call
    BY <1>1
  <2> QED BY <2>1, <2>2, OverInv
<1>r. req' = [req EXCEPT ![q] = r]
  OBVIOUS
<1> HIDE DEF r
<1>3. /\ req' \in [Requests -> Call] /\ req'[q].pc = pc /\ CallInv(req'[q])
      /\ \A p \in Requests : p # q => req'[p] = req[p]
  BY <1>1, <1>2, <1>r
<1>4. req[q].addIds \in SUBSET Label /\ req[q].removeIds \in SUBSET Label
  BY <1>1 DEF Call
<1>5. MailboxOK'
  BY <1>1, <1>4 DEF StoreFilter, MailboxOK
<1>6. StoredOnce'
  BY <1>1, <1>3 DEF StoreFilter, StoredOnce, MailboxOK
<1>7. TypeOK'
  BY <1>3, <1>5, TypeOKParts DEF TypeOK, MailboxOK, Call, Pc
<1>8. \A p \in Requests : CallInv(req'[p])
  BY <1>1, <1>3
<1> QED BY <1>6, <1>7, <1>8 DEF LabelInv

LEMMA RelabelType ==
  ASSUME LabelInv, NEW q \in Requests, Relabel(q)
  PROVE  MailboxOK' /\ filters' = filters
<1>1. MailboxOK /\ req[q] \in Call
  BY TypeOKParts DEF LabelInv
<1> QED BY <1>1 DEF Relabel, MailboxOK, Call

LEMMA makeLabelType ==
  ASSUME LabelInv, NEW n \in UserLabels, makeLabel(n), UNCHANGED <<on, filters>>
  PROVE  /\ MailboxOK'
         /\ [name |-> n, gen |-> gen[n] + 1] \in Label
<1>1. MailboxOK
  BY TypeOKParts DEF LabelInv
<1>2. gen[n] + 1 \in 0 .. MaxGens
  BY <1>1, LabelConfig DEF makeLabel, MailboxOK
<1> QED BY <1>1, <1>2 DEF makeLabel, MailboxOK, Label, Names

LEMMA CallFailsStep ==
  ASSUME LabelInv, NEW q \in Requests, CallFails(q)
  PROVE  LabelInv'
<1> DEFINE r == [req[q] EXCEPT !.pc = "failed"]
<1>1. req[q] \in Call /\ Going(q) /\ req' = [req EXCEPT ![q] = r]
  BY TypeOKParts DEF LabelInv, CallFails, Going
<1>2. r \in Call /\ CallInv(r)
  BY <1>1, OverInv DEF Pc
<1> HIDE DEF r
<1>3. CASE UNCHANGED <<gen, live, on, filters>>
  BY <1>1, <1>2, <1>3, OneCall, SameMailbox
<1>4. CASE Relabel(q)
  BY <1>1, <1>2, <1>4, OneCall, RelabelType
<1>5. CASE req[q].pc = "store" /\ StoreFilter(q)
  BY <1>5, StoreStep DEF CallFails
<1>6. CASE (\E n \in req[q].making \ live : makeLabel(n)) /\ UNCHANGED <<on, filters>>
  <2>1. MailboxOK'
    BY <1>1, <1>6, makeLabelType DEF Call
  <2> QED BY <1>1, <1>2, <1>6, <2>1, OneCall
<1> QED BY <1>3, <1>4, <1>5, <1>6 DEF CallFails

LEMMA LabelStep == LabelInv /\ [Next]_vars => LabelInv'
<1> SUFFICES ASSUME LabelInv, [Next]_vars PROVE LabelInv'
  OBVIOUS
<1>0. MailboxOK /\ req \in [Requests -> Call] /\ TypeOK
  BY TypeOKParts DEF LabelInv
<1>1. CASE UNCHANGED vars
  BY <1>1 DEF vars, LabelInv, TypeOK, StoredOnce
<1>2. ASSUME NEW q \in Requests, NEW n \in Names, applyLabel(q, n) \/ removeLabel(q, n)
      PROVE  LabelInv'
  BY <1>2, StartStep, removeLabelStep DEF applyLabel
<1>3. ASSUME NEW q \in Requests, NEW n \in System, removeSystemLabel(q, n)
      PROVE  LabelInv'
  BY <1>3, removeSystemLabelStep
<1>4. ASSUME NEW q \in Requests, NEW add \in SUBSET Names, NEW remove \in SUBSET Names,
             NEW shouldTrash \in BOOLEAN, createFilter(q, add, remove, shouldTrash)
      PROVE  LabelInv'
  <2> DEFINE names == add \cup (IF shouldTrash THEN {"TRASH"} ELSE {})
  <2>1. names \in SUBSET Names /\ Start(q, "filter", names, remove)
    BY <1>4 DEF createFilter, Names, System
  <2> HIDE DEF names
  <2> QED BY <2>1, StartStep
<1>5. ASSUME NEW q \in Requests, NoCriteria(q) PROVE LabelInv'
  <2> DEFINE r == [Idle EXCEPT !.tool = "filter", !.pc = "refused"]
  <2>1. r \in Call /\ CallInv(r)
    BY DEF Idle, Call, Pc, CallInv
  <2>2. req' = [req EXCEPT ![q] = r] /\ UNCHANGED <<gen, live, on, filters>> /\ Going(q)
    BY <1>5 DEF NoCriteria, Going
  <2> HIDE DEF r
  <2> QED BY <2>1, <2>2, OneCall, SameMailbox
<1>6. ASSUME NEW q \in Requests, NEW n \in UserLabels, ListedToAdd(q, n) PROVE LabelInv'
  <2>1. /\ req[q].pc = "adding" /\ n \in req[q].todo /\ n \in Names
        /\ req[q] \in Call /\ CallInv(req[q])
        /\ UNCHANGED <<gen, live, on, filters>> /\ Going(q)
    BY <1>0, <1>6 DEF ListedToAdd, Going, LabelInv, Names
  <2>2. CASE n \in live
    <3>1. adds(req[q], current(n)) \in Call /\ CallInv(adds(req[q], current(n)))
      BY <1>0, <2>1, CurrentIsLabel, addsInv
    <3>2. req' = [req EXCEPT ![q] = adds(req[q], current(n))]
      BY <1>6, <2>2 DEF ListedToAdd
    <3> QED BY <2>1, <3>1, <3>2, OneCall, SameMailbox
  <2>3. CASE n \notin live
    <3> DEFINE r == [req[q] EXCEPT !.pc = "create", !.making = {n}]
    <3>1. /\ r \in Call /\ r.pc = "create" /\ r.making = {n} /\ r.tool = req[q].tool
          /\ r.addIds = req[q].addIds /\ r.todo = req[q].todo /\ r.add = req[q].add
          /\ r.removeIds = req[q].removeIds
      BY <2>1 DEF Call, Pc
    <3>2. req' = [req EXCEPT ![q] = r]
      BY <1>6, <2>3 DEF ListedToAdd
    <3> HIDE DEF r
    <3>3. CallInv(r)
      BY <2>1, <3>1 DEF CallInv
    <3> QED BY <2>1, <3>1, <3>2, <3>3, OneCall, SameMailbox
  <2> QED BY <2>2, <2>3
<1>7. ASSUME NEW q \in Requests, NEW n \in UserLabels, ListedToRemove(q, n) PROVE LabelInv'
  <2>1. /\ req[q].pc = "removing" /\ n \in req[q].todo /\ n \in Names
        /\ req[q] \in Call /\ CallInv(req[q])
        /\ UNCHANGED <<gen, live, on, filters>> /\ Going(q)
    BY <1>0, <1>7 DEF ListedToRemove, Going, LabelInv, Names
  <2>2. CASE n \in live
    <3>1. removes(req[q], current(n)) \in Call /\ CallInv(removes(req[q], current(n)))
      BY <1>0, <2>1, CurrentIsLabel, removesInv
    <3>2. req' = [req EXCEPT ![q] = removes(req[q], current(n))]
      BY <1>7, <2>2 DEF ListedToRemove
    <3> QED BY <2>1, <3>1, <3>2, OneCall, SameMailbox
  <2>3. CASE n \notin live
    <3>1. lacks(req[q], n) \in Call /\ CallInv(lacks(req[q], n))
      BY <2>1, OverInv DEF lacks, Pc
    <3>2. req' = [req EXCEPT ![q] = lacks(req[q], n)]
      BY <1>7, <2>3 DEF ListedToRemove
    <3> QED BY <2>1, <3>1, <3>2, OneCall, SameMailbox
  <2> QED BY <2>2, <2>3
<1>8. ASSUME NEW q \in Requests, LabelCreated(q) PROVE LabelInv'
  <2>1. PICK n \in req[q].making \ live :
          /\ makeLabel(n)
          /\ req' = [req EXCEPT ![q] = adds(req[q], [name |-> n, gen |-> gen[n] + 1])]
    BY <1>8 DEF LabelCreated
  <2>2. /\ req[q].pc = "create" /\ UNCHANGED <<on, filters>> /\ Going(q)
        /\ req[q] \in Call /\ CallInv(req[q])
    BY <1>0, <1>8 DEF LabelCreated, Going, LabelInv
  <2>3. n \in UserLabels /\ n \in req[q].todo
    BY <2>1, <2>2 DEF Call, CallInv
  <2> DEFINE l == [name |-> n, gen |-> gen[n] + 1]
  <2>4. MailboxOK' /\ l \in Label /\ l.name = n
    BY <2>1, <2>2, <2>3, makeLabelType
  <2> HIDE DEF l
  <2>5. adds(req[q], l) \in Call /\ CallInv(adds(req[q], l))
    BY <1>0, <2>2, <2>3, <2>4, addsInv
  <2>6. req' = [req EXCEPT ![q] = adds(req[q], l)]
    BY <2>1 DEF l
  <2> QED BY <2>2, <2>4, <2>5, <2>6, OneCall
<1>9. ASSUME NEW q \in Requests, CreateConflicts(q) PROVE LabelInv'
  <2> DEFINE r == [req[q] EXCEPT !.pc = "conflict"]
  <2>1. req' = [req EXCEPT ![q] = r] /\ UNCHANGED <<gen, live, on, filters>> /\ Going(q)
    BY <1>9 DEF CreateConflicts, Going
  <2>2. r \in Call /\ CallInv(r)
    BY <1>0, OverInv DEF Pc
  <2> HIDE DEF r
  <2> QED BY <2>1, <2>2, OneCall, SameMailbox
<1>10. ASSUME NEW q \in Requests, MessageGot(q) PROVE LabelInv'
  <2>1. /\ req[q].pc = "get" /\ req[q] \in Call /\ CallInv(req[q]) /\ Going(q)
        /\ UNCHANGED <<gen, live, on, filters>>
    BY <1>0, <1>10 DEF MessageGot, Going, LabelInv
  <2>2. CASE req[q].removeIds \subseteq on
    <3> DEFINE r == [req[q] EXCEPT !.pc = "modify"]
    <3>1. req' = [req EXCEPT ![q] = r]
      BY <1>10, <2>2 DEF MessageGot
    <3>2. /\ r \in Call /\ r.pc = "modify" /\ r.tool = req[q].tool
          /\ r.addIds = req[q].addIds /\ r.removeIds = req[q].removeIds
          /\ r.remove = req[q].remove /\ r.add = req[q].add
      BY <2>1 DEF Call, Pc
    <3> HIDE DEF r
    <3>3. CallInv(r)
      BY <2>1, <3>2 DEF CallInv
    <3> QED BY <2>1, <3>1, <3>2, <3>3, OneCall, SameMailbox
  <2>3. CASE ~(req[q].removeIds \subseteq on)
    <3> DEFINE r == [req[q] EXCEPT !.pc = "absent"]
    <3>1. req' = [req EXCEPT ![q] = r]
      BY <1>10, <2>3 DEF MessageGot
    <3>2. r \in Call /\ CallInv(r)
      BY <2>1, OverInv DEF Pc
    <3> HIDE DEF r
    <3> QED BY <2>1, <3>1, <3>2, OneCall, SameMailbox
  <2> QED BY <2>2, <2>3
<1>11. ASSUME NEW q \in Requests, Modified(q) PROVE LabelInv'
  <2> DEFINE r == [req[q] EXCEPT !.pc = IF req[q].tool = "apply" THEN "applied" ELSE "removed"]
  <2>1. req' = [req EXCEPT ![q] = r] /\ Relabel(q) /\ Going(q)
    BY <1>11 DEF Modified, Going
  <2>2. r \in Call /\ CallInv(r)
    BY <1>0, OverInv DEF Pc
  <2> HIDE DEF r
  <2> QED BY <2>1, <2>2, OneCall, RelabelType
<1>12. ASSUME NEW q \in Requests, FilterStored(q) PROVE LabelInv'
  BY <1>12, StoreStep DEF FilterStored
<1>13. ASSUME NEW q \in Requests, CallFails(q) PROVE LabelInv'
  BY <1>13, CallFailsStep
<1>14. ASSUME NEW n \in UserLabels, LabelDeleted(n) PROVE LabelInv'
  <2>1. MailboxOK' /\ UNCHANGED <<filters, req>>
    BY <1>0, <1>14 DEF LabelDeleted, MailboxOK
  <2>2. TypeOK'
    BY <1>0, <2>1 DEF TypeOK, MailboxOK
  <2> QED BY <2>1, <2>2 DEF LabelInv, StoredOnce
<1> QED
  BY <1>1, <1>2, <1>3, <1>4, <1>5, <1>6, <1>7, <1>8, <1>9, <1>10, <1>11, <1>12, <1>13, <1>14
  DEF Next, archiveEmail, System

LEMMA LabelInit == Init => LabelInv
<1> SUFFICES ASSUME Init PROVE LabelInv
  OBVIOUS
<1>1. gen \in [UserLabels -> 0 .. MaxGens] /\ live \in SUBSET UserLabels
  BY LabelConfig DEF Init
<1>2. \A n \in Names : current(n) \in Label
  BY <1>1, LabelConfig DEF current, Label, Names, System
<1>3. on \in SUBSET Label
  BY <1>1, <1>2 DEF Init, Names, System
<1>4. TypeOK
  BY <1>1, <1>3, IdleIsCall, TypeOKParts DEF Init, MailboxOK
<1> QED BY <1>4, IdleIsCall DEF Init, LabelInv, StoredOnce

\* Type correctness.
THEOREM TypeCorrect == Spec => []TypeOK
<1>1. LabelInv => TypeOK
  BY DEF LabelInv
<1> QED BY <1>1, LabelInit, LabelStep, PTL DEF Spec

-----------------------------------------------------------------------------
(* The filters. *)

LEMMA OnlyStoreFilter ==
  ASSUME Next, filters' # filters
  PROVE  \E q \in Requests : req[q].pc = "store" /\ StoreFilter(q)
BY DEF Next, applyLabel, removeLabel, archiveEmail, removeSystemLabel, createFilter, Start,
       NoCriteria, ListedToAdd, ListedToRemove, LabelCreated, CreateConflicts, MessageGot,
       Modified, Relabel, FilterStored, CallFails, LabelDeleted

\* A filter is stored as it was asked for, by ids Gmail knows, and once, for any
\* labels and calls and however often labels are deleted and made anew.
THEOREM FiltersAreAsAsked == Spec => FilterIsWhatWasAsked
<1>1. ASSUME LabelInv, Next, NEW f \in filters' \ filters
      PROVE  /\ req[f.by].tool = "filter"
             /\ namesOf(f.add) = req[f.by].add /\ namesOf(f.remove) = req[f.by].remove
             /\ f.add # {} \/ f.remove # {}
             /\ \A l \in f.add \cup f.remove : exists(l)
             /\ \A g \in filters : g.by # f.by
  <2>1. PICK q \in Requests : req[q].pc = "store" /\ StoreFilter(q)
    BY <1>1, OnlyStoreFilter
  <2>2. f.by = q /\ f.add = req[q].addIds /\ f.remove = req[q].removeIds
    BY <1>1, <2>1 DEF StoreFilter
  <2>3. CallInv(req[q]) /\ StoredOnce
    BY <1>1 DEF LabelInv
  <2>4. \A g \in filters : g.by # q
    BY <2>1, <2>3 DEF StoredOnce
  <2> QED BY <2>1, <2>2, <2>3, <2>4 DEF CallInv, StoreFilter
<1>2. LabelInv /\ [Next]_vars =>
        [\A f \in filters' \ filters :
           /\ req[f.by].tool = "filter"
           /\ namesOf(f.add) = req[f.by].add /\ namesOf(f.remove) = req[f.by].remove
           /\ f.add # {} \/ f.remove # {}
           /\ \A l \in f.add \cup f.remove : exists(l)
           /\ \A g \in filters : g.by # f.by]_vars
  BY <1>1
<1> QED BY <1>2, LabelInit, LabelStep, PTL DEF Spec, FilterIsWhatWasAsked

-----------------------------------------------------------------------------
(* The answers. *)

Answers == {"applied", "removed", "absent"}

LEMMA OnlyAnswers ==
  ASSUME LabelInv, Next, NEW q \in Requests,
         req'[q].pc # req[q].pc, req'[q].pc \in Answers
  PROVE  Modified(q) \/ MessageGot(q) \/ \E n \in UserLabels : ListedToRemove(q, n)
<1>0. MailboxOK /\ req \in [Requests -> Call] /\ TypeOK /\ \A p \in Requests : CallInv(req[p])
  BY TypeOKParts DEF LabelInv
<1>1. ASSUME NEW p \in Requests, NEW tool \in {"apply", "filter"},
             NEW add \in SUBSET Names, NEW remove \in SUBSET Names, Start(p, tool, add, remove)
      PROVE  FALSE
  <2> DEFINE r == [Idle EXCEPT !.tool = tool, !.add = add, !.remove = remove, !.pc = "adding",
                               !.todo = add \cap UserLabels, !.addIds = systemIds(add)]
  <2>1. /\ systemIds(add) \in SUBSET Label
        /\ namesOf(systemIds(add)) = add \cap System
    BY <1>0, SystemIds
  <2>2. /\ r \in Call /\ r.tool = tool /\ r.pc = "adding" /\ r.todo = add \cap UserLabels
        /\ r.addIds = systemIds(add) /\ r.add = add /\ r.removeIds = {}
    BY <2>1 DEF Call, Pc, Idle
  <2>3. req' = [req EXCEPT ![p] = IF r.todo = {} THEN added(r) ELSE r]
    BY <1>1 DEF Start
  <2> HIDE DEF r
  <2>4. r.todo = {} => added(r).pc \notin Answers
    BY <1>0, <2>1, <2>2, addedInv DEF Names, Answers
  <2> QED BY <1>0, <2>2, <2>3, <2>4 DEF Answers
<1>2. ASSUME NEW p \in Requests, NEW n \in UserLabels, ListedToAdd(p, n) PROVE FALSE
  <2>1. req[p].pc = "adding" /\ n \in req[p].todo /\ n \in Names /\ req[p] \in Call
    BY <1>0, <1>2 DEF ListedToAdd, Names
  <2>2. adds(req[p], current(n)).pc \notin Answers
    BY <1>0, <2>1, CurrentIsLabel, addsInv DEF Answers
  <2>3. [req[p] EXCEPT !.pc = "create", !.making = {n}].pc = "create"
    BY <2>1 DEF Call
  <2> QED BY <1>0, <1>2, <2>2, <2>3 DEF ListedToAdd, Answers
<1>3. ASSUME NEW p \in Requests, LabelCreated(p) PROVE FALSE
  <2>1. PICK n \in req[p].making \ live :
          /\ makeLabel(n)
          /\ req' = [req EXCEPT ![p] = adds(req[p], [name |-> n, gen |-> gen[n] + 1])]
    BY <1>3 DEF LabelCreated
  <2>2. /\ req[p].pc = "create" /\ UNCHANGED <<on, filters>> /\ req[p] \in Call
        /\ n \in UserLabels /\ n \in req[p].todo
    BY <1>0, <1>3, <2>1 DEF LabelCreated, Call, CallInv
  <2> DEFINE l == [name |-> n, gen |-> gen[n] + 1]
  <2>3. l \in Label /\ l.name = n
    BY <2>1, <2>2, makeLabelType
  <2> HIDE DEF l
  <2>4. adds(req[p], l).pc \notin Answers
    BY <1>0, <2>2, <2>3, addsInv DEF Answers
  <2>5. req' = [req EXCEPT ![p] = adds(req[p], l)]
    BY <2>1 DEF l
  <2> QED BY <1>0, <2>4, <2>5
<1>4. ASSUME NEW p \in Requests, NEW pc \in {"failed", "conflict", "stored"},
             req' = [req EXCEPT ![p].pc = pc]
      PROVE  FALSE
  <2>1. req[p] \in Call
    BY <1>0
  <2>2. [req[p] EXCEPT !.pc = pc].pc = pc
    BY <2>1 DEF Call
  <2>3. req'[q] = IF q = p THEN [req[p] EXCEPT !.pc = pc] ELSE req[q]
    BY <1>0, <1>4
  <2> QED BY <2>2, <2>3 DEF Answers
<1>5. ASSUME NEW p \in Requests, NoCriteria(p) PROVE FALSE
  BY <1>0, <1>5 DEF NoCriteria, Idle, Answers
<1>6. ASSUME NEW p \in Requests, NEW n \in Names, removeLabel(p, n) PROVE FALSE
  BY <1>0, <1>6 DEF removeLabel, Idle, Answers
<1>7. ASSUME NEW p \in Requests, NEW n \in System, removeSystemLabel(p, n) PROVE FALSE
  BY <1>0, <1>7 DEF removeSystemLabel, Idle, Answers
<1>8. ASSUME NEW p \in Requests, p # q,
             Modified(p) \/ MessageGot(p) \/ \E n \in UserLabels : ListedToRemove(p, n)
      PROVE  FALSE
  BY <1>0, <1>8 DEF Modified, MessageGot, ListedToRemove
<1>9. ASSUME NEW p \in Requests, NEW add \in SUBSET Names, NEW remove \in SUBSET Names,
             NEW shouldTrash \in BOOLEAN, createFilter(p, add, remove, shouldTrash)
      PROVE  FALSE
  <2> DEFINE names == add \cup (IF shouldTrash THEN {"TRASH"} ELSE {})
  <2>1. names \in SUBSET Names /\ Start(p, "filter", names, remove)
    BY <1>9 DEF createFilter, Names, System
  <2> HIDE DEF names
  <2> QED BY <1>1, <2>1
<1>10. ASSUME NEW p \in Requests, NEW n \in Names, applyLabel(p, n) PROVE FALSE
  BY <1>1, <1>10 DEF applyLabel
<1>11. ASSUME NEW p \in Requests, CreateConflicts(p) \/ FilterStored(p) \/ CallFails(p)
       PROVE  FALSE
  BY <1>4, <1>11 DEF CreateConflicts, FilterStored, CallFails
<1>12. ASSUME NEW n \in UserLabels, LabelDeleted(n) PROVE FALSE
  BY <1>12 DEF LabelDeleted
<1> QED
  BY <1>2, <1>3, <1>5, <1>6, <1>7, <1>8, <1>9, <1>10, <1>11, <1>12
  DEF Next, archiveEmail, System

\* What the message carries after a call answered.
AnswerTrue(q) ==
  /\ req'[q].pc = "applied" =>
       \A n \in req[q].add : n \in known /\ current(n) \in on'
  /\ req'[q].pc \in {"removed", "absent"} /\ (\A l \in req'[q].removeIds : exists(l)) =>
       \A n \in req[q].remove : ~(n \in known /\ current(n) \in on')

\* A label that Gmail knows is the one that its name has now.
LEMMA ExistsByName ==
  ASSUME NEW ids, \A l \in ids : exists(l), NEW n \in namesOf(ids)
  PROVE  n \in known /\ current(n) \in ids
BY DEF exists, namesOf

LEMMA ModifiedTrue ==
  ASSUME LabelInv, NEW q \in Requests, Modified(q)
  PROVE  AnswerTrue(q)
<1>1. /\ req \in [Requests -> Call] /\ req[q] \in Call /\ CallInv(req[q])
      /\ req[q].pc = "modify" /\ req[q].tool \in {"apply", "remove"}
  BY TypeOKParts DEF LabelInv, Modified, CallInv
<1>2. /\ on' = (on \cup req[q].addIds) \ req[q].removeIds
      /\ \A l \in req[q].addIds \cup req[q].removeIds : exists(l)
  BY DEF Modified, Relabel
<1>3. CASE req[q].tool = "apply"
  <2>1. namesOf(req[q].addIds) = req[q].add /\ req[q].removeIds = {}
    BY <1>1, <1>3 DEF CallInv
  <2>2. req'[q].pc = "applied"
    BY <1>1, <1>3 DEF Modified, Call
  <2>3. ASSUME NEW n \in req[q].add PROVE n \in known /\ current(n) \in req[q].addIds
    <3>1. n \in namesOf(req[q].addIds)
      BY <2>1
    <3>2. \A l \in req[q].addIds : exists(l)
      BY <1>2
    <3> QED BY <3>1, <3>2, ExistsByName
  <2>4. on' = on \cup req[q].addIds
    BY <1>2, <2>1
  <2> QED BY <2>2, <2>3, <2>4 DEF AnswerTrue
<1>4. CASE req[q].tool = "remove"
  <2>1. namesOf(req[q].removeIds) = req[q].remove
    BY <1>1, <1>4 DEF CallInv
  <2>2. req'[q].pc = "removed"
    BY <1>1, <1>4 DEF Modified, Call
  <2> QED BY <1>2, <2>1, <2>2, ExistsByName DEF AnswerTrue
<1> QED BY <1>1, <1>3, <1>4

LEMMA MessageGotTrue ==
  ASSUME LabelInv, NEW q \in Requests, MessageGot(q)
  PROVE  AnswerTrue(q)
<1>1. /\ req \in [Requests -> Call] /\ req[q] \in Call /\ CallInv(req[q])
      /\ req[q].pc = "get" /\ req[q].tool = "remove" /\ on' = on
  BY TypeOKParts DEF LabelInv, MessageGot, CallInv
<1>2. /\ namesOf(req[q].removeIds) = req[q].remove
      /\ \A m, n \in req[q].remove : m = n
  BY <1>1 DEF CallInv
<1>3. /\ req'[q].pc = IF req[q].removeIds \subseteq on THEN "modify" ELSE "absent"
      /\ req'[q].removeIds = req[q].removeIds
  BY <1>1 DEF MessageGot, Call
<1>4. ASSUME ~(req[q].removeIds \subseteq on), \A l \in req[q].removeIds : exists(l),
             NEW n \in req[q].remove
      PROVE  current(n) \notin on
  <2>1. PICK l \in req[q].removeIds : l \notin on
    BY <1>4
  <2>2. l.name = n
    BY <1>2, <1>4, <2>1 DEF namesOf
  <2> QED BY <1>4, <2>1, <2>2 DEF exists
<1> QED BY <1>1, <1>3, <1>4 DEF AnswerTrue

LEMMA ListedToRemoveTrue ==
  ASSUME LabelInv, NEW q \in Requests, NEW n \in UserLabels, ListedToRemove(q, n),
         req'[q].pc \in Answers
  PROVE  AnswerTrue(q)
<1>1. /\ req \in [Requests -> Call] /\ req[q] \in Call /\ CallInv(req[q]) /\ TypeOK
      /\ req[q].pc = "removing" /\ n \in req[q].todo /\ n \in Names
  BY TypeOKParts DEF LabelInv, ListedToRemove, Names
<1>2. n \notin live
  <2>1. SUFFICES ASSUME n \in live PROVE FALSE
    OBVIOUS
  <2>2. removes(req[q], current(n)).pc \notin Answers
    BY <1>1, CurrentIsLabel, removesInv DEF Answers
  <2> QED BY <1>1, <2>1, <2>2 DEF ListedToRemove
<1>3. req'[q] = lacks(req[q], n)
  BY <1>1, <1>2 DEF ListedToRemove
<1>4. req[q].tool = "remove" /\ req'[q].pc = "absent"
  BY <1>1, <1>3 DEF lacks, Answers, Call
<1>5. \A m \in req[q].remove : m = n
  BY <1>1, <1>4 DEF CallInv
<1>6. n \notin known
  BY <1>2, LabelConfig DEF known
<1> QED BY <1>4, <1>5, <1>6 DEF AnswerTrue

\* The label tools answer the truth, for any labels and concurrent calls.
THEOREM LabelAnswersAreTrue == Spec => AnswersAreTrue
<1>1. ASSUME LabelInv, Next, NEW q \in Requests, req'[q].pc # req[q].pc
      PROVE  AnswerTrue(q)
  <2>1. CASE req'[q].pc \in Answers
    BY <1>1, <2>1, OnlyAnswers, ModifiedTrue, MessageGotTrue, ListedToRemoveTrue
  <2>2. CASE req'[q].pc \notin Answers
    BY <2>2 DEF AnswerTrue, Answers
  <2> QED BY <2>1, <2>2
<1>2. LabelInv /\ [Next]_vars =>
        [\A q \in Requests :
           req'[q].pc # req[q].pc =>
             /\ req'[q].pc = "applied" =>
                  \A n \in req[q].add : n \in known /\ current(n) \in on'
             /\ req'[q].pc \in {"removed", "absent"}
                  /\ (\A l \in req'[q].removeIds : exists(l)) =>
                    \A n \in req[q].remove : ~(n \in known /\ current(n) \in on')]_vars
  BY <1>1 DEF AnswerTrue
<1> QED BY <1>2, LabelInit, LabelStep, PTL DEF Spec, AnswersAreTrue

=============================================================================
