----------------------------- MODULE LabelTools -----------------------------
(***************************************************************************)
(* The tools that change labels and make filters: the service methods of   *)
(* src/gmail/service.ts over src/gmail/labels.ts and src/gmail/filters.ts, *)
(* for concurrent tool calls on one message of one mailbox.  Names are     *)
(* resolved to label ids by one request and used by a later one.           *)
(*                                                                         *)
(* Gmail, as the code uses it: a user label has a fresh id every time it   *)
(* is made, a second label of the same name and an unknown id are          *)
(* rejected, and a call that fails may have been carried out.  The user    *)
(* may delete a label at any time.  Names that differ only in case are one *)
(* name here, as for findLabelId, and the names of one list are resolved   *)
(* in any order.                                                           *)
(***************************************************************************)
EXTENDS Naturals, FiniteSets

CONSTANTS
  UserLabels,  \* names of user labels
  Requests,    \* tool calls, each used once
  MaxGens      \* bound on how often a label of one name is made

\* Two of SYSTEM_LABELS stand for all.
System == {"INBOX", "TRASH"}

ASSUME LabelConfig == MaxGens \in Nat \ {0} /\ UserLabels \cap System = {}

Names == UserLabels \cup System

VARIABLES
  gen,      \* how many labels of each name there have been
  live,     \* the user labels there are
  on,       \* the labels of the message
  filters,  \* the filters stored, with the request that stored each
  req       \* the tool calls

vars == <<gen, live, on, filters, req>>

Label == [name : Names, gen : 0 .. MaxGens]

current(n) == [name |-> n, gen |-> IF n \in System THEN 0 ELSE gen[n]]
known == System \cup live
exists(l) == l.name \in known /\ l = current(l.name)

Idle == [tool |-> "none", pc |-> "idle", add |-> {}, remove |-> {},
         todo |-> {}, making |-> {}, addIds |-> {}, removeIds |-> {}]

TypeOK ==
  /\ gen \in [UserLabels -> 0 .. MaxGens]
  /\ live \in SUBSET UserLabels
  /\ on \in SUBSET Label
  /\ filters \in SUBSET [by : Requests, add : SUBSET Label, remove : SUBSET Label]
  /\ req \in [Requests ->
       [tool : {"none", "apply", "remove", "filter"},
        pc : {"idle", "adding", "create", "removing", "get", "modify", "store",
              "refused", "conflict", "failed", "applied", "removed", "absent", "stored"},
        add : SUBSET Names, remove : SUBSET Names, todo : SUBSET UserLabels,
        making : SUBSET UserLabels, addIds : SUBSET Label, removeIds : SUBSET Label]]

Init ==
  /\ live \in SUBSET UserLabels
  /\ gen = [n \in UserLabels |-> IF n \in live THEN 1 ELSE 0]
  /\ on \in SUBSET {current(n) : n \in live \cup {"INBOX"}}
  /\ filters = {}
  /\ req = [q \in Requests |-> Idle]

-----------------------------------------------------------------------------
(* Where a call goes once the names of a list are resolved. *)

systemIds(names) == {current(n) : n \in names \cap System}

\* Both lists of a filter are resolved.
filterLists(r) ==
  [r EXCEPT !.pc = IF r.addIds \cup r.removeIds = {} THEN "refused" ELSE "store"]

\* The labels to add are there.  A filter goes on to those it removes.
added(r) ==
  IF r.tool = "apply" THEN [r EXCEPT !.pc = "modify"]
  ELSE LET s == [r EXCEPT !.pc = "removing", !.todo = r.remove \cap UserLabels,
                          !.removeIds = systemIds(r.remove)]
       IN IF s.todo = {} THEN filterLists(s) ELSE s

\* The label l was found or made for a call that adds it.
adds(r, l) ==
  LET s == [r EXCEPT !.pc = "adding", !.making = {},
                     !.addIds = @ \cup {l}, !.todo = @ \ {l.name}]
  IN IF s.todo = {} THEN added(s) ELSE s

\* The label l was found for a call that removes it.
removes(r, l) ==
  LET s == [r EXCEPT !.todo = @ \ {l.name}, !.removeIds = @ \cup {l}]
  IN IF r.tool = "remove" THEN [s EXCEPT !.pc = "get"]
     ELSE IF s.todo = {} THEN filterLists(s) ELSE s

\* Mutated form: a label to remove that is missing is skipped.
MutLacks(r, n) ==
  LET s == [r EXCEPT !.todo = @ \ {n}]
  IN IF r.tool = "remove" THEN [r EXCEPT !.pc = "absent"]
     ELSE IF s.todo = {} THEN filterLists(s) ELSE s

\* There is no label n to remove: a no-op for remove_label, an error for a filter.
lacks(r, n) == [r EXCEPT !.pc = IF r.tool = "remove" THEN "absent" ELSE "refused"]

Start(q, tool, add, remove) ==
  /\ req[q].pc = "idle"
  /\ LET r == [Idle EXCEPT !.tool = tool, !.add = add, !.remove = remove, !.pc = "adding",
                           !.todo = add \cap UserLabels, !.addIds = systemIds(add)]
     IN req' = [req EXCEPT ![q] = IF r.todo = {} THEN added(r) ELSE r]
  /\ UNCHANGED <<gen, live, on, filters>>

applyLabel(q, n) == Start(q, "apply", {n}, {})

\* mark_read and archive_email: the label is taken off without a look at the
\* message.  mark_unread is an applyLabel of a system label.
removeSystemLabel(q, n) ==
  /\ req[q].pc = "idle"
  /\ req' = [req EXCEPT ![q] =
       [Idle EXCEPT !.tool = "remove", !.pc = "modify", !.remove = {n},
                    !.removeIds = systemIds({n})]]
  /\ UNCHANGED <<gen, live, on, filters>>

archiveEmail(q) == removeSystemLabel(q, "INBOX")

\* should_trash adds TRASH.
createFilter(q, add, remove, shouldTrash) ==
  Start(q, "filter", add \cup (IF shouldTrash THEN {"TRASH"} ELSE {}), remove)

\* Without criteria a filter is refused at once.
NoCriteria(q) ==
  /\ req[q].pc = "idle"
  /\ req' = [req EXCEPT ![q] = [Idle EXCEPT !.tool = "filter", !.pc = "refused"]]
  /\ UNCHANGED <<gen, live, on, filters>>

removeLabel(q, n) ==
  /\ req[q].pc = "idle"
  /\ req' = [req EXCEPT ![q] =
       [Idle EXCEPT !.tool = "remove", !.remove = {n}, !.todo = {n} \cap UserLabels,
                    !.removeIds = systemIds({n}),
                    !.pc = IF n \in System THEN "get" ELSE "removing"]]
  /\ UNCHANGED <<gen, live, on, filters>>

-----------------------------------------------------------------------------
(* The answers of labels.list, labels.create and messages.get. *)

\* getOrCreateLabel: a name that is not in the list is to be made.
ListedToAdd(q, n) ==
  /\ req[q].pc = "adding"
  /\ n \in req[q].todo
  /\ req' = [req EXCEPT ![q] =
       IF n \in live THEN adds(@, current(n))
                     ELSE [@ EXCEPT !.pc = "create", !.making = {n}]]
  /\ UNCHANGED <<gen, live, on, filters>>

makeLabel(n) ==
  /\ gen[n] < MaxGens
  /\ gen' = [gen EXCEPT ![n] = @ + 1]
  /\ live' = live \cup {n}

LabelCreated(q) ==
  /\ req[q].pc = "create"
  /\ \E n \in req[q].making \ live :
       /\ makeLabel(n)
       /\ req' = [req EXCEPT ![q] = adds(@, [name |-> n, gen |-> gen[n] + 1])]
  /\ UNCHANGED <<on, filters>>

\* Gmail has such a label by now: the create throws.
CreateConflicts(q) ==
  /\ req[q].pc = "create"
  /\ req[q].making \subseteq live
  /\ req' = [req EXCEPT ![q].pc = "conflict"]
  /\ UNCHANGED <<gen, live, on, filters>>

ListedToRemove(q, n) ==
  /\ req[q].pc = "removing"
  /\ n \in req[q].todo
  /\ req' = [req EXCEPT ![q] = IF n \in live THEN removes(@, current(n)) ELSE lacks(@, n)]
  /\ UNCHANGED <<gen, live, on, filters>>

\* Mutated form: the message is not looked at.
MutMessageGot(q) ==
  /\ req[q].pc = "get"
  /\ req' = [req EXCEPT ![q].pc = "absent"]
  /\ UNCHANGED <<gen, live, on, filters>>

MessageGot(q) ==
  /\ req[q].pc = "get"
  /\ req' = [req EXCEPT ![q].pc = IF req[q].removeIds \subseteq on
                                    THEN "modify" ELSE "absent"]
  /\ UNCHANGED <<gen, live, on, filters>>

-----------------------------------------------------------------------------
(* The writes: messages.modify and filters.create. *)

Relabel(q) ==
  /\ \A l \in req[q].addIds \cup req[q].removeIds : exists(l)
  /\ on' = (on \cup req[q].addIds) \ req[q].removeIds
  /\ UNCHANGED <<gen, live, filters>>

Modified(q) ==
  /\ req[q].pc = "modify"
  /\ Relabel(q)
  /\ req' = [req EXCEPT ![q].pc = IF req[q].tool = "apply" THEN "applied" ELSE "removed"]

StoreFilter(q) ==
  /\ \A l \in req[q].addIds \cup req[q].removeIds : exists(l)
  /\ filters' = filters \cup {[by |-> q, add |-> req[q].addIds, remove |-> req[q].removeIds]}
  /\ UNCHANGED <<gen, live, on>>

FilterStored(q) ==
  /\ req[q].pc = "store"
  /\ StoreFilter(q)
  /\ req' = [req EXCEPT ![q].pc = "stored"]

\* A call to Gmail throws, carried out or not.
CallFails(q) ==
  /\ req[q].pc \in {"adding", "create", "removing", "get", "modify", "store"}
  /\ \/ UNCHANGED <<gen, live, on, filters>>
     \/ req[q].pc = "modify" /\ Relabel(q)
     \/ req[q].pc = "store" /\ StoreFilter(q)
     \/ /\ req[q].pc = "create"
        /\ \E n \in req[q].making \ live : makeLabel(n)
        /\ UNCHANGED <<on, filters>>
  /\ req' = [req EXCEPT ![q].pc = "failed"]

\* The user deletes a label; messages lose it.
LabelDeleted(n) ==
  /\ n \in live
  /\ live' = live \ {n}
  /\ on' = on \ {current(n)}
  /\ UNCHANGED <<gen, filters, req>>

Next ==
  \/ \E q \in Requests :
       \/ \E n \in Names : applyLabel(q, n) \/ removeLabel(q, n)
       \/ archiveEmail(q)
       \/ \E n \in System \ {"INBOX"} : removeSystemLabel(q, n)
       \/ \E add, remove \in SUBSET Names, shouldTrash \in BOOLEAN :
            createFilter(q, add, remove, shouldTrash)
       \/ NoCriteria(q)
       \/ \E n \in UserLabels : ListedToAdd(q, n) \/ ListedToRemove(q, n)
       \/ LabelCreated(q) \/ CreateConflicts(q) \/ MessageGot(q)
       \/ Modified(q) \/ FilterStored(q) \/ CallFails(q)
  \/ \E n \in UserLabels : LabelDeleted(n)

Spec == Init /\ [][Next]_vars

-----------------------------------------------------------------------------
namesOf(ids) == {l.name : l \in ids}

\* A filter is stored whole or not at all: whatever other calls and the user do
\* to the labels while its names are resolved one by one, it adds and removes
\* exactly the names that were asked for, by ids that Gmail knows when it is
\* stored, and no request stores two.
FilterIsWhatWasAsked ==
  [][\A f \in filters' \ filters :
       /\ req[f.by].tool = "filter"
       /\ namesOf(f.add) = req[f.by].add /\ namesOf(f.remove) = req[f.by].remove
       /\ f.add # {} \/ f.remove # {}
       /\ \A l \in f.add \cup f.remove : exists(l)
       /\ \A g \in filters : g.by # f.by]_vars

\* The tools' answers are true when they are given: "applied" means that the
\* message carries the label that now has this name, "removed" and "absent" that
\* it carries none, unless the label that was looked at is not the one of that
\* name any more.
AnswersAreTrue ==
  [][\A q \in Requests :
       req'[q].pc # req[q].pc =>
         /\ req'[q].pc = "applied" =>
              \A n \in req[q].add : n \in known /\ current(n) \in on'
         /\ req'[q].pc \in {"removed", "absent"}
              /\ (\A l \in req'[q].removeIds : exists(l)) =>
                \A n \in req[q].remove : ~(n \in known /\ current(n) \in on')]_vars

=============================================================================
