--------------------------- MODULE Compose_proofs ---------------------------
(***************************************************************************)
(* What the compose tools do for any messages: the first part proves of    *)
(* the address lines, however many names they hold, that taking one apart  *)
(* undoes putting it together; the second what follows for the replies.    *)
(***************************************************************************)
EXTENDS Compose, SequenceTheorems, WellFoundedInduction, TLAPS

-----------------------------------------------------------------------------
(* Recursion and induction along a list. *)

LEMMA LeastExists ==
  ASSUME NEW S, S \subseteq Nat, S # {}
  PROVE  \E i \in S : \A j \in S : i <= j
<1> DEFINE R == OpToRel(<, Nat)
<1>1. \E i \in S : \A j \in S : ~(<<j, i>> \in R)
  <2> HIDE DEF R
  <2> QED BY NatLessThanWellFounded, WFMin DEF R
<1>2. ASSUME NEW i \in S, NEW j \in S, ~(<<j, i>> \in R)
      PROVE  i <= j
  BY <1>2 DEF OpToRel
<1> QED BY <1>1, <1>2

LEMMA AlongTheList ==
  ASSUME NEW n \in Nat, NEW Q, 0 \in Q, \A i \in 1 .. n : i - 1 \in Q => i \in Q
  PROVE  \A i \in 0 .. n : i \in Q
<1> DEFINE Bad == {i \in 0 .. n : i \notin Q}
<1>1. SUFFICES ASSUME Bad # {} PROVE FALSE
  OBVIOUS
<1>2. PICK i \in Bad : \A j \in Bad : i <= j
  <2>1. Bad \subseteq Nat
    OBVIOUS
  <2> HIDE DEF Bad
  <2> QED BY <1>1, <2>1, LeastExists
<1>3. i \in 1 .. n /\ i - 1 \in 0 .. n
  OBVIOUS
<1>4. i - 1 \notin Bad
  BY <1>2, <1>3
<1> QED BY <1>3, <1>4

\* f begins with v0 and goes on as h says.
FollowsTo(n, V, v0, h, f) ==
  /\ f \in [0 .. n -> V] /\ f[0] = v0
  /\ \A i \in 1 .. n : f[i] = h[<<f[i - 1], i>>]

LEMMA RecursionExists ==
  ASSUME NEW n \in Nat, NEW V, NEW v0 \in V, NEW h \in [V \X (1 .. n) -> V]
  PROVE  \E f : FollowsTo(n, V, v0, h, f)
<1> DEFINE Q == {m \in 0 .. n : \E f : FollowsTo(m, V, v0, h, f)}
<1>1. 0 \in Q
  <2>1. FollowsTo(0, V, v0, h, [i \in 0 .. 0 |-> v0])
    BY DEF FollowsTo
  <2> QED BY <2>1
<1>2. ASSUME NEW m \in 1 .. n, m - 1 \in Q PROVE m \in Q
  <2>1. PICK f : FollowsTo(m - 1, V, v0, h, f)
    BY <1>2
  <2>2. m - 1 \in 0 .. m - 1 /\ f[m - 1] \in V
    BY <2>1 DEF FollowsTo
  <2>3. <<f[m - 1], m>> \in V \X (1 .. n)
    BY <2>2
  <2>4. PICK v : v = h[<<f[m - 1], m>>]
    OBVIOUS
  <2>5. v \in V
    BY <2>3, <2>4
  <2>6. PICK g : g = [i \in 0 .. m |-> IF i = m THEN v ELSE f[i]]
    OBVIOUS
  <2>7. g \in [0 .. m -> V] /\ g[0] = v0
    BY <2>1, <2>5, <2>6 DEF FollowsTo
  <2>8. ASSUME NEW i \in 1 .. m PROVE g[i] = h[<<g[i - 1], i>>]
    <3>1. i - 1 \in 0 .. m /\ i - 1 # m /\ g[i - 1] = f[i - 1]
      BY <2>6
    <3>2. CASE i = m
      BY <2>4, <2>6, <3>1, <3>2
    <3>3. CASE i # m
      <4>1. i \in 1 .. m - 1 /\ g[i] = f[i]
        BY <2>6, <3>3
      <4> QED BY <2>1, <3>1, <4>1 DEF FollowsTo
    <3> QED BY <3>2, <3>3
  <2>9. FollowsTo(m, V, v0, h, g)
    BY <2>7, <2>8 DEF FollowsTo
  <2> QED BY <2>9
<1>3. n \in Q
  <2> HIDE DEF Q
  <2>1. \A i \in 0 .. n : i \in Q
    BY <1>1, <1>2, AlongTheList
  <2> QED BY <2>1
<1> QED BY <1>3

-----------------------------------------------------------------------------
(* The lists. *)

LEMMA ToSetIs ==
  ASSUME NEW T, NEW s \in Seq(T)
  PROVE  /\ Len(s) \in Nat /\ DOMAIN s = 1 .. Len(s)
         /\ ToSet(s) = {s[i] : i \in 1 .. Len(s)} /\ ToSet(s) \subseteq T
<1>1. Len(s) \in Nat /\ DOMAIN s = 1 .. Len(s) /\ s \in [1 .. Len(s) -> T]
  BY LenProperties
<1> QED BY <1>1 DEF ToSet

LEMMA AppendToSet ==
  ASSUME NEW T, NEW s \in Seq(T), NEW e \in T
  PROVE  ToSet(Append(s, e)) = ToSet(s) \cup {e}
<1>1. PICK t : t = Append(s, e)
  OBVIOUS
<1>2. t \in Seq(T) /\ Len(t) = Len(s) + 1 /\ t[Len(s) + 1] = e /\ \A i \in 1 .. Len(s) : t[i] = s[i]
  BY <1>1, AppendProperties
<1>3. Len(s) \in Nat /\ ToSet(s) = {s[i] : i \in 1 .. Len(s)} /\ ToSet(t) = {t[i] : i \in 1 .. Len(t)}
  BY <1>2, ToSetIs
<1>4. 1 .. Len(s) + 1 = (1 .. Len(s)) \cup {Len(s) + 1}
  BY <1>3
<1>5. {t[i] : i \in 1 .. Len(t)} = {t[i] : i \in 1 .. Len(s)} \cup {t[Len(s) + 1]}
  BY <1>2, <1>4
<1>6. {t[i] : i \in 1 .. Len(s)} = {s[i] : i \in 1 .. Len(s)}
  BY <1>2
<1> QED BY <1>1, <1>2, <1>3, <1>5, <1>6

LEMMA KeepingIs ==
  ASSUME NEW T, NEW list \in Seq(T), NEW S
  PROVE  /\ keeping(list, S) \in [0 .. Len(list) -> Seq(T)]
         /\ keeping(list, S)[0] = <<>>
         /\ \A n \in 1 .. Len(list) :
              keeping(list, S)[n] = IF list[n] \in S
                                    THEN Append(keeping(list, S)[n - 1], list[n])
                                    ELSE keeping(list, S)[n - 1]
<1> DEFINE N == Len(list)
           V == Seq(T)
           h == [a \in V \X (1 .. N) |-> IF list[a[2]] \in S THEN Append(a[1], list[a[2]]) ELSE a[1]]
<1>1. N \in Nat /\ \A i \in 1 .. N : list[i] \in T
  BY LenProperties, ElementOfSeq
<1>2. <<>> \in V
  BY EmptySeq
<1>3. ASSUME NEW s \in V, NEW i \in 1 .. N
      PROVE  (IF list[i] \in S THEN Append(s, list[i]) ELSE s) \in V
  BY <1>1, AppendProperties
<1>4. h \in [V \X (1 .. N) -> V]
  BY <1>3
<1>5. \A s \in V, i \in 1 .. N : h[<<s, i>>] = IF list[i] \in S THEN Append(s, list[i]) ELSE s
  OBVIOUS
<1>6. PICK f : FollowsTo(N, V, <<>>, h, f)
  <2> HIDE DEF N, V, h
  <2> QED BY <1>1, <1>2, <1>4, RecursionExists
<1>7. f \in [0 .. N -> V] /\ f[0] = <<>>
      /\ \A i \in 1 .. N : f[i] = IF list[i] \in S THEN Append(f[i - 1], list[i]) ELSE f[i - 1]
  <2> HIDE DEF h, V, N
  <2>1. ASSUME NEW i \in 1 .. N PROVE f[i - 1] \in V /\ f[i] = h[<<f[i - 1], i>>]
    <3>1. i - 1 \in 0 .. N
      BY <1>1
    <3> QED BY <1>6, <3>1 DEF FollowsTo
  <2> QED BY <1>5, <1>6, <2>1 DEF FollowsTo
<1> HIDE DEF h
<1>8. f = [n \in 0 .. Len(list) |->
             IF n = 0 THEN <<>>
             ELSE IF list[n] \in S THEN Append(f[n - 1], list[n]) ELSE f[n - 1]]
  <2>1. ASSUME NEW n \in 0 .. N
        PROVE  f[n] = IF n = 0 THEN <<>>
                      ELSE IF list[n] \in S THEN Append(f[n - 1], list[n]) ELSE f[n - 1]
    <3> HIDE DEF N
    <3>1. n = 0 \/ n \in 1 .. N
      BY <1>1
    <3> QED BY <1>7, <3>1
  <2> HIDE DEF V
  <2> QED BY <1>7, <2>1
<1>9. PICK g : g = keeping(list, S)
  OBVIOUS
<1>10. g = [n \in 0 .. Len(list) |-> IF n = 0 THEN <<>>
              ELSE IF list[n] \in S THEN Append(g[n - 1], list[n]) ELSE g[n - 1]]
  BY <1>8, <1>9 DEF keeping
<1>11. g = [n \in 0 .. N |-> IF n = 0 THEN <<>>
              ELSE IF list[n] \in S THEN Append(g[n - 1], list[n]) ELSE g[n - 1]]
  BY <1>10
<1>12. g[0] = <<>> /\ \A n \in 1 .. N :
           g[n] = IF list[n] \in S THEN Append(g[n - 1], list[n]) ELSE g[n - 1]
  <2> HIDE DEF N
  <2>1. 0 \in 0 .. N /\ \A n \in 1 .. N : n \in 0 .. N /\ n # 0
    BY <1>1
  <2>2. g[0] = <<>>
    BY <1>11, <2>1
  <2>3. ASSUME NEW n \in 1 .. N
        PROVE  g[n] = IF list[n] \in S THEN Append(g[n - 1], list[n]) ELSE g[n - 1]
    <3>1. n \in 0 .. N /\ n # 0
      BY <2>1
    <3> QED BY <1>11, <3>1, Zenon
  <2> QED BY <2>2, <2>3
<1>13. \A n \in 0 .. N : g[n] \in V
  <2> DEFINE Q == {n \in 0 .. N : g[n] \in V}
  <2>1. 0 \in Q
    <3> HIDE DEF N, V
    <3> QED BY <1>1, <1>2, <1>12
  <2>2. ASSUME NEW n \in 1 .. N, n - 1 \in Q PROVE n \in Q
    <3> HIDE DEF N, V
    <3>1. n \in 0 .. N /\ g[n - 1] \in V
      BY <1>1, <2>2
    <3>2. g[n] \in V
      BY <1>3, <1>12, <3>1
    <3> QED BY <3>1, <3>2
  <2>3. \A n \in 0 .. N : n \in Q
    <3> HIDE DEF Q, N, V
    <3> QED BY <1>1, <2>1, <2>2, AlongTheList
  <2> QED BY <2>3
<1>14. g \in [0 .. N -> V]
  BY <1>11, <1>13
<1> QED BY <1>9, <1>12, <1>14

\* What is kept are the elements in S, and all of them.
LEMMA OnlyIs ==
  ASSUME NEW T, NEW list \in Seq(T), NEW S
  PROVE  /\ only(list, S) \in Seq(T)
         /\ ToSet(only(list, S)) = ToSet(list) \cap S
<1> DEFINE N == Len(list)
<1>1. PICK g : g = keeping(list, S)
  OBVIOUS
<1>2. /\ g \in [0 .. N -> Seq(T)] /\ g[0] = <<>>
      /\ \A n \in 1 .. N : g[n] = IF list[n] \in S THEN Append(g[n - 1], list[n]) ELSE g[n - 1]
  BY <1>1, KeepingIs
<1>3. N \in Nat /\ ToSet(list) = {list[i] : i \in 1 .. N} /\ \A i \in 1 .. N : list[i] \in T
  BY ToSetIs, ElementOfSeq
<1> DEFINE Q == {n \in 0 .. N : ToSet(g[n]) = {list[i] : i \in 1 .. n} \cap S}
<1>4. 0 \in Q
  BY <1>2, <1>3 DEF ToSet
<1>5. ASSUME NEW n \in 1 .. N, n - 1 \in Q PROVE n \in Q
  <2>1. n - 1 \in 0 .. N /\ g[n - 1] \in Seq(T) /\ list[n] \in T
    BY <1>2, <1>3
  <2>2. {list[i] : i \in 1 .. n} = {list[i] : i \in 1 .. n - 1} \cup {list[n]}
    <3>1. 1 .. n = (1 .. n - 1) \cup {n}
      OBVIOUS
    <3> QED BY <3>1
  <2>3. CASE list[n] \in S
    <3>1. g[n] = Append(g[n - 1], list[n])
      BY <1>2, <2>3
    <3>2. ToSet(g[n]) = ToSet(g[n - 1]) \cup {list[n]}
      BY <2>1, <3>1, AppendToSet
    <3> QED BY <1>5, <2>2, <2>3, <3>2
  <2>4. CASE list[n] \notin S
    BY <1>2, <1>5, <2>2, <2>4
  <2> QED BY <2>3, <2>4
<1>6. N \in Q
  <2> HIDE DEF Q, N
  <2>1. \A n \in 0 .. N : n \in Q
    BY <1>3, <1>4, <1>5, AlongTheList
  <2> QED BY <1>3, <2>1
<1> QED BY <1>1, <1>2, <1>3, <1>6 DEF only

\* When there is nothing to leave out the list stays as it is.
LEMMA OnlyAll ==
  ASSUME NEW T, NEW list \in Seq(T), NEW S, ToSet(list) \subseteq S
  PROVE  only(list, S) = list
<1> DEFINE N == Len(list)
<1>1. PICK g : g = keeping(list, S)
  OBVIOUS
<1>2. /\ g \in [0 .. N -> Seq(T)] /\ g[0] = <<>>
      /\ \A n \in 1 .. N : g[n] = IF list[n] \in S THEN Append(g[n - 1], list[n]) ELSE g[n - 1]
  BY <1>1, KeepingIs
<1>3. N \in Nat /\ \A i \in 1 .. N : list[i] \in T /\ list[i] \in S
  BY ToSetIs, ElementOfSeq
<1> DEFINE Q == {n \in 0 .. N : Len(g[n]) = n /\ \A i \in 1 .. n : g[n][i] = list[i]}
<1>4. 0 \in Q
  BY <1>2, <1>3
<1>5. ASSUME NEW n \in 1 .. N, n - 1 \in Q PROVE n \in Q
  <2>1. n - 1 \in 0 .. N /\ g[n - 1] \in Seq(T) /\ list[n] \in T
    <3> HIDE DEF N, Q
    <3>1. n - 1 \in 0 .. N
      BY <1>3
    <3> QED BY <1>2, <1>3, <3>1
  <2>2. PICK s : s = g[n - 1]
    OBVIOUS
  <2>3. s \in Seq(T) /\ Len(s) = n - 1 /\ \A i \in 1 .. n - 1 : s[i] = list[i]
    BY <1>5, <2>1, <2>2
  <2>4. g[n] = Append(s, list[n])
    BY <1>2, <1>3, <2>2
  <2>5. Len(g[n]) = n /\ g[n][n] = list[n] /\ \A i \in 1 .. n - 1 : g[n][i] = list[i]
    BY <2>1, <2>3, <2>4, AppendProperties
  <2> QED BY <2>5
<1>6. N \in Q
  <2> HIDE DEF Q, N
  <2>1. \A n \in 0 .. N : n \in Q
    BY <1>3, <1>4, <1>5, AlongTheList
  <2> QED BY <1>3, <2>1
<1>7. only(list, S) \in Seq(T) /\ only(list, S) = g[N]
  BY OnlyIs, <1>1 DEF only
<1>8. Len(g[N]) = Len(list) /\ \A i \in 1 .. N : g[N][i] = list[i]
  BY <1>6
<1> QED BY <1>7, <1>8, SeqEqual

-----------------------------------------------------------------------------
(* Putting lines together. *)

glue(s, t) == s \o <<Comma>> \o t

LEMMA GlueIs ==
  ASSUME NEW s \in Seq(Words), NEW t \in Seq(Words)
  PROVE  /\ glue(s, t) \in Seq(Words)
         /\ Len(s) \in Nat /\ Len(t) \in Nat /\ Len(glue(s, t)) = Len(s) + 1 + Len(t)
         /\ \A i \in 1 .. Len(s) : glue(s, t)[i] = s[i]
         /\ glue(s, t)[Len(s) + 1] = Comma
         /\ \A i \in 1 .. Len(t) : glue(s, t)[Len(s) + 1 + i] = t[i]
<1>1. Comma \in Words
  BY DEF Words
<1>2. PICK u : u = Append(s, Comma)
  OBVIOUS
<1>3. u = s \o <<Comma>>
  BY <1>1, <1>2, AppendIsConcat
<1>4. /\ u \in Seq(Words) /\ Len(u) = Len(s) + 1 /\ u[Len(s) + 1] = Comma
      /\ \A i \in 1 .. Len(s) : u[i] = s[i]
  BY <1>1, <1>2, AppendProperties
<1>5. PICK v : v = u \o t
  OBVIOUS
<1>6. /\ v \in Seq(Words) /\ Len(v) = Len(u) + Len(t)
      /\ \A i \in 1 .. Len(u) + Len(t) : v[i] = IF i <= Len(u) THEN u[i] ELSE t[i - Len(u)]
  <2>1. /\ u \o t \in Seq(Words) /\ Len(u \o t) = Len(u) + Len(t)
        /\ \A i \in 1 .. Len(u) + Len(t) : (u \o t)[i] = IF i <= Len(u) THEN u[i] ELSE t[i - Len(u)]
    BY <1>4, ConcatProperties
  <2> QED BY <1>5, <2>1, Zenon
<1>7. Len(s) \in Nat /\ Len(t) \in Nat
  BY LenProperties
<1>8. ASSUME NEW i \in 1 .. Len(s) + 1 PROVE v[i] = u[i]
  BY <1>4, <1>6, <1>7
<1>9. ASSUME NEW i \in 1 .. Len(t) PROVE v[Len(s) + 1 + i] = t[i]
  <2>1. Len(s) + 1 + i \in 1 .. Len(u) + Len(t) /\ ~(Len(s) + 1 + i <= Len(u))
        /\ Len(s) + 1 + i - Len(u) = i
    BY <1>4, <1>7
  <2> QED BY <1>6, <2>1
<1>10. v = glue(s, t)
  BY <1>3, <1>5 DEF glue
<1> QED BY <1>4, <1>6, <1>7, <1>8, <1>9, <1>10

LEMMA JoiningIs ==
  ASSUME NEW list \in Seq(Seq(Words))
  PROVE  /\ joining(list) \in [0 .. Len(list) -> Seq(Words)]
         /\ joining(list)[0] = <<>>
         /\ \A n \in 1 .. Len(list) :
              joining(list)[n] = IF n = 1 THEN list[1] ELSE glue(joining(list)[n - 1], list[n])
<1> DEFINE N == Len(list)
           V == Seq(Words)
           h == [a \in V \X (1 .. N) |-> IF a[2] = 1 THEN list[1] ELSE glue(a[1], list[a[2]])]
<1>1. N \in Nat /\ \A i \in 1 .. N : list[i] \in V
  BY LenProperties, ElementOfSeq
<1>2. <<>> \in V
  BY EmptySeq
<1>3. ASSUME NEW s \in V, NEW i \in 1 .. N
      PROVE  (IF i = 1 THEN list[1] ELSE glue(s, list[i])) \in V
  <2>1. list[i] \in V
    BY <1>1
  <2>2. glue(s, list[i]) \in V
    BY <2>1, GlueIs
  <2> QED BY <2>1, <2>2
<1>4. h \in [V \X (1 .. N) -> V]
  BY <1>3
<1>5. \A s \in V, i \in 1 .. N : h[<<s, i>>] = IF i = 1 THEN list[1] ELSE glue(s, list[i])
  OBVIOUS
<1>6. PICK f : FollowsTo(N, V, <<>>, h, f)
  <2> HIDE DEF N, V, h
  <2> QED BY <1>1, <1>2, <1>4, RecursionExists
<1>7. f \in [0 .. N -> V] /\ f[0] = <<>>
      /\ \A i \in 1 .. N : f[i] = IF i = 1 THEN list[1] ELSE glue(f[i - 1], list[i])
  <2> HIDE DEF h, V, N
  <2>1. ASSUME NEW i \in 1 .. N PROVE f[i - 1] \in V /\ f[i] = h[<<f[i - 1], i>>]
    <3>1. i - 1 \in 0 .. N
      BY <1>1
    <3> QED BY <1>6, <3>1 DEF FollowsTo
  <2> QED BY <1>5, <1>6, <2>1 DEF FollowsTo
<1> HIDE DEF h
<1>8. f = [n \in 0 .. Len(list) |-> IF n = 0 THEN <<>> ELSE IF n = 1 THEN list[1]
                                    ELSE glue(f[n - 1], list[n])]
  <2>1. ASSUME NEW n \in 0 .. N
        PROVE  f[n] = IF n = 0 THEN <<>> ELSE IF n = 1 THEN list[1] ELSE glue(f[n - 1], list[n])
    <3> HIDE DEF N
    <3>1. n = 0 \/ n \in 1 .. N
      BY <1>1
    <3> QED BY <1>7, <3>1
  <2> HIDE DEF V
  <2> QED BY <1>7, <2>1
<1>9. PICK g : g = joining(list)
  OBVIOUS
<1>10. g = [n \in 0 .. Len(list) |-> IF n = 0 THEN <<>> ELSE IF n = 1 THEN list[1]
                                     ELSE glue(g[n - 1], list[n])]
  BY <1>8, <1>9, Zenon DEF joining, glue
<1>11. g = [n \in 0 .. N |-> IF n = 0 THEN <<>> ELSE IF n = 1 THEN list[1]
                             ELSE glue(g[n - 1], list[n])]
  BY <1>10
<1>12. g[0] = <<>> /\ \A n \in 1 .. N :
           g[n] = IF n = 1 THEN list[1] ELSE glue(g[n - 1], list[n])
  <2> HIDE DEF N
  <2>1. 0 \in 0 .. N /\ \A n \in 1 .. N : n \in 0 .. N /\ n # 0
    BY <1>1
  <2>2. g[0] = <<>>
    BY <1>11, <2>1
  <2>3. ASSUME NEW n \in 1 .. N
        PROVE  g[n] = IF n = 1 THEN list[1] ELSE glue(g[n - 1], list[n])
    <3>1. n \in 0 .. N /\ n # 0
      BY <2>1
    <3> QED BY <1>11, <3>1, Zenon
  <2> QED BY <2>2, <2>3
<1>13. \A n \in 0 .. N : g[n] \in V
  <2> DEFINE Q == {n \in 0 .. N : g[n] \in V}
  <2>1. 0 \in Q
    <3> HIDE DEF N, V
    <3> QED BY <1>1, <1>2, <1>12
  <2>2. ASSUME NEW n \in 1 .. N, n - 1 \in Q PROVE n \in Q
    <3> HIDE DEF N, V
    <3>1. n \in 0 .. N /\ g[n - 1] \in V
      BY <1>1, <2>2
    <3>2. g[n] \in V
      BY <1>3, <1>12, <3>1
    <3> QED BY <3>1, <3>2
  <2>3. \A n \in 0 .. N : n \in Q
    <3> HIDE DEF Q, N, V
    <3> QED BY <1>1, <2>1, <2>2, AlongTheList
  <2> QED BY <2>3
<1>14. g \in [0 .. N -> V]
  BY <1>11, <1>13
<1> QED BY <1>9, <1>12, <1>14

-----------------------------------------------------------------------------
(* Taking lines apart. *)

Partial == [parts : Seq(Seq(Words)), current : Seq(Words), inQuotes : BOOLEAN]
AtFirst == [parts |-> <<>>, current |-> <<>>, inQuotes |-> FALSE]

LEMMA StepType ==
  ASSUME NEW s \in Partial, NEW ch \in Words
  PROVE  splitStep(s, ch) \in Partial
<1>1. s.parts \in Seq(Seq(Words)) /\ s.current \in Seq(Words) /\ s.inQuotes \in BOOLEAN
  BY DEF Partial
<1>2. Append(s.parts, s.current) \in Seq(Seq(Words)) /\ Append(s.current, ch) \in Seq(Words)
      /\ <<>> \in Seq(Words)
  BY <1>1, AppendProperties, EmptySeq
<1>3. PICK q \in BOOLEAN : q = IF ch \in {Quote, Escape} THEN ~s.inQuotes ELSE s.inQuotes
  BY <1>1
<1>4. splitStep(s, ch) = IF splits(ch, q)
          THEN [parts |-> Append(s.parts, s.current), current |-> <<>>, inQuotes |-> q]
          ELSE [parts |-> s.parts, current |-> Append(s.current, ch), inQuotes |-> q]
  BY <1>3, Zenon DEF splitStep
<1>5. [parts |-> Append(s.parts, s.current), current |-> <<>>, inQuotes |-> q] \in Partial
  BY <1>1, <1>2, Zenon DEF Partial
<1>6. [parts |-> s.parts, current |-> Append(s.current, ch), inQuotes |-> q] \in Partial
  BY <1>1, <1>2, Zenon DEF Partial
<1> QED BY <1>4, <1>5, <1>6

LEMMA SplittingIs ==
  ASSUME NEW text \in Seq(Words)
  PROVE  /\ splitting(text) \in [0 .. Len(text) -> Partial]
         /\ splitting(text)[0] = AtFirst
         /\ \A n \in 1 .. Len(text) :
              splitting(text)[n] = splitStep(splitting(text)[n - 1], text[n])
<1> DEFINE N == Len(text)
           h == [a \in Partial \X (1 .. N) |-> splitStep(a[1], text[a[2]])]
<1>1. N \in Nat /\ \A i \in 1 .. N : text[i] \in Words
  BY LenProperties, ElementOfSeq
<1>2. AtFirst \in Partial
  BY EmptySeq DEF AtFirst, Partial
<1>3. ASSUME NEW s \in Partial, NEW i \in 1 .. N PROVE splitStep(s, text[i]) \in Partial
  BY <1>1, StepType
<1>4. h \in [Partial \X (1 .. N) -> Partial]
  BY <1>3
<1>5. \A s \in Partial, i \in 1 .. N : h[<<s, i>>] = splitStep(s, text[i])
  OBVIOUS
<1>6. PICK f : FollowsTo(N, Partial, AtFirst, h, f)
  <2> HIDE DEF N, h
  <2> QED BY <1>1, <1>2, <1>4, RecursionExists
<1>7. f \in [0 .. N -> Partial] /\ f[0] = AtFirst
      /\ \A i \in 1 .. N : f[i] = splitStep(f[i - 1], text[i])
  <2> HIDE DEF h, N
  <2>1. ASSUME NEW i \in 1 .. N PROVE f[i - 1] \in Partial /\ f[i] = h[<<f[i - 1], i>>]
    <3>1. i - 1 \in 0 .. N
      BY <1>1
    <3> QED BY <1>6, <3>1 DEF FollowsTo
  <2> QED BY <1>5, <1>6, <2>1 DEF FollowsTo
<1> HIDE DEF h
<1>8. f = [n \in 0 .. Len(text) |-> IF n = 0 THEN AtFirst ELSE splitStep(f[n - 1], text[n])]
  <2>1. ASSUME NEW n \in 0 .. N
        PROVE  f[n] = IF n = 0 THEN AtFirst ELSE splitStep(f[n - 1], text[n])
    <3> HIDE DEF N
    <3>1. n = 0 \/ n \in 1 .. N
      BY <1>1
    <3> QED BY <1>7, <3>1
  <2> QED BY <1>7, <2>1
<1>9. PICK g : g = splitting(text)
  OBVIOUS
<1>10. g = [n \in 0 .. Len(text) |-> IF n = 0 THEN AtFirst ELSE splitStep(g[n - 1], text[n])]
  BY <1>8, <1>9, Zenon DEF splitting, AtFirst
<1>11. g = [n \in 0 .. N |-> IF n = 0 THEN AtFirst ELSE splitStep(g[n - 1], text[n])]
  BY <1>10
<1>12. g[0] = AtFirst /\ \A n \in 1 .. N : g[n] = splitStep(g[n - 1], text[n])
  <2> HIDE DEF N
  <2>1. 0 \in 0 .. N /\ \A n \in 1 .. N : n \in 0 .. N /\ n # 0
    BY <1>1
  <2>2. g[0] = AtFirst
    BY <1>11, <2>1
  <2>3. ASSUME NEW n \in 1 .. N PROVE g[n] = splitStep(g[n - 1], text[n])
    <3>1. n \in 0 .. N /\ n # 0
      BY <2>1
    <3> QED BY <1>11, <3>1, Zenon
  <2> QED BY <2>2, <2>3
<1>13. \A n \in 0 .. N : g[n] \in Partial
  <2> DEFINE Q == {n \in 0 .. N : g[n] \in Partial}
  <2>1. 0 \in Q
    <3> HIDE DEF N
    <3> QED BY <1>1, <1>2, <1>12
  <2>2. ASSUME NEW n \in 1 .. N, n - 1 \in Q PROVE n \in Q
    <3> HIDE DEF N
    <3>1. n \in 0 .. N /\ g[n - 1] \in Partial
      BY <1>1, <2>2
    <3>2. g[n] \in Partial
      BY <1>3, <1>12, <3>1
    <3> QED BY <3>1, <3>2
  <2>3. \A n \in 0 .. N : n \in Q
    <3> HIDE DEF Q, N
    <3> QED BY <1>1, <2>1, <2>2, AlongTheList
  <2> QED BY <2>3
<1>14. g \in [0 .. N -> Partial]
  BY <1>11, <1>13
<1> QED BY <1>9, <1>12, <1>14

\* How far a text is taken apart depends on what was read of it only.
LEMMA SameBeginning ==
  ASSUME NEW t \in Seq(Words), NEW u \in Seq(Words), NEW n \in Nat,
         n <= Len(t), n <= Len(u), \A i \in 1 .. n : t[i] = u[i]
  PROVE  splitting(t)[n] = splitting(u)[n]
<1>1. PICK f, g : f = splitting(t) /\ g = splitting(u)
  OBVIOUS
<1>2. f[0] = AtFirst /\ g[0] = AtFirst
  BY <1>1, SplittingIs
<1>3. ASSUME NEW i \in 1 .. n PROVE f[i] = splitStep(f[i - 1], t[i]) /\ g[i] = splitStep(g[i - 1], u[i])
  <2>1. i \in 1 .. Len(t) /\ i \in 1 .. Len(u)
    BY LenProperties
  <2> QED BY <1>1, <2>1, SplittingIs
<1> DEFINE Q == {i \in 0 .. n : f[i] = g[i]}
<1>4. 0 \in Q
  BY <1>2
<1>5. ASSUME NEW i \in 1 .. n, i - 1 \in Q PROVE i \in Q
  <2>1. f[i] = g[i]
    BY <1>3, <1>5
  <2> QED BY <2>1
<1>6. n \in Q
  <2> HIDE DEF Q
  <2>1. \A i \in 0 .. n : i \in Q
    BY <1>4, <1>5, AlongTheList
  <2> QED BY <2>1
<1> QED BY <1>1, <1>6

\* Reading a mailbox adds it to what is being read, whole.
LEMMA MailboxIsRead ==
  ASSUME NEW text \in Seq(Words), NEW m, isPlain(m), NEW s \in Nat,
         s + Len(m) <= Len(text), \A i \in 1 .. Len(m) : text[s + i] = m[i],
         NEW ps \in Seq(Seq(Words)),
         splitting(text)[s] = [parts |-> ps, current |-> <<>>, inQuotes |-> FALSE]
  PROVE  splitting(text)[s + Len(m)] = [parts |-> ps, current |-> m, inQuotes |-> FALSE]
<1> DEFINE N == Len(m)
<1>1. m \in Seq(Words) /\ N \in Nat /\ Len(text) \in Nat /\ \A i \in 1 .. N : m[i] \in Words
  BY LenProperties, ElementOfSeq DEF isPlain
<1>2. PICK w \in [0 .. Len(m) -> BOOLEAN] :
        /\ ~w[0] /\ ~w[Len(m)]
        /\ \A i \in 1 .. Len(m) :
             /\ w[i] = IF m[i] \in {Quote, Escape} THEN ~w[i - 1] ELSE w[i - 1]
             /\ m[i] \in {Comma} => w[i]
  BY Zenon DEF isPlain, quoted
<1>3. PICK f : f = splitting(text)
  OBVIOUS
<1>4. ASSUME NEW i \in 1 .. N PROVE f[s + i] = splitStep(f[s + i - 1], m[i])
  <2>1. PICK k : k = s + i
    OBVIOUS
  <2>2. k \in 1 .. Len(text) /\ k - 1 = s + i - 1 /\ text[k] = m[i]
    BY <1>1, <2>1
  <2>3. f[k] = splitStep(f[k - 1], text[k])
    BY <1>3, <2>2, SplittingIs
  <2> QED BY <2>1, <2>2, <2>3
<1> DEFINE Q == {i \in 0 .. N :
                   f[s + i] = [parts |-> ps, current |-> SubSeq(m, 1, i), inQuotes |-> w[i]]}
<1>5. 0 \in Q
  <2>1. SubSeq(m, 1, 0) = <<>>
    BY <1>1, SubSeqEmpty
  <2>2. w[0] = FALSE /\ 0 \in 0 .. N /\ s + 0 = s
    BY <1>1, <1>2
  <2>3. f[s + 0] = [parts |-> ps, current |-> SubSeq(m, 1, 0), inQuotes |-> w[0]]
    BY <1>3, <2>1, <2>2
  <2> QED BY <2>2, <2>3
<1>6. ASSUME NEW i \in 1 .. N, i - 1 \in Q PROVE i \in Q
  <2>1. PICK c, b : c = SubSeq(m, 1, i - 1) /\ b = w[i - 1]
    OBVIOUS
  <2>2. f[s + i - 1] = [parts |-> ps, current |-> c, inQuotes |-> b]
    BY <1>1, <1>6, <2>1
  <2>3. f[s + i] = splitStep([parts |-> ps, current |-> c, inQuotes |-> b], m[i])
    BY <1>4, <2>2
  <2>4. w[i] = IF m[i] \in {Quote, Escape} THEN ~b ELSE b
    BY <1>2, <2>1
  <2>5. ~splits(m[i], w[i])
    BY <1>2 DEF splits
  <2>6. f[s + i] = [parts |-> ps, current |-> Append(c, m[i]), inQuotes |-> w[i]]
    <3>1. splitStep([parts |-> ps, current |-> c, inQuotes |-> b], m[i]) =
            IF splits(m[i], w[i])
            THEN [parts |-> Append(ps, c), current |-> <<>>, inQuotes |-> w[i]]
            ELSE [parts |-> ps, current |-> Append(c, m[i]), inQuotes |-> w[i]]
      BY <2>4 DEF splitStep
    <3> QED BY <2>3, <2>5, <3>1, Zenon
  <2>7. Append(c, m[i]) = SubSeq(m, 1, i)
    <3>1. 1 \in 1 .. Len(m) /\ i \in 1 .. Len(m)
      BY <1>1
    <3>2. SubSeq(m, 1, i) = c \o <<m[i]>>
      BY <1>1, <2>1, <3>1, SubSeqRecursiveSecond
    <3>3. c \in Seq(Words)
      <4>1. \A j \in 1 .. i - 1 : m[j] \in Words
        BY <1>1
      <4> QED BY <2>1, <4>1, <1>1, SubSeqProperties
    <3>4. Append(c, m[i]) = c \o <<m[i]>>
      BY <1>1, <3>3, AppendIsConcat
    <3> QED BY <3>2, <3>4, Zenon
  <2> QED BY <2>6, <2>7
<1>7. N \in Q
  <2> HIDE DEF Q, N
  <2>1. \A i \in 0 .. N : i \in Q
    BY <1>1, <1>5, <1>6, AlongTheList
  <2> QED BY <1>1, <2>1
<1>8. SubSeq(m, 1, N) = m /\ w[N] = FALSE
  BY <1>1, <1>2, SubSeqFull
<1> QED BY <1>2, <1>3, <1>7, <1>8

\* A comma after a mailbox ends the part.
LEMMA CommaIsRead ==
  ASSUME NEW text \in Seq(Words), NEW s \in 1 .. Len(text), text[s] = Comma,
         NEW ps, NEW c,
         splitting(text)[s - 1] = [parts |-> ps, current |-> c, inQuotes |-> FALSE]
  PROVE  splitting(text)[s] = [parts |-> Append(ps, c), current |-> <<>>, inQuotes |-> FALSE]
<1>1. splitting(text)[s] = splitStep([parts |-> ps, current |-> c, inQuotes |-> FALSE], Comma)
  BY SplittingIs
<1>2. splits(Comma, FALSE) /\ Comma \notin {Quote, Escape}
  BY WordsDiffer DEF splits
<1>3. splitStep([parts |-> ps, current |-> c, inQuotes |-> FALSE], Comma) =
        [parts |-> Append(ps, c), current |-> <<>>, inQuotes |-> FALSE]
  BY <1>2 DEF splitStep
<1> QED BY <1>1, <1>3

\* What is trimmed off a plain name is nothing.
LEMMA TrimIs ==
  ASSUME NEW m \in Seq(Words)
  PROVE  /\ trim(m) \in Seq(Words)
         /\ isPlain(m) \/ m = <<>> => trim(m) = m
<1> DEFINE ink == {i \in DOMAIN m : m[i] # LineBreak}
           a == CHOOSE i \in ink : \A j \in ink : i <= j
           b == CHOOSE i \in ink : \A j \in ink : j <= i
           N == Len(m)
<1>1. N \in Nat /\ DOMAIN m = 1 .. N /\ \A i \in 1 .. N : m[i] \in Words
  BY LenProperties, ElementOfSeq
<1>2. trim(m) = IF ink = {} THEN <<>> ELSE SubSeq(m, a, b)
  BY DEF trim
<1>3. ink \subseteq 1 .. N
  BY <1>1
<1>4. CASE ink = {}
  <2>1. trim(m) = <<>> /\ <<>> \in Seq(Words)
    BY <1>2, <1>4, EmptySeq
  <2>2. ~isPlain(m)
    <3> SUFFICES ASSUME isPlain(m) PROVE FALSE
      OBVIOUS
    <3>1. N # 0 /\ m[1] # LineBreak
      BY <1>1, EmptySeq DEF isPlain
    <3>2. 1 \in ink
      BY <1>1, <3>1
    <3> QED BY <1>4, <3>2
  <2> QED BY <2>1, <2>2
<1>5. CASE ink # {}
  <2>1. \E i \in ink : \A j \in ink : i <= j
    <3> HIDE DEF ink
    <3>1. ink \subseteq Nat
      BY <1>3
    <3> QED BY <1>5, <3>1, LeastExists
  <2>2. \E i \in ink : \A j \in ink : j <= i
    <3> HIDE DEF ink
    <3> DEFINE bounds == {i \in 0 .. N : \A j \in ink : j <= i}
    <3>1. bounds \subseteq Nat /\ N \in bounds
      BY <1>1, <1>3
    <3>2. PICK i \in bounds : \A j \in bounds : i <= j
      <4> HIDE DEF bounds
      <4> QED BY <3>1, LeastExists
    <3>3. i \in ink
      <4> SUFFICES ASSUME i \notin ink PROVE FALSE
        OBVIOUS
      <4>1. \A j \in ink : j \in 1 .. N /\ j <= i /\ j # i
        BY <1>3
      <4>2. i \in 0 .. N /\ i # 0
        BY <1>5, <4>1
      <4>3. i - 1 \in bounds
        BY <1>1, <4>1, <4>2
      <4> QED BY <3>2, <4>2, <4>3
    <3> QED BY <3>3
  <2>3. a \in ink /\ b \in ink /\ \A j \in ink : a <= j /\ j <= b
    <3> HIDE DEF ink
    <3> QED BY <2>1, <2>2
  <2> HIDE DEF a, b
  <2>4. trim(m) = SubSeq(m, a, b)
    BY <1>2, <1>5
  <2>5. trim(m) \in Seq(Words)
    <3>1. a \in 1 .. N /\ b \in 1 .. N
      BY <1>3, <2>3
    <3>2. a \in Int /\ b \in Int /\ \A i \in a .. b : m[i] \in Words
      BY <1>1, <3>1
    <3> QED BY <2>4, <3>2, SubSeqProperties
  <2>6. ASSUME isPlain(m) PROVE trim(m) = m
    <3>1. N # 0 /\ m[1] # LineBreak /\ m[N] # LineBreak
      BY <1>1, <2>6, EmptySeq, WordsDiffer DEF isPlain, Last
    <3>2. 1 \in ink /\ N \in ink
      BY <1>1, <3>1
    <3>3. a \in 1 .. N /\ b \in 1 .. N /\ a <= 1 /\ N <= b
      BY <1>3, <2>3, <3>2
    <3>4. PICK c \in 1 .. N, d \in 1 .. N : c = a /\ d = b
      BY <3>3
    <3>5. c = 1 /\ d = N
      <4> HIDE DEF ink, N
      <4>1. c <= 1 /\ N <= d
        BY <3>3, <3>4
      <4> QED BY <1>1, <4>1
    <3>6. SubSeq(m, 1, N) = m
      BY SubSeqFull
    <3> QED BY <2>4, <3>4, <3>5, <3>6
  <2>7. m # <<>>
    BY <1>5
  <2> QED BY <2>5, <2>6, <2>7
<1> QED BY <1>4, <1>5

\* The address found in a plain name is its own.
LEMMA BareIs ==
  ASSUME NEW m, isPlain(m)
  PROVE  bareAddress(m) = <<Last(m)>>
<1>1. Len(m) \in Nat \ {0} /\ DOMAIN m = 1 .. Len(m)
  BY LenProperties, EmptySeq DEF isPlain
<1>2. {i \in DOMAIN m : m[i] \in Addresses} = {Len(m)}
  BY <1>1 DEF isPlain, Last
<1>3. bareAddress(m) = <<m[CHOOSE i \in {Len(m)} : \A j \in {Len(m)} : i <= j]>>
  BY <1>2 DEF bareAddress
<1>4. (CHOOSE i \in {Len(m)} : \A j \in {Len(m)} : i <= j) = Len(m)
  BY <1>1
<1> QED BY <1>3, <1>4 DEF Last

\* Any lists of recipients, and the lines of plain names.
Strings == Seq(Seq(Words))
Lines == {l \in Strings : \A a \in ToSet(l) : isPlain(a)}

LEMMA TrimmedIs ==
  ASSUME NEW l \in Strings
  PROVE  /\ [i \in DOMAIN l |-> trim(l[i])] \in Strings
         /\ (\A i \in 1 .. Len(l) : trim(l[i]) = l[i]) => [i \in DOMAIN l |-> trim(l[i])] = l
<1>1. Len(l) \in Nat /\ DOMAIN l = 1 .. Len(l) /\ l \in [1 .. Len(l) -> Seq(Words)]
  BY LenProperties DEF Strings
<1>2. [i \in 1 .. Len(l) |-> trim(l[i])] \in [1 .. Len(l) -> Seq(Words)]
  BY <1>1, TrimIs
<1>3. [i \in 1 .. Len(l) |-> trim(l[i])] \in Strings
  BY <1>1, <1>2 DEF Strings
<1> QED BY <1>1, <1>3

\* Whatever is on a line, what it is taken apart to are strings.
LEMMA TakenApartIs ==
  ASSUME NEW l \in Strings
  PROVE  splitAddressList(addressHeader(l)) \in Strings
<1>1. PICK n : n = notBlank(l)
  OBVIOUS
<1>2. n \in Strings
  BY <1>1, OnlyIs DEF notBlank, Strings
<1>3. PICK text : text = addressHeader(l)
  OBVIOUS
<1>4. text \in Seq(Words)
  <2>1. text = joining(n)[Len(n)] /\ Len(n) \in Nat
    BY <1>1, <1>2, <1>3, LenProperties DEF addressHeader, Strings
  <2>2. joining(n) \in [0 .. Len(n) -> Seq(Words)]
    BY <1>2, JoiningIs DEF Strings
  <2> QED BY <2>1, <2>2
<1>5. PICK end : end = splitting(text)[Len(text)]
  OBVIOUS
<1>6. end \in Partial
  <2>1. Len(text) \in Nat
    BY <1>4, LenProperties
  <2>2. splitting(text) \in [0 .. Len(text) -> Partial]
    BY <1>4, SplittingIs
  <2> QED BY <1>5, <2>1, <2>2
<1>7. PICK parts : parts = Append(end.parts, end.current)
  OBVIOUS
<1>8. parts \in Strings
  BY <1>6, <1>7, AppendProperties DEF Partial, Strings
<1>9. PICK trimmed : trimmed = [i \in DOMAIN parts |-> trim(parts[i])]
  OBVIOUS
<1>10. trimmed \in Strings
  BY <1>8, <1>9, TrimmedIs
<1>11. splitAddressList(text) = notBlank(trimmed)
  BY <1>5, <1>7, <1>9, Zenon DEF splitAddressList
<1>12. notBlank(trimmed) \in Strings
  BY <1>10, OnlyIs DEF notBlank, Strings
<1> QED BY <1>3, <1>11, <1>12

LEMMA LineIs ==
  ASSUME NEW line \in Lines
  PROVE  /\ line \in Seq(Seq(Words)) /\ Len(line) \in Nat
         /\ \A i \in 1 .. Len(line) : isPlain(line[i]) /\ line[i] \in Seq(Words)
         /\ notBlank(line) = line
<1>1. line \in Seq(Seq(Words)) /\ Len(line) \in Nat /\ ToSet(line) = {line[i] : i \in 1 .. Len(line)}
  BY ToSetIs DEF Lines, Strings
<1>2. \A i \in 1 .. Len(line) : isPlain(line[i]) /\ line[i] \in Seq(Words)
  BY <1>1, ElementOfSeq DEF Lines, Strings
<1>3. ToSet(line) \subseteq ToSet(line) \ {<<>>}
  BY DEF Lines, Strings, isPlain
<1>4. notBlank(line) = line
  BY <1>1, <1>3, OnlyAll DEF notBlank
<1> QED BY <1>1, <1>2, <1>4

LEMMA LineIsTakenApart ==
  ASSUME NEW line \in Lines, NEW n \in 1 .. Len(line)
  PROVE  /\ joining(line)[n] \in Seq(Words)
         /\ splitting(joining(line)[n])[Len(joining(line)[n])] =
              [parts |-> SubSeq(line, 1, n - 1), current |-> line[n], inQuotes |-> FALSE]
<1> DEFINE N == Len(line)
<1>1. line \in Seq(Seq(Words)) /\ N \in Nat /\ \A i \in 1 .. N : isPlain(line[i]) /\ line[i] \in Seq(Words)
  BY LineIs
<1>2. PICK J : J = joining(line)
  OBVIOUS
<1>3. /\ J \in [0 .. N -> Seq(Words)]
      /\ \A i \in 1 .. N : J[i] = IF i = 1 THEN line[1] ELSE glue(J[i - 1], line[i])
  BY <1>1, <1>2, JoiningIs
<1> DEFINE Q == {i \in 0 .. N : i # 0 =>
                   splitting(J[i])[Len(J[i])] =
                     [parts |-> SubSeq(line, 1, i - 1), current |-> line[i], inQuotes |-> FALSE]}
<1>4. 0 \in Q
  BY <1>1
<1>5. ASSUME NEW i \in 1 .. N, i - 1 \in Q PROVE i \in Q
  <2> SUFFICES splitting(J[i])[Len(J[i])] =
                 [parts |-> SubSeq(line, 1, i - 1), current |-> line[i], inQuotes |-> FALSE]
    OBVIOUS
  <2>1. isPlain(line[i]) /\ line[i] \in Seq(Words) /\ Len(line[i]) \in Nat
    BY <1>1, LenProperties
  <2>2. PICK u \in Seq(Words) : u = J[i]
    BY <1>3
  <2>3. CASE i = 1
    <3>1. u = line[1]
      BY <1>3, <2>2, <2>3
    <3>2. SubSeq(line, 1, 0) = <<>>
      BY <1>1, SubSeqEmpty
    <3>3. splitting(u)[0] = [parts |-> <<>>, current |-> <<>>, inQuotes |-> FALSE]
      BY SplittingIs DEF AtFirst
    <3>4. <<>> \in Seq(Seq(Words))
      BY EmptySeq
    <3>5. \A j \in 1 .. Len(line[1]) : u[0 + j] = line[1][j]
      BY <3>1, <2>1
    <3>6. PICK m : m = line[1]
      OBVIOUS
    <3>7. isPlain(m) /\ 0 \in Nat /\ 0 + Len(m) <= Len(u) /\ \A j \in 1 .. Len(m) : u[0 + j] = m[j]
      BY <2>1, <2>3, <3>1, <3>5, <3>6
    <3>8. splitting(u)[0 + Len(m)] = [parts |-> <<>>, current |-> m, inQuotes |-> FALSE]
      BY <3>3, <3>4, <3>7, MailboxIsRead
    <3>9. u = J[i] /\ u = m /\ 0 + Len(m) = Len(m) /\ i - 1 = 0 /\ line[i] = m
      BY <2>1, <2>2, <2>3, <3>1, <3>6
    <3> QED BY <3>2, <3>8, <3>9, Zenon
  <2>4. CASE i # 1
    <3>1. i - 1 \in 0 .. N /\ i - 1 \in 1 .. N /\ i - 1 # 0
      <4> HIDE DEF N
      <4> QED BY <1>1, <2>4
    <3>2. PICK t \in Seq(Words) : t = J[i - 1]
      <4> HIDE DEF N
      <4> QED BY <1>3, <3>1
    <3>3. PICK ps : ps = SubSeq(line, 1, i - 1 - 1)
      OBVIOUS
    <3>4. splitting(t)[Len(t)] = [parts |-> ps, current |-> line[i - 1], inQuotes |-> FALSE]
      BY <1>5, <3>1, <3>2, <3>3
    <3>5. u = glue(t, line[i])
      BY <1>3, <2>2, <2>4, <3>2
    <3>6. PICK L, M, K : L = Len(t) /\ M = Len(line[i]) /\ K = Len(u)
      OBVIOUS
    <3>7. /\ L \in Nat /\ M \in Nat /\ K = L + 1 + M
          /\ \A j \in 1 .. L : u[j] = t[j]
          /\ u[L + 1] = Comma
          /\ \A j \in 1 .. M : u[L + 1 + j] = line[i][j]
      BY <2>1, <3>5, <3>6, GlueIs
    <3>8. splitting(u)[L] = splitting(t)[L]
      <4>1. L <= L /\ L <= K
        BY <3>7
      <4> QED BY <3>6, <3>7, <4>1, SameBeginning
    <3>9. splitting(u)[L + 1] = [parts |-> Append(ps, line[i - 1]), current |-> <<>>, inQuotes |-> FALSE]
      <4>1. PICK k : k = L + 1
        OBVIOUS
      <4>2. k \in 1 .. K /\ k - 1 = L /\ u[k] = Comma
        BY <3>7, <4>1
      <4>3. splitting(u)[k - 1] = [parts |-> ps, current |-> line[i - 1], inQuotes |-> FALSE]
        BY <3>4, <3>6, <3>8, <4>2
      <4>4. k \in 1 .. Len(u)
        BY <3>6, <4>2
      <4>5. splitting(u)[k] = [parts |-> Append(ps, line[i - 1]), current |-> <<>>, inQuotes |-> FALSE]
        <5>1. PICK c : c = line[i - 1]
          OBVIOUS
        <5>2. splitting(u)[k - 1] = [parts |-> ps, current |-> c, inQuotes |-> FALSE]
          BY <4>3, <5>1
        <5>3. splitting(u)[k] = [parts |-> Append(ps, c), current |-> <<>>, inQuotes |-> FALSE]
          BY <4>2, <4>4, <5>2, CommaIsRead
        <5> QED BY <5>1, <5>3
      <4> QED BY <4>1, <4>5
    <3>10. Append(ps, line[i - 1]) = SubSeq(line, 1, i - 1)
      <4>1. PICK k : k = i - 1
        OBVIOUS
      <4>2. k \in 1 .. Len(line) /\ 1 \in 1 .. Len(line) /\ k \in 1 .. Len(line)
        BY <3>1, <4>1
      <4>3. SubSeq(line, 1, k) = ps \o <<line[k]>>
        <5>1. SubSeq(line, 1, k) = SubSeq(line, 1, k - 1) \o <<line[k]>>
          BY <1>1, <4>2, SubSeqRecursiveSecond, Zenon
        <5> QED BY <3>3, <4>1, <5>1, Zenon
      <4>4. ps \in Seq(Seq(Words))
        <5>1. \A j \in 1 .. i - 1 - 1 : line[j] \in Seq(Words)
          BY <1>1
        <5>2. i - 1 - 1 \in Int /\ 1 \in Int
          BY <1>1
        <5> QED BY <3>3, <5>1, <5>2, SubSeqProperties
      <4>5. line[k] \in Seq(Words)
        BY <1>1, <4>2
      <4>6. Append(ps, line[k]) = ps \o <<line[k]>>
        BY <4>4, <4>5, AppendIsConcat, Zenon
      <4> QED BY <4>1, <4>3, <4>6, Zenon
    <3>11. SubSeq(line, 1, i - 1) \in Seq(Seq(Words))
      <4>1. \A j \in 1 .. i - 1 : line[j] \in Seq(Words)
        BY <1>1
      <4>2. i - 1 \in Int /\ 1 \in Int
        BY <1>1
      <4> QED BY <4>1, <4>2, SubSeqProperties
    <3>12. splitting(u)[L + 1 + M] =
             [parts |-> SubSeq(line, 1, i - 1), current |-> line[i], inQuotes |-> FALSE]
      <4>1. PICK ps1 \in Seq(Seq(Words)) : ps1 = SubSeq(line, 1, i - 1)
        BY <3>11
      <4>2. PICK k \in Nat : k = L + 1
        BY <3>7
      <4>3. splitting(u)[k] = [parts |-> ps1, current |-> <<>>, inQuotes |-> FALSE]
        BY <3>9, <3>10, <4>1, <4>2
      <4>4. k + M <= K /\ \A j \in 1 .. M : u[k + j] = line[i][j]
        BY <3>7, <4>2
      <4>5. splitting(u)[k + M] = [parts |-> ps1, current |-> line[i], inQuotes |-> FALSE]
        BY <2>1, <3>6, <4>3, <4>4, MailboxIsRead
      <4> QED BY <4>1, <4>2, <4>5
    <3> QED BY <2>2, <3>6, <3>7, <3>12
  <2> QED BY <2>3, <2>4
<1>6. n \in Q
  <2> HIDE DEF Q, N
  <2>1. \A i \in 0 .. N : i \in Q
    BY <1>1, <1>4, <1>5, AlongTheList
  <2> QED BY <1>1, <2>1 DEF N
<1>7. n # 0 /\ n \in 0 .. N
  BY <1>1
<1>8. J[n] \in Seq(Words)
  <2> HIDE DEF N, Q
  <2> QED BY <1>3, <1>7
<1>9. splitting(J[n])[Len(J[n])] =
        [parts |-> SubSeq(line, 1, n - 1), current |-> line[n], inQuotes |-> FALSE]
  BY <1>6, <1>7, Zenon
<1> QED BY <1>2, <1>8, <1>9, Zenon

\* Taking a line apart undoes putting it together, for any number of plain names:
\* every one comes back whole, whatever commas stand in its quotes, none is lost,
\* and they keep their order.  Names with a comma after an odd number of escaped
\* quotes are not among them.
THEOREM LinesComeThrough ==
  \A line \in Lines : splitAddressList(addressHeader(line)) = line
<1> SUFFICES ASSUME NEW line \in Lines PROVE splitAddressList(addressHeader(line)) = line
  OBVIOUS
<1> DEFINE N == Len(line)
<1>1. /\ line \in Seq(Seq(Words)) /\ N \in Nat /\ notBlank(line) = line
      /\ \A i \in 1 .. N : isPlain(line[i]) /\ line[i] \in Seq(Words)
  BY LineIs
<1>2. PICK text : text = addressHeader(line)
  OBVIOUS
<1>3. text = joining(line)[N]
  BY <1>1, <1>2 DEF addressHeader
<1>4. PICK end : end = splitting(text)[Len(text)]
  OBVIOUS
<1> DEFINE parts == Append(end.parts, end.current)
<1>5. splitAddressList(text) = notBlank([i \in DOMAIN parts |-> trim(parts[i])])
  BY <1>4 DEF splitAddressList
<1> HIDE DEF parts
<1>6. CASE N = 0
  <2>1. line = <<>>
    BY <1>1, <1>6, EmptySeq
  <2>2. text = <<>>
    BY <1>1, <1>3, <1>6, JoiningIs
  <2>3. text \in Seq(Words) /\ Len(text) = 0
    BY <2>2, EmptySeq
  <2>4. end = AtFirst
    BY <1>4, <2>3, SplittingIs
  <2>5. parts = <<<<>>>> /\ parts \in Strings
    <3>1. <<>> \in Seq(Words)
      BY EmptySeq
    <3>2. PICK e \in Seq(Words) : e = <<>>
      BY <3>1
    <3>3. <<e>> \in Strings
      BY DEF Strings
    <3> QED BY <2>4, <3>2, <3>3 DEF AtFirst, parts
  <2>6. PICK l : l = <<<<>>>>
    OBVIOUS
  <2>11. [i \in DOMAIN parts |-> trim(parts[i])] = l
    <3>1. Len(parts) = 1 /\ parts[1] = <<>>
      BY <2>5
    <3>2. <<>> \in Seq(Words)
      BY EmptySeq
    <3>4. trim(<<>>) = <<>>
      BY <3>2, TrimIs
    <3>5. ASSUME NEW i \in 1 .. Len(parts) PROVE trim(parts[i]) = parts[i]
      <4>1. i = 1
        BY <3>1
      <4> QED BY <3>1, <3>4, <4>1
    <3>3. \A i \in 1 .. Len(parts) : trim(parts[i]) = parts[i]
      BY <3>5
    <3> QED BY <2>5, <2>6, <3>3, TrimmedIs
  <2>7. l \in Seq({<<>>}) /\ ToSet(l) = {<<>>}
    BY <2>6 DEF ToSet
  <2>8. PICK o : o = notBlank(l)
    OBVIOUS
  <2>9. o \in Seq({<<>>}) /\ ToSet(o) = {}
    BY <2>7, <2>8, OnlyIs DEF notBlank
  <2>10. o = <<>>
    <3>1. Len(o) \in Nat /\ ToSet(o) = {o[i] : i \in 1 .. Len(o)}
      BY <2>9, ToSetIs
    <3>2. PICK n \in Nat : n = Len(o)
      BY <3>1
    <3>3. \A i \in 1 .. n : o[i] \in ToSet(o)
      BY <3>1, <3>2
    <3>4. n = 0
      <4>1. n # 0 => 1 \in 1 .. n
        OBVIOUS
      <4> QED BY <2>9, <3>3, <4>1
    <3> QED BY <2>9, <3>2, <3>4, EmptySeq
  <2> QED BY <1>2, <1>5, <2>1, <2>11, <2>8, <2>10
<1>7. CASE N # 0
  <2>1. N \in 1 .. N
    BY <1>1, <1>7
  <2>2. end = [parts |-> SubSeq(line, 1, N - 1), current |-> line[N], inQuotes |-> FALSE]
    BY <1>3, <1>4, <2>1, LineIsTakenApart
  <2>3. Append(SubSeq(line, 1, N - 1), line[N]) = line
    <3>1. PICK ps : ps = SubSeq(line, 1, N - 1)
      OBVIOUS
    <3>2. PICK n \in Nat, k \in Nat : n = N /\ k = N - 1
      <4> HIDE DEF N
      <4>1. N - 1 \in Nat
        BY <1>1, <2>1
      <4> QED BY <1>1, <4>1
    <3>3. n \in 1 .. n /\ n = k + 1
      BY <2>1, <3>2
    <3>4. /\ ps \in Seq(Seq(Words)) /\ Len(ps) = k /\ \A i \in 1 .. k : ps[i] = line[i]
      <4>1. \A i \in 1 .. k : line[i] \in Seq(Words)
        BY <1>1, <3>2
      <4>2. ps = SubSeq(line, 1, k) /\ 1 \in Int /\ k \in Int
        BY <3>1, <3>2
      <4>3. /\ ps \in Seq(Seq(Words)) /\ Len(ps) = IF 1 <= k THEN k - 1 + 1 ELSE 0
            /\ \A i \in 1 .. k - 1 + 1 : ps[i] = line[1 + i - 1]
        BY <4>1, <4>2, SubSeqProperties
      <4>4. ASSUME NEW i \in 1 .. k PROVE ps[i] = line[i]
        <5>1. i \in 1 .. k - 1 + 1 /\ 1 + i - 1 = i
          OBVIOUS
        <5> QED BY <4>3, <5>1
      <4>5. Len(ps) = k
        BY <4>3
      <4> QED BY <4>3, <4>4, <4>5
    <3>5. PICK l : l = Append(ps, line[n])
      OBVIOUS
    <3>6. line[n] \in Seq(Words)
      BY <1>1, <3>2, <3>3
    <3>7. /\ l \in Seq(Seq(Words)) /\ Len(l) = k + 1 /\ l[k + 1] = line[n]
          /\ \A i \in 1 .. k : l[i] = ps[i]
      BY <3>4, <3>5, <3>6, AppendProperties
    <3>8. ASSUME NEW i \in 1 .. n PROVE l[i] = line[i]
      <4>1. i = k + 1 \/ i \in 1 .. k
        BY <3>3
      <4> QED BY <3>3, <3>4, <3>7, <4>1
    <3>9. Len(l) = Len(line) /\ \A i \in 1 .. Len(l) : l[i] = line[i]
      BY <3>2, <3>3, <3>7, <3>8
    <3>10. l = line
      BY <1>1, <3>7, <3>9, SeqEqual
    <3> QED BY <3>1, <3>2, <3>5, <3>10
  <2>4. parts = line
    BY <2>2, <2>3 DEF parts
  <2>5. \A i \in 1 .. Len(line) : trim(line[i]) = line[i]
    BY <1>1, TrimIs
  <2>6. [i \in DOMAIN parts |-> trim(parts[i])] = line
    BY <1>1, <2>4, <2>5, TrimmedIs DEF Strings
  <2> QED BY <1>1, <1>2, <1>5, <2>6
<1> QED BY <1>6, <1>7

-----------------------------------------------------------------------------
(* What a reply is derived to be. *)

Messages ==
  [place : {"received", "draft", "sent", "gone"}, from : Strings, replyTo : Strings,
   to : Strings, cc : Strings, subject : {s \in Seq(Nat) : Len(s) <= 1}, id : Nat,
   thread : Nat, inReplyTo : Nat, references : Seq(Nat),
   broken : SUBSET {"Subject", "Message-ID", "In-Reply-To", "References"},
   parent : Nat, all : BOOLEAN, own : SUBSET {"to", "cc", "subject"},
   madeBy : {"none", "send", "reply", "draft", "sendDraft"}, sentBy : Requests \cup {Nobody}]

LEMMA ConcatToSet ==
  ASSUME NEW T, NEW s \in Seq(T), NEW t \in Seq(T)
  PROVE  s \o t \in Seq(T) /\ ToSet(s \o t) = ToSet(s) \cup ToSet(t)
<1>1. PICK u : u = s \o t
  OBVIOUS
<1>2. /\ s \o t \in Seq(T) /\ Len(s \o t) = Len(s) + Len(t)
      /\ \A i \in 1 .. Len(s) + Len(t) : (s \o t)[i] = IF i <= Len(s) THEN s[i] ELSE t[i - Len(s)]
  BY ConcatProperties
<1>3. /\ u \in Seq(T) /\ Len(u) = Len(s) + Len(t)
      /\ \A i \in 1 .. Len(s) + Len(t) : u[i] = IF i <= Len(s) THEN s[i] ELSE t[i - Len(s)]
  BY <1>1, <1>2, Zenon
<1>4. /\ Len(s) \in Nat /\ ToSet(s) = {s[i] : i \in 1 .. Len(s)}
      /\ Len(t) \in Nat /\ ToSet(t) = {t[i] : i \in 1 .. Len(t)}
      /\ ToSet(u) = {u[i] : i \in 1 .. Len(u)}
  BY <1>3, ToSetIs
<1>5. PICK a \in Nat, b \in Nat : a = Len(s) /\ b = Len(t)
  BY <1>4
<1>6. ASSUME NEW i \in 1 .. a + b PROVE u[i] \in ToSet(s) \cup ToSet(t)
  <2>1. CASE i <= a
    <3>1. u[i] = s[i] /\ i \in 1 .. a
      BY <1>3, <1>5, <2>1
    <3> QED BY <1>4, <1>5, <3>1
  <2>2. CASE ~(i <= a)
    <3>1. u[i] = t[i - a] /\ i - a \in 1 .. b
      BY <1>3, <1>5, <2>2
    <3> QED BY <1>4, <1>5, <3>1
  <2> QED BY <2>1, <2>2
<1>7. ASSUME NEW i \in 1 .. a PROVE s[i] \in ToSet(u)
  <2>1. i \in 1 .. a + b /\ i <= a
    OBVIOUS
  <2>2. u[i] = s[i]
    BY <1>3, <1>5, <2>1
  <2> QED BY <1>3, <1>4, <1>5, <2>1, <2>2
<1>8. ASSUME NEW i \in 1 .. b PROVE t[i] \in ToSet(u)
  <2>1. PICK k : k = a + i
    OBVIOUS
  <2>2. k \in 1 .. a + b /\ ~(k <= a) /\ k - a = i
    BY <2>1
  <2>3. u[k] = t[i]
    BY <1>3, <1>5, <2>2
  <2> QED BY <1>3, <1>4, <1>5, <2>2, <2>3
<1>9. ToSet(u) = ToSet(s) \cup ToSet(t)
  BY <1>3, <1>4, <1>5, <1>6, <1>7, <1>8
<1> QED BY <1>1, <1>3, <1>9

\* Leaving out the blanks.
LEMMA NotBlankIs ==
  ASSUME NEW l \in Strings
  PROVE  /\ notBlank(l) \in Strings
         /\ ToSet(notBlank(l)) = ToSet(l) \ {<<>>}
<1>1. PICK o : o = notBlank(l)
  OBVIOUS
<1>2. o \in Strings /\ ToSet(o) = ToSet(l) \cap (ToSet(l) \ {<<>>})
  BY <1>1, OnlyIs DEF notBlank, Strings
<1> QED BY <1>1, <1>2

LEMMA NewMessageIs ==
  /\ NewMessage \in Messages
  /\ NewMessage.to = <<>> /\ NewMessage.cc = <<>> /\ NewMessage.subject = <<>>
  /\ NewMessage.references = <<>> /\ NewMessage.inReplyTo = 0 /\ NewMessage.broken = {}
  /\ NewMessage.parent = 0 /\ NewMessage.thread = 0 /\ NewMessage.id = 0
  /\ NewMessage.own = {} /\ NewMessage.madeBy = "none" /\ NewMessage.sentBy = Nobody
  /\ <<>> \in Strings /\ ToSet(<<>>) = {}
<1>1. <<>> \in Strings
  BY EmptySeq DEF Strings
<1>2. <<<<Self>>>> \in Strings
  <2>1. Self \in Words
    BY ComposeConfig DEF Words
  <2>2. PICK m : m = <<Self>>
    OBVIOUS
  <2>3. m \in Seq(Words)
    BY <2>1, <2>2
  <2>4. <<m>> \in Seq(Seq(Words))
    BY <2>3
  <2> QED BY <2>2, <2>4 DEF Strings
<1>3. <<>> \in Seq(Nat) /\ <<>> \in {s \in Seq(Nat) : Len(s) <= 1}
  BY EmptySeq
<1>4. NewMessage \in Messages
  BY <1>1, <1>2, <1>3 DEF NewMessage, Messages
<1>5. ToSet(<<>>) = {}
  BY DEF ToSet
<1> QED BY <1>1, <1>4, <1>5 DEF NewMessage

\* Who is on the Cc line of a reply to p.
others(p, replyAll) ==
  IF replyAll THEN {a \in readers(p) : Last(a) \notin addressesOn(sender(p)) \cup {Self}} ELSE {}

\* What is left out of the lines of p, if they are plain: those replied to and oneself.
LEMMA OthersIs ==
  ASSUME NEW to \in Lines, NEW on, \A a \in on : isPlain(a)
  PROVE  {a \in on : bareAddress(a) \notin {bareAddress(b) : b \in ToSet(to)} \cup {<<Self>>}} =
           {a \in on : Last(a) \notin addressesOn(to) \cup {Self}}
<1>1. \A b \in ToSet(to) : isPlain(b)
  BY DEF Lines
<1>2. \A a \in on \cup ToSet(to) : bareAddress(a) = <<Last(a)>>
  BY <1>1, BareIs
<1>3. \A x, y : <<x>> = <<y>> <=> x = y
  OBVIOUS
<1>4. {bareAddress(b) : b \in ToSet(to)} = {<<Last(b)>> : b \in ToSet(to)}
  BY <1>2
<1>5. ASSUME NEW a \in on
      PROVE  bareAddress(a) \in {bareAddress(b) : b \in ToSet(to)} \cup {<<Self>>} <=>
               Last(a) \in addressesOn(to) \cup {Self}
  BY <1>2, <1>3, <1>4 DEF addressesOn
<1> QED BY <1>5

\* A reply is derived from the headers of the original, and from its lines, if
\* they are plain, as they were written.
LEMMA ReplyContextIs ==
  ASSUME NEW p \in Messages, NEW replyAll \in BOOLEAN,
         NEW c, c = buildReplyContext(p, replyAll), referencesAfter(p) \in Seq(Nat)
  PROVE  /\ c \in Messages
         /\ plainLines(p) => c.to = sender(p) /\ ToSet(c.cc) = others(p, replyAll)
         /\ c.subject = subjectAfter(p) /\ c.thread = p.thread /\ c.inReplyTo = p.id
         /\ c.references = referencesAfter(p) /\ c.broken = brokenAfter(p)
<1>1. /\ p.from \in Strings /\ p.replyTo \in Strings /\ p.to \in Strings /\ p.cc \in Strings
      /\ p.subject \in Seq(Nat) /\ Len(p.subject) <= 1 /\ p.thread \in Nat /\ p.id \in Nat
  BY DEF Messages
<1>2. PICK to, on, to2, cc2 :
        /\ to = splitAddressList(addressHeader(IF p.replyTo # <<>> THEN p.replyTo ELSE p.from))
        /\ to2 = splitAddressList(addressHeader(p.to))
        /\ cc2 = splitAddressList(addressHeader(p.cc))
        /\ on = to2 \o cc2
  OBVIOUS
<1>3. to \in Strings /\ to2 \in Strings /\ cc2 \in Strings
  BY <1>1, <1>2, TakenApartIs
<1>4. on \in Strings /\ ToSet(on) = ToSet(to2) \cup ToSet(cc2)
  BY <1>2, <1>3, ConcatToSet DEF Strings
<1>5. PICK S : S = {a \in ToSet(on) :
                      bareAddress(a) \notin {bareAddress(b) : b \in ToSet(to)} \cup {<<Self>>}}
  OBVIOUS
<1>6. only(on, S) \in Strings /\ ToSet(only(on, S)) = S
  <2>1. only(on, S) \in Strings /\ ToSet(only(on, S)) = ToSet(on) \cap S
    BY <1>4, OnlyIs DEF Strings
  <2> QED BY <1>5, <2>1
<1>7. PICK cc : cc = IF replyAll THEN only(on, S) ELSE <<>>
  OBVIOUS
<1>8. cc \in Strings /\ ToSet(cc) = IF replyAll THEN S ELSE {}
  BY <1>6, <1>7, NewMessageIs
<1>9. ASSUME plainLines(p) PROVE to = sender(p) /\ ToSet(cc) = others(p, replyAll)
  <2>1. sender(p) \in Lines /\ p.to \in Lines /\ p.cc \in Lines
    BY <1>1, <1>9 DEF plainLines, sender, Lines
  <2>2. to = sender(p)
    BY <1>2, <2>1, LinesComeThrough DEF sender
  <2>3. to2 = p.to /\ cc2 = p.cc
    BY <1>2, <2>1, LinesComeThrough
  <2>4. ToSet(on) = readers(p)
    BY <1>4, <2>3 DEF readers
  <2>5. \A a \in ToSet(on) : isPlain(a)
    BY <2>1, <2>4 DEF readers, Lines
  <2>6. S = {a \in ToSet(on) : Last(a) \notin addressesOn(to) \cup {Self}}
    BY <1>5, <2>1, <2>2, <2>5, OthersIs
  <2> QED BY <1>8, <2>2, <2>4, <2>6 DEF others
<1>10. PICK th, id, su, rf, br :
         /\ th = p.thread /\ id = p.id /\ su = subjectAfter(p)
         /\ rf = referencesAfter(p) /\ br = brokenAfter(p)
  OBVIOUS
<1>11. su \in {s \in Seq(Nat) : Len(s) <= 1}
  <2>1. <<1>> \in Seq(Nat) /\ Len(<<1>>) <= 1
    OBVIOUS
  <2> QED BY <1>1, <1>10, <2>1 DEF subjectAfter
<1>12. br \in SUBSET {"Subject", "Message-ID", "In-Reply-To", "References"}
  BY <1>10 DEF brokenAfter
<1>13. c = [NewMessage EXCEPT !.to = to, !.cc = cc, !.subject = su, !.thread = th,
                              !.inReplyTo = id, !.references = rf, !.broken = br]
  BY <1>2, <1>5, <1>7, <1>10, Zenon DEF buildReplyContext
<1>14. c \in Messages
  <2>1. th \in Nat /\ id \in Nat /\ rf \in Seq(Nat) /\ NewMessage \in Messages
    BY <1>1, <1>10, NewMessageIs
  <2>2. PICK n : n = [NewMessage EXCEPT !.to = to, !.cc = cc, !.subject = su]
    OBVIOUS
  <2>3. n \in Messages
    BY <1>3, <1>8, <1>11, <2>1, <2>2 DEF Messages
  <2>4. [n EXCEPT !.thread = th, !.inReplyTo = id, !.references = rf, !.broken = br] \in Messages
    BY <1>12, <2>1, <2>3 DEF Messages
  <2> QED BY <1>13, <2>2, <2>4, Zenon
<1>15. /\ c.to = to /\ c.cc = cc /\ c.subject = su /\ c.thread = th /\ c.inReplyTo = id
       /\ c.references = rf /\ c.broken = br
  BY <1>13, NewMessageIs DEF Messages
<1> QED BY <1>9, <1>10, <1>14, <1>15

-----------------------------------------------------------------------------
(* The invariant. *)

\* References that message k may have: messages before it, each once.
Chains(k) ==
  {s \in Seq(ids \ {0}) :
     /\ \A i \in 1 .. Len(s) : s[i] < k \/ s[i] = MaxMail + 1
     /\ \A i, j \in 1 .. Len(s) : s[i] = s[j] => i = j}

\* x goes to whom a reply to p is for.
Addressed(x, p) ==
  plainLines(p) =>
    /\ "to" \notin x.own => ToSet(x.to) = ToSet(sender(p))
    /\ "cc" \notin x.own => ToSet(x.cc) = others(p, x.all)

Answers(x, p) ==
  /\ x.thread = p.thread /\ x.inReplyTo = p.id /\ x.references = referencesAfter(p)
  /\ "subject" \notin x.own => x.subject = subjectAfter(p)
  /\ Addressed(x, p)

\* The message ml[k] of the conversation ml.
MessageSound(ml, k) ==
  /\ ml[k] \in Messages
  /\ ml[k].id \in {0, k} /\ ml[k].thread \in 1 .. k
  /\ ml[k].references \in Chains(k)
  /\ ml[k].parent \in 0 .. k - 1
  /\ ml[k].place = "draft" => ml[k].madeBy = "draft"
  /\ k # 1 => buildMimeMessage(ml[k]) /\ ml[k].broken = {}
  /\ ml[k].parent = 0 => ml[k].inReplyTo = 0
  /\ ml[k].parent # 0 => Answers(ml[k], ml[ml[k].parent])

MailSound(ml) ==
  /\ Len(ml) \in 1 .. MaxMail
  /\ ml \in Seq(Messages)
  /\ \A k \in 1 .. Len(ml) : MessageSound(ml, k)

\* A message that is ready to be taken by Gmail.
WellMade(m, ml) ==
  /\ m \in Messages
  /\ buildMimeMessage(m) /\ m.broken = {}
  /\ m.parent \in 0 .. Len(ml)
  /\ m.parent = 0 => m.references = <<>> /\ m.thread = 0 /\ m.inReplyTo = 0
  /\ m.parent # 0 => Answers(m, ml[m.parent])

Calls ==
  [pc : {"idle", "get", "send", "create", "sendDraft", "done", "threw"},
   tool : {"none", "send", "reply", "draft", "sendDraft"}, at : Nat, all : BOOLEAN, out : Messages]

CallSound(r, ml) ==
  /\ r \in Calls
  /\ r.at \in 0 .. Len(ml)
  /\ r.pc \in {"get", "sendDraft"} => r.at # 0
  /\ r.pc = "get" => r.tool \in {"reply", "draft"} /\ r.out.broken \subseteq {"Subject"}
  /\ r.pc = "send" => r.tool \in {"send", "reply"}
  /\ r.pc = "create" => r.tool = "draft"
  /\ r.pc = "sendDraft" => r.tool = "sendDraft"
  /\ r.pc \in {"send", "create"} => WellMade(r.out, ml)

CallsSound(rq, ml) == DOMAIN rq = Requests /\ \A q \in Requests : CallSound(rq[q], ml)

\* The tool that may send the message x.
toolFor(x) == IF x.madeBy = "draft" THEN "sendDraft" ELSE x.madeBy

\* Who sent a message has ended, is a call of the tool for it, and has sent no other.
SentSound(rq, ml) ==
  \A k \in 1 .. Len(ml) :
    /\ ml[k].place = "sent" => ml[k].sentBy # Nobody
    /\ ml[k].sentBy # Nobody =>
         /\ rq[ml[k].sentBy].pc \in {"done", "threw"}
         /\ rq[ml[k].sentBy].tool = toolFor(ml[k])
         /\ \A j \in 1 .. Len(ml) : ml[j].sentBy = ml[k].sentBy => j = k

ConversationSound == MailSound(mail) /\ CallsSound(req, mail) /\ SentSound(req, mail)

LEMMA ReferencesGrow ==
  ASSUME NEW p \in Messages, NEW j \in 1 .. MaxMail, p.id \in {0, j}, p.references \in Chains(j),
         NEW k \in 1 .. MaxMail, j < k
  PROVE  /\ referencesAfter(p) \in Chains(k) /\ referencesAfter(p) \in Seq(Nat)
         /\ referencesAfter(p) = p.references \o (IF p.id = 0 THEN <<>> ELSE <<p.id>>)
<1>1. MaxMail \in Nat /\ j \in Nat /\ k \in Nat /\ j \in ids \ {0} /\ j # MaxMail + 1
  BY ComposeConfig DEF ids
<1>2. PICK s, t : s = p.references /\ t = referencesAfter(p)
  OBVIOUS
<1>3. /\ s \in Seq(ids \ {0})
      /\ \A i \in 1 .. Len(s) : s[i] < j \/ s[i] = MaxMail + 1
      /\ \A i, l \in 1 .. Len(s) : s[i] = s[l] => i = l
  BY <1>2 DEF Chains
<1>4. Len(s) \in Nat /\ \A i \in 1 .. Len(s) : s[i] \in Nat /\ s[i] \in ids \ {0}
  <2>1. Len(s) \in Nat /\ \A i \in 1 .. Len(s) : s[i] \in ids \ {0}
    BY <1>3, LenProperties, ElementOfSeq
  <2>2. ids \subseteq Nat
    BY <1>1 DEF ids
  <2> QED BY <2>1, <2>2
<1>5. CASE p.id = 0
  <2>1. t = s
    BY <1>2, <1>5 DEF referencesAfter
  <2>2. \A i \in 1 .. Len(s) : s[i] < k \/ s[i] = MaxMail + 1
    BY <1>1, <1>3, <1>4
  <2>3. t \in Chains(k)
    BY <1>3, <2>1, <2>2 DEF Chains
  <2>4. s \o <<>> = s
    BY <1>3, ConcatEmptySeq
  <2>5. s \in Seq(Nat)
    BY <1>2 DEF Messages
  <2> QED BY <1>2, <1>5, <2>1, <2>3, <2>4, <2>5
<1>6. CASE p.id # 0
  <2>1. p.id = j
    BY <1>6
  <2>2. t = Append(s, j)
    BY <1>2, <2>1, <1>6 DEF referencesAfter
  <2>3. /\ t \in Seq(ids \ {0}) /\ Len(t) = Len(s) + 1 /\ t[Len(s) + 1] = j
        /\ \A i \in 1 .. Len(s) : t[i] = s[i]
    BY <1>1, <1>3, <2>2, AppendProperties
  <2>4. PICK n \in Nat : n = Len(s)
    BY <1>4
  <2>5. Len(t) = n + 1 /\ t[n + 1] = j /\ \A i \in 1 .. n : t[i] = s[i] /\ s[i] # j
    <3>1. \A i \in 1 .. n : s[i] # j
      BY <1>1, <1>3, <1>4, <2>4
    <3> QED BY <2>3, <2>4, <3>1
  <2>6. ASSUME NEW i \in 1 .. Len(t) PROVE t[i] < k \/ t[i] = MaxMail + 1
    <3>1. CASE i = n + 1
      BY <1>1, <2>5, <3>1
    <3>2. CASE i # n + 1
      <4>1. i \in 1 .. n
        BY <2>5, <3>2
      <4>2. t[i] = s[i] /\ s[i] \in Nat /\ (s[i] < j \/ s[i] = MaxMail + 1)
        BY <1>3, <1>4, <2>4, <2>5, <4>1
      <4> QED BY <1>1, <4>2
    <3> QED BY <3>1, <3>2
  <2>7. ASSUME NEW i \in 1 .. Len(t), NEW l \in 1 .. Len(t), t[i] = t[l] PROVE i = l
    <3>1. (i = n + 1 \/ i \in 1 .. n) /\ (l = n + 1 \/ l \in 1 .. n)
      BY <2>5
    <3> QED BY <1>3, <2>4, <2>5, <2>7, <3>1
  <2>8. t \in Chains(k)
    BY <2>3, <2>6, <2>7 DEF Chains
  <2>9. t = s \o <<j>>
    BY <1>1, <1>3, <2>2, AppendIsConcat
  <2>10. t \in Seq(Nat)
    <3>1. s \in Seq(Nat)
      BY <1>2 DEF Messages
    <3> QED BY <1>1, <2>2, <3>1, AppendProperties
  <2> QED BY <1>2, <2>1, <1>6, <2>8, <2>9, <2>10
<1> QED BY <1>5, <1>6

LEMMA ChainsGrow ==
  ASSUME NEW k \in 1 .. MaxMail
  PROVE  <<>> \in Chains(k)
<1>1. <<>> \in Seq(ids \ {0}) /\ Len(<<>>) = 0
  BY EmptySeq
<1>2. PICK s : s = <<>>
  OBVIOUS
<1>3. s \in Seq(ids \ {0}) /\ Len(s) = 0
  BY <1>1, <1>2
<1>4. s \in Chains(k)
  BY <1>3 DEF Chains
<1> QED BY <1>2, <1>4

\* y is x but for its place, and who has sent it; it has not become a draft.
SameText(x, y) ==
  /\ x \in Messages /\ y \in Messages
  /\ x.from = y.from /\ x.replyTo = y.replyTo /\ x.to = y.to /\ x.cc = y.cc
  /\ x.subject = y.subject /\ x.broken = y.broken
  /\ x.id = y.id /\ x.thread = y.thread /\ x.inReplyTo = y.inReplyTo
  /\ x.references = y.references
  /\ x.parent = y.parent /\ x.all = y.all /\ x.own = y.own /\ x.madeBy = y.madeBy
  /\ y.place = "draft" => x.place = "draft"

LEMMA SameAnswers ==
  ASSUME NEW x, NEW y, SameText(x, y), NEW p, NEW o, SameText(p, o), Answers(x, p)
  PROVE  Answers(y, o)
<1>1. sender(p) = sender(o) /\ readers(p) = readers(o) /\ referencesAfter(p) = referencesAfter(o)
      /\ subjectAfter(p) = subjectAfter(o) /\ (plainLines(o) => plainLines(p))
  BY DEF SameText, sender, readers, referencesAfter, subjectAfter, re, plainLines
<1>2. others(p, x.all) = others(o, y.all)
  BY <1>1 DEF SameText, others
<1>3. Addressed(y, o)
  BY <1>1, <1>2 DEF Answers, Addressed, SameText
<1> QED BY <1>1, <1>3 DEF Answers, SameText

\* No message changes but for its place and who has sent it.
Grows(ml, ml2) ==
  /\ Len(ml2) \in Nat /\ Len(ml) <= Len(ml2)
  /\ \A k \in 1 .. Len(ml) : SameText(ml[k], ml2[k])

LEMMA SoundAfter ==
  ASSUME NEW ml, MailSound(ml), NEW ml2, Grows(ml, ml2), NEW k \in 1 .. Len(ml)
  PROVE  MessageSound(ml2, k)
<1>1. MessageSound(ml, k) /\ SameText(ml[k], ml2[k]) /\ Len(ml) \in Nat
  BY DEF MailSound, Grows
<1>2. PICK x, y : x = ml[k] /\ y = ml2[k]
  OBVIOUS
<1>3. SameText(x, y)
  BY <1>1, <1>2
<1>4. ASSUME y.parent # 0 PROVE Answers(y, ml2[y.parent])
  <2>1. PICK j : j = x.parent
    OBVIOUS
  <2>2. j = y.parent /\ j # 0 /\ j \in 0 .. k - 1 /\ Answers(x, ml[j])
    BY <1>1, <1>2, <1>3, <1>4, <2>1 DEF SameText, MessageSound
  <2>3. j \in 1 .. Len(ml)
    BY <1>1, <2>2
  <2>4. SameText(ml[j], ml2[j])
    BY <2>3 DEF Grows
  <2>5. Answers(y, ml2[j])
    BY <1>3, <2>2, <2>4, SameAnswers
  <2> QED BY <2>2, <2>5
<1>5. /\ x \in Messages /\ x.id \in {0, k} /\ x.thread \in 1 .. k
      /\ x.references \in Chains(k) /\ x.parent \in 0 .. k - 1
      /\ x.place = "draft" => x.madeBy = "draft"
      /\ k # 1 => buildMimeMessage(x) /\ x.broken = {}
      /\ x.parent = 0 => x.inReplyTo = 0
  BY <1>1, <1>2, Zenon DEF MessageSound
<1>6. k # 1 => buildMimeMessage(y)
  BY <1>3, <1>5 DEF SameText, buildMimeMessage
<1>7. /\ y \in Messages /\ y.id \in {0, k} /\ y.thread \in 1 .. k
      /\ y.references \in Chains(k) /\ y.parent \in 0 .. k - 1
      /\ y.place = "draft" => y.madeBy = "draft"
      /\ k # 1 => y.broken = {}
      /\ y.parent = 0 => y.inReplyTo = 0
  BY <1>3, <1>5 DEF SameText
<1> QED BY <1>2, <1>4, <1>6, <1>7, Zenon DEF MessageSound

LEMMA CallsAfter ==
  ASSUME NEW ml, NEW ml2, Len(ml) \in Nat, Grows(ml, ml2), NEW r, CallSound(r, ml)
  PROVE  CallSound(r, ml2)
<1>1. r.at \in 0 .. Len(ml2)
  BY DEF CallSound, Grows
<1>2. ASSUME r.pc \in {"send", "create"} PROVE WellMade(r.out, ml2)
  <2>1. PICK m : m = r.out
    OBVIOUS
  <2>2. WellMade(m, ml)
    BY <1>2, <2>1 DEF CallSound
  <2>3. m.parent \in 0 .. Len(ml2)
    BY <2>2 DEF WellMade, Grows
  <2>4. ASSUME m.parent # 0 PROVE Answers(m, ml2[m.parent])
    <3>1. PICK j : j = m.parent
      OBVIOUS
    <3>2. j \in 1 .. Len(ml) /\ Answers(m, ml[j])
      BY <2>2, <2>4, <3>1 DEF WellMade
    <3>3. SameText(ml[j], ml2[j]) /\ SameText(m, m)
      BY <2>2, <3>2 DEF Grows, SameText, WellMade
    <3>4. Answers(m, ml2[j])
      BY <3>2, <3>3, SameAnswers
    <3> QED BY <3>1, <3>4
  <2> QED BY <2>1, <2>2, <2>3, <2>4 DEF WellMade
<1> QED BY <1>1, <1>2 DEF CallSound

\* ml2 is ml and the message n, as its k-th.
Longer(ml, ml2, n, k) ==
  /\ MailSound(ml2) /\ Grows(ml, ml2)
  /\ k = Len(ml) + 1 /\ Len(ml2) = k /\ ml2[k] = n /\ \A i \in 1 .. Len(ml) : ml2[i] = ml[i]

Fits(ml, n, k) ==
  /\ n \in Messages
  /\ n.id = k /\ n.thread \in 1 .. k
  /\ n.references \in Chains(k) /\ n.parent \in 0 .. k - 1
  /\ n.place = "draft" => n.madeBy = "draft"
  /\ buildMimeMessage(n) /\ n.broken = {}
  /\ n.parent = 0 => n.inReplyTo = 0
  /\ n.parent # 0 => Answers(n, ml[n.parent])

\* Adding a message that fits leaves the conversation sound.
LEMMA TakenFits ==
  ASSUME NEW ml, MailSound(ml), Len(ml) < MaxMail, NEW k, k = Len(ml) + 1, NEW n, Fits(ml, n, k)
  PROVE  Longer(ml, Append(ml, n), n, k)
<1>1. Len(ml) \in Nat /\ ml \in Seq(Messages) /\ MaxMail \in Nat /\ k \in Nat /\ k # 1
  BY ComposeConfig DEF MailSound
<1>2. PICK ml2 : ml2 = Append(ml, n)
  OBVIOUS
<1>3. /\ ml2 \in Seq(Messages) /\ Len(ml2) = k /\ ml2[k] = n
      /\ \A i \in 1 .. Len(ml) : ml2[i] = ml[i]
  BY <1>1, <1>2, AppendProperties DEF Fits
<1>4. \A i \in 1 .. Len(ml) : ml[i] \in Messages
  BY DEF MailSound, MessageSound
<1>5. Grows(ml, ml2)
  BY <1>1, <1>3, <1>4 DEF Grows, SameText
<1>6. ASSUME NEW i \in 1 .. Len(ml2) PROVE MessageSound(ml2, i)
  <2>1. CASE i \in 1 .. Len(ml)
    BY <1>5, <2>1, SoundAfter
  <2>2. CASE i \notin 1 .. Len(ml)
    <3>1. i = k
      BY <1>1, <1>3, <2>2
    <3>2. n.parent # 0 => n.parent \in 1 .. Len(ml)
      BY <1>1 DEF Fits
    <3>3. n.parent # 0 => Answers(n, ml2[n.parent])
      BY <1>3, <3>2 DEF Fits
    <3>4. MessageSound(ml2, k)
      BY <1>3, <3>3 DEF Fits, MessageSound
    <3> QED BY <3>1, <3>4
  <2> QED BY <2>1, <2>2
<1>7. MailSound(ml2)
  <2>1. Len(ml2) \in 1 .. MaxMail
    BY <1>1, <1>3
  <2> QED BY <1>3, <1>6, <2>1 DEF MailSound
<1> QED BY <1>2, <1>3, <1>5, <1>7 DEF Longer

\* At most the message j is newly sent, by the call q, which has become r.
NewlySent(ml, ml2, j, q, r) ==
  \A k \in 1 .. Len(ml2) :
    \/ /\ k \in 1 .. Len(ml) /\ ml2[k].sentBy = ml[k].sentBy /\ toolFor(ml2[k]) = toolFor(ml[k])
       /\ ml2[k].place = "sent" => ml[k].place = "sent"
    \/ ml2[k].sentBy = Nobody /\ ml2[k].place # "sent"
    \/ k = j /\ ml2[k].sentBy = q /\ r.pc \in {"done", "threw"} /\ r.tool = toolFor(ml2[k])

LEMMA SoundStep ==
  ASSUME NEW ml, MailSound(ml), NEW rq, CallsSound(rq, ml), SentSound(rq, ml),
         NEW q \in Requests, rq[q].pc \notin {"done", "threw"},
         NEW ml2, MailSound(ml2), Grows(ml, ml2), NEW r, CallSound(r, ml2),
         NEW rq2, rq2 = [rq EXCEPT ![q] = r], NEW j, NewlySent(ml, ml2, j, q, r)
  PROVE  CallsSound(rq2, ml2) /\ SentSound(rq2, ml2)
<1>1. Len(ml) \in Nat /\ Len(ml2) \in Nat /\ Len(ml) <= Len(ml2)
  BY DEF MailSound, Grows
<1>2. DOMAIN rq = Requests /\ \A b \in Requests : rq2[b] = IF b = q THEN r ELSE rq[b]
  BY DEF CallsSound
<1>3. ASSUME NEW b \in Requests PROVE CallSound(rq2[b], ml2)
  BY <1>1, <1>2, CallsAfter DEF CallsSound
<1>4. CallsSound(rq2, ml2)
  BY <1>2, <1>3 DEF CallsSound
<1>5. q # Nobody
  BY ComposeConfig
<1>6. ASSUME NEW k \in 1 .. Len(ml), ml[k].sentBy # Nobody
      PROVE  ml[k].sentBy \in Requests /\ ml[k].sentBy # q
  <2>1. ml[k] \in Messages
    BY DEF MailSound, MessageSound
  <2>2. ml[k].sentBy \in Requests
    BY <1>6, <2>1 DEF Messages
  <2>3. rq[ml[k].sentBy].pc \in {"done", "threw"}
    BY <1>6 DEF SentSound
  <2> QED BY <2>2, <2>3
<1>7. ASSUME NEW k \in 1 .. Len(ml2), NEW b, b = ml2[k].sentBy, b # Nobody
      PROVE  /\ rq2[b].pc \in {"done", "threw"} /\ rq2[b].tool = toolFor(ml2[k])
             /\ \A i \in 1 .. Len(ml2) : ml2[i].sentBy = b => i = k
  <2>1. CASE b = q
    <3>1. \A i \in 1 .. Len(ml2) : ml2[i].sentBy = q =>
             i = j /\ r.pc \in {"done", "threw"} /\ r.tool = toolFor(ml2[i])
      BY <1>5, <1>6 DEF NewlySent
    <3>2. rq2[q] = r
      BY <1>2
    <3> QED BY <1>7, <2>1, <3>1, <3>2
  <2>2. CASE b # q
    <3>1. \A i \in 1 .. Len(ml2) : ml2[i].sentBy = b =>
             i \in 1 .. Len(ml) /\ ml[i].sentBy = b /\ toolFor(ml2[i]) = toolFor(ml[i])
      BY <1>7, <2>2 DEF NewlySent
    <3>2. k \in 1 .. Len(ml) /\ ml[k].sentBy = b /\ toolFor(ml2[k]) = toolFor(ml[k])
      BY <1>7, <3>1
    <3>3. b \in Requests /\ rq2[b] = rq[b]
      BY <1>2, <1>6, <1>7, <2>2, <3>2
    <3>4. /\ rq[b].pc \in {"done", "threw"} /\ rq[b].tool = toolFor(ml[k])
          /\ \A i \in 1 .. Len(ml) : ml[i].sentBy = b => i = k
      BY <1>7, <3>2 DEF SentSound
    <3> QED BY <3>1, <3>2, <3>3, <3>4
  <2> QED BY <2>1, <2>2
<1>8. ASSUME NEW k \in 1 .. Len(ml2), ml2[k].place = "sent" PROVE ml2[k].sentBy # Nobody
  BY <1>5, <1>8 DEF NewlySent, SentSound
<1>9. SentSound(rq2, ml2)
  BY <1>7, <1>8 DEF SentSound
<1> QED BY <1>4, <1>9

LEMMA NothingSent ==
  ASSUME NEW ml, MailSound(ml), NEW q, NEW r
  PROVE  Grows(ml, ml) /\ NewlySent(ml, ml, 1, q, r)
<1>1. \A k \in 1 .. Len(ml) : ml[k] \in Messages
  BY DEF MailSound, MessageSound
<1> QED BY <1>1 DEF Grows, SameText, NewlySent, MailSound

\* How Gmail takes the message m.
taken(m, ml, place, tool, by) ==
  [m EXCEPT !.place = place, !.id = Len(ml) + 1,
            !.thread = IF @ = 0 THEN Len(ml) + 1 ELSE @,
            !.to = notBlank(@), !.cc = notBlank(@), !.madeBy = tool, !.sentBy = by]

\* Gmail takes a message: the conversation is one longer, and the message as sound.
LEMMA TakenIsSound ==
  ASSUME NEW ml, MailSound(ml), Len(ml) < MaxMail, NEW m, WellMade(m, ml),
         NEW place \in {"sent", "draft"}, NEW tool \in {"send", "reply", "draft", "sendDraft"},
         place = "draft" => tool = "draft",
         NEW by \in Requests \cup {Nobody}, NEW n, n = taken(m, ml, place, tool, by)
  PROVE  /\ Longer(ml, Append(ml, n), n, Len(ml) + 1)
         /\ n.place = place /\ n.madeBy = tool /\ n.sentBy = by
<1>1. PICK k \in Nat : k = Len(ml) + 1
  BY DEF MailSound
<1>2. k \in 1 .. MaxMail /\ k # 1 /\ k - 1 = Len(ml) /\ MaxMail \in Nat
  BY <1>1, ComposeConfig DEF MailSound
<1>3. m \in Messages /\ m.to \in Strings /\ m.cc \in Strings /\ m.thread \in Nat
  BY DEF WellMade, Messages
<1>4. PICK to, cc, th : to = notBlank(m.to) /\ cc = notBlank(m.cc) /\ th = IF m.thread = 0 THEN k ELSE m.thread
  OBVIOUS
<1>5. /\ to \in Strings /\ cc \in Strings
      /\ ToSet(to) = ToSet(m.to) \ {<<>>} /\ ToSet(cc) = ToSet(m.cc) \ {<<>>}
  BY <1>3, <1>4, NotBlankIs
<1>6. th \in Nat
  BY <1>3, <1>4
<1>7. n = [m EXCEPT !.place = place, !.id = k, !.thread = th, !.to = to, !.cc = cc,
                    !.madeBy = tool, !.sentBy = by]
  BY <1>1, <1>3, <1>4 DEF taken, Messages
<1>8. n \in Messages
  <2>1. place \in {"received", "draft", "sent", "gone"}
    OBVIOUS
  <2>2. [m EXCEPT !.place = place, !.id = k, !.thread = th, !.to = to, !.cc = cc,
                  !.madeBy = tool, !.sentBy = by] \in Messages
    BY <1>3, <1>5, <1>6, <2>1 DEF Messages
  <2> QED BY <1>7, <2>2, Zenon
<1>9. /\ n.to = to /\ n.cc = cc /\ n.id = k /\ n.thread = th
      /\ n.place = place /\ n.madeBy = tool /\ n.sentBy = by
      /\ n.references = m.references /\ n.inReplyTo = m.inReplyTo /\ n.parent = m.parent
      /\ n.subject = m.subject /\ n.broken = m.broken /\ n.all = m.all /\ n.own = m.own
  BY <1>3, <1>7 DEF Messages
<1>10. buildMimeMessage(n) /\ n.broken = {}
  BY <1>5, <1>9 DEF WellMade, buildMimeMessage
<1>11. m.parent \in 0 .. k - 1
  BY <1>1 DEF WellMade
<1>12. /\ n.thread \in 1 .. k /\ n.references \in Chains(k)
       /\ n.parent = 0 => n.inReplyTo = 0
       /\ n.parent # 0 => Answers(n, ml[n.parent])
  <2>1. CASE m.parent = 0
    <3>1. m.references = <<>> /\ m.thread = 0 /\ m.inReplyTo = 0
      BY <2>1 DEF WellMade
    <3>2. th \in 1 .. k
      BY <1>2, <1>4, <3>1
    <3>3. m.references \in Chains(k)
      BY <1>2, <3>1, ChainsGrow
    <3> QED BY <1>9, <2>1, <3>1, <3>2, <3>3
  <2>2. CASE m.parent # 0
    <3>1. PICK j, p : j = m.parent /\ p = ml[j]
      OBVIOUS
    <3>2. j \in 1 .. Len(ml) /\ j \in 1 .. MaxMail /\ j < k /\ j \in 1 .. k
      BY <1>1, <1>2, <1>11, <2>2, <3>1
    <3>3. Answers(m, p)
      BY <2>2, <3>1 DEF WellMade
    <3>4. /\ p \in Messages /\ p.id \in {0, j}
          /\ p.thread \in 1 .. j /\ p.references \in Chains(j)
      BY <3>1, <3>2 DEF MailSound, MessageSound
    <3>5. m.references \in Chains(k)
      BY <1>2, <3>2, <3>3, <3>4, ReferencesGrow DEF Answers
    <3>6. th = p.thread /\ th \in 1 .. k
      BY <1>4, <3>2, <3>3, <3>4 DEF Answers
    <3>8. ASSUME plainLines(p)
          PROVE  /\ "to" \notin n.own => ToSet(n.to) = ToSet(sender(p))
                 /\ "cc" \notin n.own => ToSet(n.cc) = others(p, n.all)
      <4>1. <<>> \notin ToSet(sender(p)) /\ <<>> \notin readers(p)
        BY <3>8 DEF plainLines, sender, readers, isPlain
      <4>2. <<>> \notin others(p, m.all)
        BY <4>1 DEF others
      <4>3. /\ "to" \notin m.own => ToSet(m.to) = ToSet(sender(p))
            /\ "cc" \notin m.own => ToSet(m.cc) = others(p, m.all)
        BY <3>3, <3>8 DEF Answers, Addressed
      <4>4. "to" \notin m.own => ToSet(to) = ToSet(sender(p))
        BY <1>5, <4>1, <4>3
      <4>5. "cc" \notin m.own => ToSet(cc) = others(p, m.all)
        BY <1>5, <4>2, <4>3
      <4> QED BY <1>9, <4>4, <4>5
    <3>9. Answers(n, p)
      BY <1>9, <3>3, <3>6, <3>8 DEF Answers, Addressed
    <3>10. Answers(n, ml[n.parent])
      BY <1>9, <3>1, <3>9
    <3> QED BY <1>9, <2>2, <3>5, <3>6, <3>10
  <2> QED BY <2>1, <2>2
<1>13. /\ n.id = k /\ n.parent \in 0 .. k - 1
       /\ n.place = place /\ n.madeBy = tool /\ n.sentBy = by
  BY <1>9, <1>11
<1>14. Fits(ml, n, k)
  BY <1>8, <1>10, <1>12, <1>13 DEF Fits
<1> QED BY <1>1, <1>13, <1>14, TakenFits

-----------------------------------------------------------------------------
(* The tools. *)

\* What callers give is what a message may be made of.
LEMMA GivenIs ==
  ASSUME NEW to \in Given, NEW cc \in Given, NEW s \in Subjects
  PROVE  LET m == Written(to, cc, s) IN
         /\ m \in Messages
         /\ m.parent = 0 /\ m.references = <<>> /\ m.thread = 0 /\ m.inReplyTo = 0
         /\ m.broken \subseteq {"Subject"}
<1>1. PICK m : m = Written(to, cc, s)
  OBVIOUS
<1>2. PICK su, br : su = s.subject /\ br = s.broken
  OBVIOUS
<1>3. su \in {t \in Seq(Nat) : Len(t) <= 1} /\ br \subseteq {"Subject"}
  BY <1>2, ComposeConfig DEF isSubject
<1>4. to \in Strings /\ cc \in Strings
  BY ComposeConfig DEF Strings
<1>5. m = [NewMessage EXCEPT !.to = to, !.cc = cc, !.subject = su, !.broken = br]
  BY <1>1, <1>2, Zenon DEF Written
<1>6. /\ NewMessage \in Messages /\ NewMessage.parent = 0 /\ NewMessage.references = <<>>
      /\ NewMessage.thread = 0 /\ NewMessage.inReplyTo = 0
  BY NewMessageIs
<1>7. [NewMessage EXCEPT !.to = to, !.cc = cc, !.subject = su, !.broken = br] \in Messages
  BY <1>3, <1>4, <1>6 DEF Messages
<1>8. /\ m \in Messages
      /\ m.parent = 0 /\ m.references = <<>> /\ m.thread = 0 /\ m.inReplyTo = 0
      /\ m.broken \subseteq {"Subject"}
  BY <1>3, <1>5, <1>6, <1>7 DEF Messages
<1> QED BY <1>1, <1>8

LEMMA IdleIs ==
  ASSUME NEW ml, Len(ml) \in Nat
  PROVE  CallSound(Idle, ml) /\ Idle \in Calls /\ Idle.out = NewMessage /\ Idle.pc = "idle" /\ Idle.at = 0
<1>1. Idle \in Calls
  BY NewMessageIs DEF Idle, Calls
<1> QED BY <1>1 DEF CallSound, Idle

LEMMA OverIs ==
  ASSUME NEW ml, Len(ml) \in Nat, NEW r \in Calls, NEW pc \in {"done", "threw"}
  PROVE  CallSound(over(r, pc), ml) /\ over(r, pc).pc = pc /\ over(r, pc).tool = r.tool
<1>1. PICK o : o = over(r, pc)
  OBVIOUS
<1>2. Idle \in Calls /\ Idle.at = 0 /\ r.tool \in {"none", "send", "reply", "draft", "sendDraft"}
  BY IdleIs DEF Calls
<1>3. o = [Idle EXCEPT !.tool = r.tool, !.pc = pc]
  BY <1>1 DEF over
<1>4. o \in Calls /\ o.pc = pc /\ o.tool = r.tool /\ o.at = 0
  BY <1>2, <1>3 DEF Calls
<1>5. CallSound(o, ml)
  BY <1>4 DEF CallSound
<1> QED BY <1>1, <1>4, <1>5

LEMMA OutgoingIs ==
  ASSUME NEW ml, Len(ml) \in Nat, NEW r \in Calls, r.at \in 0 .. Len(ml), NEW m \in Messages,
         NEW pc, \/ pc = "send" /\ r.tool \in {"send", "reply"}
                 \/ pc = "create" /\ r.tool = "draft",
         buildMimeMessage(m) => WellMade(m, ml)
  PROVE  CallSound(Outgoing(r, m, pc), ml)
<1>1. CASE buildMimeMessage(m)
  <2>1. PICK o : o = Outgoing(r, m, pc)
    OBVIOUS
  <2>2. o = [r EXCEPT !.out = m, !.pc = pc]
    BY <1>1, <2>1 DEF Outgoing
  <2>3. o \in Calls /\ o.out = m /\ o.pc = pc /\ o.at = r.at /\ o.tool = r.tool
    BY <2>2 DEF Calls
  <2>4. WellMade(o.out, ml)
    BY <1>1, <2>3
  <2>5. CallSound(o, ml)
    BY <2>3, <2>4 DEF CallSound
  <2> QED BY <2>1, <2>5
<1>2. CASE ~buildMimeMessage(m)
  BY <1>2, OverIs DEF Outgoing
<1> QED BY <1>1, <1>2

\* What has no line break in a header is all there is.
LEMMA UnbrokenIs ==
  ASSUME NEW m, buildMimeMessage(m), m.broken \subseteq {"Subject", "In-Reply-To", "References"}
  PROVE  m.broken = {}
BY DEF buildMimeMessage

\* A message that is no reply.
LEMMA FreshIs ==
  ASSUME NEW ml, Len(ml) \in Nat, NEW to \in Given, NEW cc \in Given, NEW s \in Subjects, NEW m,
         m = [Written(to, cc, s) EXCEPT !.own = {"to", "cc", "subject"}]
  PROVE  m \in Messages /\ (buildMimeMessage(m) => WellMade(m, ml))
<1>1. PICK n : n = Written(to, cc, s)
  OBVIOUS
<1>2. /\ n \in Messages /\ n.broken \subseteq {"Subject"}
      /\ n.parent = 0 /\ n.references = <<>> /\ n.thread = 0 /\ n.inReplyTo = 0
  BY <1>1, GivenIs
<1>3. m = [n EXCEPT !.own = {"to", "cc", "subject"}]
  BY <1>1, Zenon
<1>4. m \in Messages /\ m.broken \subseteq {"Subject"}
      /\ m.parent = 0 /\ m.references = <<>> /\ m.thread = 0 /\ m.inReplyTo = 0
  BY <1>2, <1>3 DEF Messages
<1>5. buildMimeMessage(m) => m.broken = {}
  BY <1>4, UnbrokenIs
<1> QED BY <1>4, <1>5 DEF WellMade

\* What a reply to the message ml[k] is built to be: what the caller gave stands.
LEMMA ReplyIs ==
  ASSUME NEW ml, MailSound(ml), NEW k \in 1 .. Len(ml), NEW replyAll \in BOOLEAN,
         NEW given \in Messages, given.broken \subseteq {"Subject"}, NEW m,
         m = override([buildReplyContext(ml[k], replyAll) EXCEPT !.parent = k, !.all = replyAll], given)
  PROVE  m \in Messages /\ (buildMimeMessage(m) => WellMade(m, ml))
<1>1. PICK p, c, d : /\ p = ml[k] /\ c = buildReplyContext(p, replyAll)
                     /\ d = [c EXCEPT !.parent = k, !.all = replyAll]
  OBVIOUS
<1>2. p \in Messages /\ p.id \in {0, k} /\ p.references \in Chains(k)
  BY <1>1 DEF MailSound, MessageSound
<1>3. Len(ml) \in 1 .. MaxMail /\ MaxMail \in Nat /\ k \in 1 .. MaxMail /\ k \in Nat
  BY ComposeConfig DEF MailSound
<1>4. referencesAfter(p) \in Seq(Nat)
  <2>1. PICK s : s = p.references
    OBVIOUS
  <2>2. s \in Seq(Nat) /\ p.id \in Nat
    BY <1>2, <2>1 DEF Messages
  <2>3. Append(s, p.id) \in Seq(Nat)
    BY <2>2, AppendProperties
  <2> QED BY <2>1, <2>2, <2>3 DEF referencesAfter
<1>5. /\ c \in Messages
      /\ plainLines(p) => c.to = sender(p) /\ ToSet(c.cc) = others(p, replyAll)
      /\ c.subject = subjectAfter(p) /\ c.thread = p.thread /\ c.inReplyTo = p.id
      /\ c.references = referencesAfter(p) /\ c.broken = brokenAfter(p)
  BY <1>1, <1>2, <1>4, ReplyContextIs
<1>6. d \in Messages
  <2>1. [c EXCEPT !.parent = k, !.all = replyAll] \in Messages
    BY <1>3, <1>5 DEF Messages
  <2> QED BY <1>1, <2>1, Zenon
<1>7. /\ d.to = c.to /\ d.cc = c.cc /\ d.subject = c.subject /\ d.thread = c.thread
      /\ d.inReplyTo = c.inReplyTo /\ d.references = c.references /\ d.broken = c.broken
      /\ d.parent = k /\ d.all = replyAll
  BY <1>1, <1>5 DEF Messages
<1>8. PICK to, cc, su, br, own :
        /\ to = IF given.to # <<>> THEN given.to ELSE d.to
        /\ cc = IF given.cc # <<>> THEN given.cc ELSE d.cc
        /\ su = IF given.subject # <<>> THEN given.subject ELSE d.subject
        /\ br = IF given.subject # <<>> THEN (d.broken \ {"Subject"}) \cup given.broken ELSE d.broken
        /\ own = {f \in {"to", "cc", "subject"} : given[f] # <<>>}
  OBVIOUS
<1>9. /\ to \in Strings /\ cc \in Strings /\ su \in {s \in Seq(Nat) : Len(s) <= 1}
      /\ own \in SUBSET {"to", "cc", "subject"}
      /\ br \subseteq {"Subject", "In-Reply-To", "References"}
  <2>1. /\ given.to \in Strings /\ given.cc \in Strings
        /\ given.subject \in {s \in Seq(Nat) : Len(s) <= 1}
        /\ d.to \in Strings /\ d.cc \in Strings /\ d.subject \in {s \in Seq(Nat) : Len(s) <= 1}
    BY <1>6 DEF Messages
  <2>2. d.broken \subseteq {"Subject", "In-Reply-To", "References"}
    BY <1>5, <1>7 DEF brokenAfter
  <2>3. br \subseteq {"Subject", "In-Reply-To", "References"}
    BY <1>8, <2>2
  <2> QED BY <1>8, <2>1, <2>3
<1>10. m = [d EXCEPT !.to = to, !.cc = cc, !.subject = su, !.broken = br, !.own = own]
  BY <1>1, <1>6, <1>8 DEF override, Messages
<1>11. m \in Messages
  <2>1. [d EXCEPT !.to = to, !.cc = cc, !.subject = su, !.broken = br, !.own = own] \in Messages
    BY <1>6, <1>9 DEF Messages
  <2> QED BY <1>10, <2>1, Zenon
<1>12. /\ m.to = to /\ m.cc = cc /\ m.own = own /\ m.subject = su /\ m.broken = br
       /\ m.thread = d.thread /\ m.inReplyTo = d.inReplyTo
       /\ m.references = d.references /\ m.parent = d.parent /\ m.all = d.all
  BY <1>6, <1>10 DEF Messages
<1>13. /\ "to" \notin own => to = c.to
       /\ "cc" \notin own => cc = c.cc
       /\ "subject" \notin own => su = c.subject
  BY <1>7, <1>8
<1>14. Addressed(m, p)
  BY <1>5, <1>7, <1>12, <1>13 DEF Addressed
<1>15. Answers(m, p)
  BY <1>5, <1>7, <1>12, <1>13, <1>14 DEF Answers
<1>16. m.parent \in 0 .. Len(ml) /\ m.parent # 0 /\ ml[m.parent] = p
  BY <1>1, <1>3, <1>7, <1>12
<1>17. buildMimeMessage(m) => m.broken = {}
  BY <1>9, <1>12, UnbrokenIs
<1> QED BY <1>11, <1>15, <1>16, <1>17 DEF WellMade

-----------------------------------------------------------------------------
(* The steps. *)

LEMMA InitSound == Init => ConversationSound
<1> SUFFICES ASSUME Init PROVE ConversationSound
  OBVIOUS
<1>1. PICK o \in Originals :
        mail = <<[NewMessage EXCEPT
          !.place = "received", !.from = o.from, !.replyTo = o.replyTo, !.to = o.to,
          !.cc = o.cc, !.subject = o.subject, !.id = o.id, !.thread = 1,
          !.references = o.references, !.broken = o.broken]>>
  BY DEF Init
<1>2. PICK m : m = [NewMessage EXCEPT
          !.place = "received", !.from = o.from, !.replyTo = o.replyTo, !.to = o.to,
          !.cc = o.cc, !.subject = o.subject, !.id = o.id, !.thread = 1,
          !.references = o.references, !.broken = o.broken]
  OBVIOUS
<1>3. mail = <<m>>
  BY <1>1, <1>2, Zenon
<1>4. MaxMail \in Nat \ {0} /\ MaxMail + 1 \in ids \ {0} /\ MaxMail + 1 \in Nat
  BY ComposeConfig DEF ids
<1>5. PICK from, replyTo, to, cc, su, id, rf, br :
        /\ from = o.from /\ replyTo = o.replyTo /\ to = o.to /\ cc = o.cc
        /\ su = o.subject /\ id = o.id /\ rf = o.references /\ br = o.broken
  OBVIOUS
<1>6. /\ from \in Strings /\ replyTo \in Strings /\ to \in Strings /\ cc \in Strings
      /\ su \in {s \in Seq(Nat) : Len(s) <= 1} /\ id \in {0, 1}
      /\ rf \in Seq({MaxMail + 1}) /\ Len(rf) <= 1
      /\ br \in SUBSET {"Subject", "Message-ID", "In-Reply-To", "References"}
  BY <1>5, ComposeConfig DEF Strings, isSubject
<1>7. Len(rf) \in Nat /\ \A i \in 1 .. Len(rf) : rf[i] = MaxMail + 1
  BY <1>6, LenProperties, ElementOfSeq
<1>8. rf \in Seq(Nat) /\ rf \in Seq(ids \ {0})
  BY <1>4, <1>6, SeqMonotonic
<1>9. rf \in Chains(1)
  <2>1. \A i, j \in 1 .. Len(rf) : i = j
    BY <1>6, <1>7
  <2> QED BY <1>7, <1>8, <2>1 DEF Chains
<1>10. NewMessage \in Messages
  BY NewMessageIs
<1>11. m = [NewMessage EXCEPT
          !.place = "received", !.from = from, !.replyTo = replyTo, !.to = to,
          !.cc = cc, !.subject = su, !.id = id, !.thread = 1, !.references = rf, !.broken = br]
  BY <1>2, <1>5, Zenon
<1>12. m \in Messages
  <2>1. PICK n : n = [NewMessage EXCEPT !.place = "received", !.from = from, !.replyTo = replyTo,
                                        !.to = to]
    OBVIOUS
  <2>2. n \in Messages
    BY <1>6, <1>10, <2>1 DEF Messages
  <2>3. PICK o2 : o2 = [n EXCEPT !.cc = cc, !.subject = su, !.id = id]
    OBVIOUS
  <2>4. o2 \in Messages
    <3>1. cc \in Strings /\ su \in {s \in Seq(Nat) : Len(s) <= 1} /\ id \in Nat
      BY <1>6
    <3> QED BY <2>2, <2>3, <3>1 DEF Messages
  <2>5. [o2 EXCEPT !.thread = 1, !.references = rf, !.broken = br] \in Messages
    BY <1>6, <1>8, <2>4 DEF Messages
  <2> QED BY <1>11, <2>1, <2>3, <2>5, Zenon
<1>13. /\ m.place = "received" /\ m.id = id /\ m.thread = 1 /\ m.references = rf
       /\ m.parent = 0 /\ m.inReplyTo = 0 /\ m.sentBy = Nobody
  BY <1>10, <1>11, NewMessageIs DEF Messages
<1>14. PICK ml : ml = <<m>>
  OBVIOUS
<1>15. ml \in Seq(Messages) /\ Len(ml) = 1 /\ ml[1] = m
  BY <1>12, <1>14
<1>16. MessageSound(ml, 1)
  BY <1>6, <1>9, <1>12, <1>13, <1>15 DEF MessageSound
<1>17. MailSound(ml)
  <2>1. \A k \in 1 .. Len(ml) : MessageSound(ml, k)
    BY <1>15, <1>16
  <2> QED BY <1>4, <1>15, <2>1 DEF MailSound
<1>18. \A q \in Requests : CallSound(Idle, ml)
  BY <1>15, IdleIs
<1>19. CallsSound(req, ml)
  <2>1. req = [q \in Requests |-> Idle]
    BY DEF Init
  <2> QED BY <1>18, <2>1 DEF CallsSound
<1>20. SentSound(req, ml)
  BY <1>13, <1>15 DEF SentSound
<1> QED BY <1>3, <1>14, <1>17, <1>19, <1>20 DEF ConversationSound

\* A call goes on, and no mail changes.
LEMMA CallGoesOn ==
  ASSUME ConversationSound, NEW q \in Requests, req[q].pc \notin {"done", "threw"},
         NEW r, CallSound(r, mail), req' = [req EXCEPT ![q] = r], UNCHANGED mail
  PROVE  ConversationSound'
<1>1. MailSound(mail) /\ CallsSound(req, mail) /\ SentSound(req, mail)
  BY DEF ConversationSound
<1>2. Grows(mail, mail) /\ NewlySent(mail, mail, 1, q, r)
  BY <1>1, NothingSent
<1>3. PICK rq2 : rq2 = req'
  OBVIOUS
<1>4. CallsSound(rq2, mail) /\ SentSound(rq2, mail)
  BY <1>1, <1>2, <1>3, SoundStep
<1> QED BY <1>1, <1>3, <1>4 DEF ConversationSound

LEMMA CallType ==
  ASSUME ConversationSound, NEW q \in Requests
  PROVE  /\ CallSound(req[q], mail) /\ req[q] \in Calls /\ req[q].out \in Messages
         /\ req[q].all \in BOOLEAN /\ Len(mail) \in Nat
BY DEF ConversationSound, CallsSound, CallSound, Calls, MailSound

LEMMA SendEmailSound ==
  ASSUME ConversationSound, NEW q \in Requests, NEW to \in Given, NEW cc \in Given,
         NEW s \in Subjects, sendEmail(q, to, cc, s)
  PROVE  ConversationSound'
<1>1. PICK r, m : /\ r = [Idle EXCEPT !.tool = "send"]
                  /\ m = [Written(to, cc, s) EXCEPT !.own = {"to", "cc", "subject"}]
  OBVIOUS
<1>2. Len(mail) \in Nat
  BY CallType
<1>3. r \in Calls /\ r.tool = "send" /\ r.at \in 0 .. Len(mail)
  BY <1>1, <1>2, IdleIs DEF Calls
<1>4. CallSound(Outgoing(r, m, "send"), mail)
  BY <1>1, <1>2, <1>3, FreshIs, OutgoingIs
<1>5. req[q].pc = "idle" /\ req' = [req EXCEPT ![q] = Outgoing(r, m, "send")] /\ UNCHANGED mail
  BY <1>1 DEF sendEmail
<1> QED BY <1>4, <1>5, CallGoesOn

LEMMA CreateDraftSound ==
  ASSUME ConversationSound, NEW q \in Requests, NEW to \in Given, NEW cc \in Given,
         NEW s \in Subjects, createDraft(q, to, cc, s)
  PROVE  ConversationSound'
<1>1. PICK r, m : /\ r = [Idle EXCEPT !.tool = "draft"]
                  /\ m = [Written(to, cc, s) EXCEPT !.own = {"to", "cc", "subject"}]
  OBVIOUS
<1>2. Len(mail) \in Nat
  BY CallType
<1>3. r \in Calls /\ r.tool = "draft" /\ r.at \in 0 .. Len(mail)
  BY <1>1, <1>2, IdleIs DEF Calls
<1>4. CallSound(Outgoing(r, m, "create"), mail) /\ CallSound(over(r, "threw"), mail)
  BY <1>1, <1>2, <1>3, FreshIs, OutgoingIs, OverIs
<1>5. PICK o : o = IF to = <<>> THEN over(r, "threw") ELSE Outgoing(r, m, "create")
  OBVIOUS
<1>6. req[q].pc = "idle" /\ req' = [req EXCEPT ![q] = o] /\ UNCHANGED mail
  BY <1>1, <1>5 DEF createDraft
<1> QED BY <1>4, <1>5, <1>6, CallGoesOn

LEMMA ReplyEmailSound ==
  ASSUME ConversationSound, NEW q \in Requests, NEW k \in DOMAIN mail, NEW replyAll \in BOOLEAN,
         replyEmail(q, k, replyAll)
  PROVE  ConversationSound'
<1>1. PICK r : r = [Idle EXCEPT !.tool = "reply", !.pc = "get", !.at = k, !.all = replyAll]
  OBVIOUS
<1>2. k \in 1 .. Len(mail) /\ k \in Nat
  BY LenProperties DEF ConversationSound, MailSound
<1>3. r \in Calls /\ r.tool = "reply" /\ r.pc = "get" /\ r.at = k /\ r.out = NewMessage
  BY <1>1, <1>2, CallType, IdleIs DEF Calls
<1>4. CallSound(r, mail)
  BY <1>2, <1>3, CallType, NewMessageIs DEF CallSound
<1>5. req[q].pc = "idle" /\ req' = [req EXCEPT ![q] = r] /\ UNCHANGED mail
  BY <1>1 DEF replyEmail
<1> QED BY <1>4, <1>5, CallGoesOn

LEMMA CreateReplyDraftSound ==
  ASSUME ConversationSound, NEW q \in Requests, NEW k \in DOMAIN mail, NEW replyAll \in BOOLEAN,
         NEW to \in Given, NEW cc \in Given, NEW s \in Subjects,
         createReplyDraft(q, k, replyAll, to, cc, s)
  PROVE  ConversationSound'
<1>1. PICK m : m = Written(to, cc, s)
  OBVIOUS
<1>2. m \in Messages /\ m.broken \subseteq {"Subject"}
  BY <1>1, GivenIs
<1>3. PICK r : r = [Idle EXCEPT !.tool = "draft", !.pc = "get", !.at = k, !.all = replyAll, !.out = m]
  OBVIOUS
<1>4. k \in 1 .. Len(mail) /\ k \in Nat
  BY LenProperties DEF ConversationSound, MailSound
<1>5. r \in Calls /\ r.tool = "draft" /\ r.pc = "get" /\ r.at = k /\ r.out = m
  BY <1>2, <1>3, <1>4, CallType, IdleIs DEF Calls
<1>6. CallSound(r, mail)
  BY <1>2, <1>4, <1>5, CallType DEF CallSound
<1>7. req[q].pc = "idle" /\ req' = [req EXCEPT ![q] = r] /\ UNCHANGED mail
  BY <1>1, <1>3 DEF createReplyDraft
<1> QED BY <1>6, <1>7, CallGoesOn

LEMMA SendDraftSound ==
  ASSUME ConversationSound, NEW q \in Requests, NEW k \in DOMAIN mail, sendDraft(q, k)
  PROVE  ConversationSound'
<1>1. PICK r : r = [Idle EXCEPT !.tool = "sendDraft", !.pc = "sendDraft", !.at = k]
  OBVIOUS
<1>2. k \in 1 .. Len(mail) /\ k \in Nat
  BY LenProperties DEF ConversationSound, MailSound
<1>3. r \in Calls /\ r.tool = "sendDraft" /\ r.pc = "sendDraft" /\ r.at = k
  BY <1>1, <1>2, CallType, IdleIs DEF Calls
<1>4. CallSound(r, mail)
  BY <1>2, <1>3, CallType DEF CallSound
<1>5. req[q].pc = "idle" /\ req' = [req EXCEPT ![q] = r] /\ UNCHANGED mail
  BY <1>1 DEF sendDraft
<1> QED BY <1>4, <1>5, CallGoesOn

LEMMA OriginalReceivedSound ==
  ASSUME ConversationSound, NEW q \in Requests, OriginalReceived(q)
  PROVE  ConversationSound'
<1>1. PICK r : r = req[q]
  OBVIOUS
<1>2. CallSound(r, mail) /\ r \in Calls /\ r.out \in Messages /\ r.all \in BOOLEAN /\ Len(mail) \in Nat
      /\ MailSound(mail)
  BY <1>1, CallType DEF ConversationSound
<1>3. r.pc = "get"
  BY <1>1 DEF OriginalReceived
<1>4. r.at \in 1 .. Len(mail) /\ r.tool \in {"reply", "draft"} /\ r.out.broken \subseteq {"Subject"}
  BY <1>2, <1>3 DEF CallSound
<1>5. PICK m, pc :
        /\ m = override([buildReplyContext(mail[r.at], r.all) EXCEPT !.parent = r.at, !.all = r.all], r.out)
        /\ pc = IF r.tool = "draft" THEN "create" ELSE "send"
  OBVIOUS
<1>6. m \in Messages /\ (buildMimeMessage(m) => WellMade(m, mail))
  BY <1>2, <1>4, <1>5, ReplyIs
<1>7. CallSound(Outgoing(r, m, pc), mail)
  <2>1. \/ pc = "send" /\ r.tool \in {"send", "reply"}
        \/ pc = "create" /\ r.tool = "draft"
    BY <1>4, <1>5
  <2> QED BY <1>2, <1>4, <1>6, <2>1, OutgoingIs
<1>8. req' = [req EXCEPT ![q] = Outgoing(r, m, pc)] /\ UNCHANGED mail
  BY <1>1, <1>5, Zenon DEF OriginalReceived
<1> QED BY <1>1, <1>3, <1>7, <1>8, CallGoesOn

\* ml2 is ml, but that the k-th message is m.
Changed(ml, ml2, k, m) ==
  /\ MailSound(ml2) /\ Grows(ml, ml2) /\ Len(ml2) = Len(ml)
  /\ \A i \in 1 .. Len(ml) : ml2[i] = IF i = k THEN m ELSE ml[i]

LEMMA PlaceChanges ==
  ASSUME NEW ml, MailSound(ml), NEW k \in 1 .. Len(ml), NEW m \in Messages, SameText(ml[k], m)
  PROVE  Changed(ml, [ml EXCEPT ![k] = m], k, m)
<1>1. PICK ml2 : ml2 = [ml EXCEPT ![k] = m]
  OBVIOUS
<1>2. ml \in Seq(Messages) /\ Len(ml) \in 1 .. MaxMail /\ Len(ml) \in Nat
  BY ComposeConfig DEF MailSound
<1>3. /\ ml2 \in Seq(Messages) /\ Len(ml2) = Len(ml)
      /\ \A i \in 1 .. Len(ml) : ml2[i] = IF i = k THEN m ELSE ml[i]
  BY <1>1, <1>2, ExceptSeq
<1>4. Grows(ml, ml2)
  <2>1. ASSUME NEW i \in 1 .. Len(ml) PROVE SameText(ml[i], ml2[i])
    <3>1. ml[i] \in Messages
      BY <1>2, ElementOfSeq
    <3> QED BY <1>3, <3>1 DEF SameText
  <2> QED BY <1>2, <1>3, <2>1 DEF Grows
<1>5. MailSound(ml2)
  BY <1>2, <1>3, <1>4, SoundAfter DEF MailSound
<1> QED BY <1>1, <1>3, <1>4, <1>5 DEF Changed

\* What has been asked of Gmail takes effect: the mail stays sound, and at most
\* the call's own message is newly sent.
LEMMA EffectSound ==
  ASSUME ConversationSound, NEW q \in Requests, Effect(q), NEW pc \in {"done", "threw"},
         req' = [req EXCEPT ![q] = over(req[q], pc)]
  PROVE  ConversationSound'
<1>1. PICK r, ml, ml2, n, rq2 :
        r = req[q] /\ ml = mail /\ ml2 = mail' /\ n = over(r, pc) /\ rq2 = req'
  OBVIOUS
<1>2. /\ MailSound(ml) /\ CallsSound(req, ml) /\ SentSound(req, ml) /\ Len(ml) \in Nat
      /\ CallSound(r, ml) /\ r \in Calls
  BY <1>1, CallType DEF ConversationSound
<1>3. r.pc \in {"send", "create", "sendDraft"}
  BY <1>1 DEF Effect
<1>4. ASSUME NEW place \in {"sent", "draft"}, Delivered(q, place), r.pc \in {"send", "create"},
             place = "sent" => r.tool \in {"send", "reply"},
             place = "draft" => r.tool = "draft"
      PROVE  \E j : MailSound(ml2) /\ Grows(ml, ml2) /\ NewlySent(ml, ml2, j, q, n)
  <2>1. PICK by, k : by = (IF place = "sent" THEN q ELSE Nobody) /\ k = Len(ml) + 1
    OBVIOUS
  <2>2. WellMade(r.out, ml) /\ Len(ml) < MaxMail
    BY <1>1, <1>2, <1>4 DEF CallSound, Delivered
  <2>3. PICK o : o = r.out
    OBVIOUS
  <2>4. PICK m : m = taken(o, ml, place, r.tool, by)
    OBVIOUS
  <2>5. ml2 = Append(ml, m)
    BY <1>1, <1>4, <2>1, <2>3, <2>4, Zenon DEF Delivered, taken
  <2>6. /\ Longer(ml, Append(ml, m), m, Len(ml) + 1)
        /\ m.place = place /\ m.madeBy = r.tool /\ m.sentBy = by
    <3>1. by \in Requests \cup {Nobody} /\ WellMade(o, ml) /\ Len(ml) < MaxMail /\ MailSound(ml)
      BY <1>2, <2>1, <2>2, <2>3
    <3>2. PICK tool \in {"send", "reply", "draft", "sendDraft"} :
            tool = r.tool /\ (place = "draft" => tool = "draft")
      BY <1>4
    <3>3. m = taken(o, ml, place, tool, by)
      BY <2>4, <3>2
    <3> QED BY <3>1, <3>2, <3>3, TakenIsSound
  <2>7. /\ MailSound(ml2) /\ Grows(ml, ml2) /\ Len(ml2) = k /\ ml2[k] = m
        /\ \A i \in 1 .. Len(ml) : ml2[i] = ml[i]
    BY <2>1, <2>5, <2>6 DEF Longer
  <2>8. by = q => n.pc \in {"done", "threw"} /\ n.tool = toolFor(m)
    <3>1. n.pc = pc /\ n.tool = r.tool
      BY <1>1, <1>2, OverIs
    <3>2. by = q => place = "sent"
      BY <2>1, ComposeConfig
    <3> QED BY <1>4, <2>6, <3>1, <3>2 DEF toolFor
  <2>9. NewlySent(ml, ml2, k, q, n)
    <3>1. ASSUME NEW i \in 1 .. Len(ml2)
          PROVE  (i \in 1 .. Len(ml) /\ ml2[i] = ml[i]) \/ (i = k /\ ml2[i] = m)
      BY <1>2, <2>1, <2>6, <2>7
    <3>2. by = q \/ (by = Nobody /\ m.place # "sent")
      BY <2>1, <2>6
    <3> QED BY <2>6, <2>8, <3>1, <3>2 DEF NewlySent
  <2> QED BY <2>7, <2>9
<1>5. ASSUME DraftLeaves(q), r.pc = "sendDraft"
      PROVE  \E j : MailSound(ml2) /\ Grows(ml, ml2) /\ NewlySent(ml, ml2, j, q, n)
  <2>1. PICK k : k = r.at
    OBVIOUS
  <2>2. k \in 1 .. Len(ml) /\ r.tool = "sendDraft"
    BY <1>2, <1>5, <2>1 DEF CallSound
  <2>3. PICK m : m = [ml[k] EXCEPT !.place = "sent", !.sentBy = q]
    OBVIOUS
  <2>4. ml[k] \in Messages
    BY <1>2, <2>2 DEF MailSound, MessageSound
  <2>5. m \in Messages /\ SameText(ml[k], m) /\ m.sentBy = q /\ toolFor(m) = "sendDraft"
    <3>1. m \in Messages
      BY <2>3, <2>4 DEF Messages
    <3>2. SameText(ml[k], m) /\ m.sentBy = q /\ m.madeBy = ml[k].madeBy
      BY <2>3, <2>4, <3>1 DEF Messages, SameText
    <3>3. ml[k].place = "draft"
      BY <1>1, <1>5, <2>1 DEF DraftLeaves
    <3>4. ml[k].madeBy = "draft"
      BY <1>2, <2>2, <3>3 DEF MailSound, MessageSound
    <3> QED BY <3>1, <3>2, <3>4 DEF toolFor
  <2>6. ml2 = [ml EXCEPT ![k] = m]
    BY <1>1, <1>5, <2>1, <2>2, <2>3, <2>4 DEF DraftLeaves, Messages
  <2>7. /\ MailSound(ml2) /\ Grows(ml, ml2) /\ Len(ml2) = Len(ml)
        /\ \A i \in 1 .. Len(ml) : ml2[i] = IF i = k THEN m ELSE ml[i]
    <3>1. Changed(ml, [ml EXCEPT ![k] = m], k, m)
      BY <1>2, <2>2, <2>5, PlaceChanges
    <3>2. Changed(ml, ml2, k, m)
      BY <2>6, <3>1
    <3> QED BY <3>2, Zenon DEF Changed
  <2>8. n.pc = pc /\ n.tool = r.tool
    BY <1>1, <1>2, OverIs
  <2>9. NewlySent(ml, ml2, k, q, n)
    BY <2>2, <2>5, <2>7, <2>8 DEF NewlySent
  <2> QED BY <2>7, <2>9
<1>6. PICK j : MailSound(ml2) /\ Grows(ml, ml2) /\ NewlySent(ml, ml2, j, q, n)
  <2>1. CASE r.pc = "send" /\ Delivered(q, "sent")
    BY <1>2, <1>4, <2>1 DEF CallSound
  <2>2. CASE r.pc = "create" /\ Delivered(q, "draft")
    BY <1>2, <1>4, <2>2 DEF CallSound
  <2>3. CASE r.pc = "sendDraft" /\ DraftLeaves(q)
    BY <1>5, <2>3
  <2> QED BY <1>1, <2>1, <2>2, <2>3 DEF Effect
<1>7. CallSound(n, ml2)
  <2>1. Len(ml2) \in Nat
    BY <1>6 DEF Grows
  <2> QED BY <1>1, <1>2, <2>1, OverIs
<1>8. CallsSound(rq2, ml2) /\ SentSound(rq2, ml2)
  <2>1. req[q].pc \notin {"done", "threw"} /\ rq2 = [req EXCEPT ![q] = n]
    BY <1>1, <1>3
  <2> QED BY <1>2, <1>6, <1>7, <2>1, SoundStep
<1> QED BY <1>1, <1>6, <1>8 DEF ConversationSound

LEMMA FailsSound ==
  ASSUME ConversationSound, NEW q \in Requests, Fails(q)
  PROVE  ConversationSound'
<1>1. req[q].pc \in {"get", "send", "create", "sendDraft"}
      /\ req' = [req EXCEPT ![q] = over(req[q], "threw")]
  <2>1. q \in DOMAIN req
    BY DEF ConversationSound, CallsSound
  <2> QED BY <2>1 DEF Fails
<1>2. CASE Effect(q)
  BY <1>1, <1>2, EffectSound
<1>3. CASE UNCHANGED mail
  <2>1. CallSound(over(req[q], "threw"), mail)
    BY CallType, OverIs
  <2> QED BY <1>1, <1>3, <2>1, CallGoesOn
<1> QED BY <1>2, <1>3 DEF Fails

LEMMA SucceedsSound ==
  ASSUME ConversationSound, NEW q \in Requests, Succeeds(q)
  PROVE  ConversationSound'
<1>1. Effect(q) /\ req' = [req EXCEPT ![q] = over(req[q], "done")]
  <2>1. q \in DOMAIN req
    BY DEF ConversationSound, CallsSound
  <2> QED BY <2>1 DEF Succeeds
<1> QED BY <1>1, EffectSound

LEMMA UserDeletesSound ==
  ASSUME ConversationSound, NEW k \in DOMAIN mail, UserDeletes(k)
  PROVE  ConversationSound'
<1>1. PICK ml, ml2 : ml = mail /\ ml2 = mail'
  OBVIOUS
<1>2. MailSound(ml) /\ CallsSound(req, ml) /\ SentSound(req, ml) /\ k \in 1 .. Len(ml)
  BY <1>1, LenProperties DEF ConversationSound, MailSound
<1>3. PICK m : m = [ml[k] EXCEPT !.place = "gone"]
  OBVIOUS
<1>4. ml[k] \in Messages
  BY <1>2 DEF MailSound, MessageSound
<1>5. m \in Messages
  BY <1>3, <1>4 DEF Messages
<1>6. /\ SameText(ml[k], m) /\ m.sentBy = ml[k].sentBy /\ m.place # "sent"
      /\ toolFor(m) = toolFor(ml[k])
  BY <1>3, <1>4, <1>5 DEF Messages, SameText, toolFor
<1>7. ml2 = [ml EXCEPT ![k] = m]
  BY <1>1, <1>2, <1>3, <1>4 DEF UserDeletes, Messages
<1>8. /\ MailSound(ml2) /\ Grows(ml, ml2) /\ Len(ml2) = Len(ml)
      /\ \A i \in 1 .. Len(ml) : ml2[i] = IF i = k THEN m ELSE ml[i]
  <2>1. Changed(ml, [ml EXCEPT ![k] = m], k, m)
    BY <1>2, <1>5, <1>6, PlaceChanges
  <2>2. Changed(ml, ml2, k, m)
    BY <1>7, <2>1
  <2> QED BY <2>2, Zenon DEF Changed
<1>9. \A i \in 1 .. Len(ml) :
        /\ ml2[i].sentBy = ml[i].sentBy /\ toolFor(ml2[i]) = toolFor(ml[i])
        /\ ml2[i].place = "sent" => ml[i].place = "sent"
  BY <1>6, <1>8
<1>10. SentSound(req, ml2)
  BY <1>2, <1>8, <1>9 DEF SentSound
<1>11. CallsSound(req, ml2)
  <2>1. Len(ml) \in Nat
    BY <1>2 DEF MailSound
  <2> QED BY <1>2, <1>8, <2>1, CallsAfter DEF CallsSound
<1>12. req' = req
  BY DEF UserDeletes
<1> QED BY <1>1, <1>8, <1>10, <1>11, <1>12 DEF ConversationSound

\* The conversation stays sound, whatever the calls do and whichever fail: no
\* message changes but for its place, each has the headers a reply to its
\* original must have, and who has sent a message has ended.
THEOREM KeepsTheConversation == Spec => []ConversationSound
<1>1. ConversationSound /\ [Next]_vars => ConversationSound'
  <2> SUFFICES ASSUME ConversationSound, [Next]_vars PROVE ConversationSound'
    OBVIOUS
  <2>1. CASE UNCHANGED vars
    BY <2>1 DEF vars, ConversationSound
  <2>2. ASSUME NEW q \in Requests, NEW to \in Given, NEW cc \in Given, NEW s \in Subjects,
               sendEmail(q, to, cc, s) \/ createDraft(q, to, cc, s)
        PROVE  ConversationSound'
    BY <2>2, SendEmailSound, CreateDraftSound
  <2>3. ASSUME NEW q \in Requests, NEW k \in DOMAIN mail, NEW replyAll \in BOOLEAN,
               \/ replyEmail(q, k, replyAll)
               \/ \E to, cc \in Given, s \in Subjects :
                    createReplyDraft(q, k, replyAll, to, cc, s)
        PROVE  ConversationSound'
    BY <2>3, ReplyEmailSound, CreateReplyDraftSound
  <2>4. ASSUME NEW q \in Requests, NEW k \in DOMAIN mail, sendDraft(q, k)
        PROVE  ConversationSound'
    BY <2>4, SendDraftSound
  <2>5. ASSUME NEW q \in Requests, OriginalReceived(q) \/ Succeeds(q) \/ Fails(q)
        PROVE  ConversationSound'
    BY <2>5, OriginalReceivedSound, SucceedsSound, FailsSound
  <2>6. ASSUME NEW k \in DOMAIN mail, UserDeletes(k)
        PROVE  ConversationSound'
    BY <2>6, UserDeletesSound
  <2> QED BY <2>1, <2>2, <2>3, <2>4, <2>5, <2>6 DEF Next
<1> QED BY <1>1, InitSound, PTL DEF Spec

-----------------------------------------------------------------------------
(* What it means. *)

LEMMA MessageIs ==
  ASSUME ConversationSound, NEW k \in DOMAIN mail
  PROVE  /\ k \in 1 .. Len(mail) /\ Len(mail) \in 1 .. MaxMail /\ MessageSound(mail, k)
         /\ DOMAIN mail = 1 .. Len(mail)
BY LenProperties DEF ConversationSound, MailSound

\* A reply and what it answers.
LEMMA RepliesAnswer ==
  ASSUME ConversationSound, NEW k \in replies, NEW x, x = mail[k],
         NEW j, j = x.parent, NEW p, p = mail[j]
  PROVE  /\ k \in DOMAIN mail /\ k \in 1 .. MaxMail /\ j \in 1 .. MaxMail /\ j < k
         /\ Answers(x, p) /\ x \in Messages /\ x.references \in Chains(k)
         /\ p \in Messages /\ p.id \in {0, j} /\ p.references \in Chains(j)
<1>1. k \in DOMAIN mail /\ j # 0
  BY DEF replies
<1>2. /\ Answers(x, p) /\ x \in Messages /\ x.references \in Chains(k) /\ j \in 0 .. k - 1
      /\ k \in 1 .. Len(mail) /\ Len(mail) \in 1 .. MaxMail /\ MaxMail \in Nat
      /\ DOMAIN mail = 1 .. Len(mail)
  BY <1>1, MessageIs, ComposeConfig DEF MessageSound
<1>3. j \in DOMAIN mail /\ j \in 1 .. MaxMail /\ k \in 1 .. MaxMail /\ j < k
  BY <1>1, <1>2
<1>4. p \in Messages /\ p.id \in {0, j} /\ p.references \in Chains(j)
  BY <1>3, MessageIs DEF MessageSound
<1> QED BY <1>1, <1>2, <1>3, <1>4

\* Every message and every call has the values its type says: in particular no
\* References or In-Reply-To header names a message that has no id.
THEOREM TypeCorrect == Spec => []TypeOK
<1>1. ConversationSound => TypeOK
  <2> SUFFICES ASSUME ConversationSound PROVE TypeOK
    OBVIOUS
  <2>1. Len(mail) <= MaxMail /\ Len(mail) \in Nat /\ MaxMail \in Nat
    BY ComposeConfig DEF ConversationSound, MailSound
  <2>2. ASSUME NEW k \in DOMAIN mail
        PROVE  /\ mail[k].place \in {"received", "draft", "sent", "gone"}
               /\ isSubject(mail[k].subject)
               /\ mail[k].id \in ids /\ mail[k].inReplyTo \in ids /\ mail[k].thread \in 1 .. k
               /\ \A j \in DOMAIN mail[k].references : mail[k].references[j] \in ids \ {0}
               /\ mail[k].parent \in 0 .. k - 1
               /\ mail[k].sentBy \in Requests \cup {Nobody}
    <3>1. PICK x : x = mail[k]
      OBVIOUS
    <3>2. /\ x \in Messages /\ x.id \in {0, k} /\ x.thread \in 1 .. k /\ x.references \in Chains(k)
          /\ x.parent \in 0 .. k - 1 /\ k \in 1 .. MaxMail /\ (x.parent = 0 => x.inReplyTo = 0)
      BY <2>1, <3>1, MessageIs DEF MessageSound
    <3>3. \A j \in DOMAIN x.references : x.references[j] \in ids \ {0}
      <4>1. PICK s : s = x.references
        OBVIOUS
      <4>2. s \in Seq(ids \ {0})
        BY <3>2, <4>1 DEF Chains
      <4>3. \A j \in DOMAIN s : s[j] \in ids \ {0}
        BY <4>2, LenProperties, ElementOfSeq
      <4> QED BY <4>1, <4>3
    <3>4. x.id \in ids
      BY <2>1, <3>2 DEF ids
    <3>5. x.inReplyTo \in ids
      <4>1. CASE x.parent = 0
        BY <2>1, <3>2, <4>1 DEF ids
      <4>2. CASE x.parent # 0
        <5>1. k \in replies
          BY <3>1, <4>2 DEF replies
        <5>2. PICK j, p : j = x.parent /\ p = mail[j]
          OBVIOUS
        <5>3. j \in 1 .. MaxMail /\ Answers(x, p) /\ p.id \in {0, j}
          BY <3>1, <5>1, <5>2, RepliesAnswer
        <5> QED BY <2>1, <5>3 DEF Answers, ids
      <4> QED BY <4>1, <4>2
    <3>6. /\ x.place \in {"received", "draft", "sent", "gone"}
          /\ x.subject \in Seq(Nat) /\ Len(x.subject) <= 1
          /\ x.sentBy \in Requests \cup {Nobody}
      BY <3>2 DEF Messages
    <3> QED BY <3>1, <3>2, <3>3, <3>4, <3>5, <3>6 DEF isSubject
  <2>3. ASSUME NEW q \in Requests
        PROVE  /\ req[q].pc \in {"idle", "get", "send", "create", "sendDraft", "done", "threw"}
               /\ req[q].tool \in {"none", "send", "reply", "draft", "sendDraft"}
               /\ req[q].at \in 0 .. Len(mail)
    BY CallType DEF CallSound, Calls
  <2> QED BY <2>1, <2>2, <2>3 DEF TypeOK
<1> QED BY <1>1, KeepsTheConversation, PTL

\* However many plain names are on the lines of the original, whatever commas are
\* in their quotes, whatever the caller gives and whoever else is writing: a reply
\* goes to the one the sender of the original wants it sent to, a reply to all to
\* everyone on its lines but those and oneself.
THEOREM ReachesEveryone == Spec => []RepliesReachEveryone
<1>1. ConversationSound => RepliesReachEveryone
  <2> SUFFICES ASSUME ConversationSound, NEW k \in replies,
                      NEW x, x = mail[k], NEW p, p = mail[x.parent], plainLines(p)
               PROVE  /\ "to" \notin x.own => ToSet(x.to) = ToSet(sender(p))
                      /\ "cc" \notin x.own =>
                           ToSet(x.cc) \subseteq IF x.all THEN readers(p) ELSE {}
                      /\ x.all /\ {"to", "cc"} \cap x.own = {} =>
                           addressesOn(x.cc) =
                             {Last(a) : a \in readers(p)} \ (addressesOn(sender(p)) \cup {Self})
    BY DEF RepliesReachEveryone
  <2>1. Answers(x, p)
    BY RepliesAnswer
  <2>2. "cc" \notin x.own => ToSet(x.cc) = others(p, x.all)
    BY <2>1 DEF Answers, Addressed
  <2>3. ASSUME x.all, "cc" \notin x.own
        PROVE  addressesOn(x.cc) =
                 {Last(a) : a \in readers(p)} \ (addressesOn(sender(p)) \cup {Self})
    <3>1. PICK A : A = addressesOn(sender(p)) \cup {Self}
      OBVIOUS
    <3>2. ToSet(x.cc) = {a \in readers(p) : Last(a) \notin A}
      BY <2>2, <2>3, <3>1 DEF others
    <3>3. addressesOn(x.cc) = {Last(a) : a \in ToSet(x.cc)}
      BY DEF addressesOn
    <3>4. {Last(a) : a \in {b \in readers(p) : Last(b) \notin A}} = {Last(a) : a \in readers(p)} \ A
      OBVIOUS
    <3> QED BY <3>1, <3>2, <3>3, <3>4
  <2>4. "to" \notin x.own => ToSet(x.to) = ToSet(sender(p))
    BY <2>1 DEF Answers, Addressed
  <2>5. "cc" \notin x.own => ToSet(x.cc) \subseteq IF x.all THEN readers(p) ELSE {}
    BY <2>2 DEF others
  <2> QED BY <2>3, <2>4, <2>5
<1> QED BY <1>1, KeepsTheConversation, PTL

\* However long the conversation is and whatever its headers: a reply stays in the
\* thread of its original, carries its References and then its id, no message
\* twice, names it in In-Reply-To, and puts Re: before a subject that has none.
THEOREM KeepsTheThread == Spec => []ConversationThreads
<1>1. ConversationSound => ConversationThreads
  <2> SUFFICES ASSUME ConversationSound, NEW k \in replies,
                      NEW x, x = mail[k], NEW p, p = mail[x.parent]
               PROVE  /\ x.thread = p.thread
                      /\ x.references = p.references \o (IF p.id = 0 THEN <<>> ELSE <<p.id>>)
                      /\ \A i, j \in DOMAIN x.references : x.references[i] = x.references[j] => i = j
                      /\ x.inReplyTo = p.id /\ (p.id # 0 => x.inReplyTo = Last(x.references))
                      /\ "subject" \notin x.own =>
                           re(x.subject) = IF re(p.subject) > 0 THEN re(p.subject) ELSE 1
    BY DEF ConversationThreads
  <2>1. PICK j : j = x.parent
    OBVIOUS
  <2>2. /\ Answers(x, p) /\ x.references \in Chains(k) /\ k \in 1 .. MaxMail
        /\ j \in 1 .. MaxMail /\ j < k
        /\ p \in Messages /\ p.id \in {0, j} /\ p.references \in Chains(j)
    BY <2>1, RepliesAnswer
  <2>3. PICK s, t : s = p.references /\ t = x.references
    OBVIOUS
  <2>4. t = s \o (IF p.id = 0 THEN <<>> ELSE <<p.id>>)
    <3>1. referencesAfter(p) = p.references \o (IF p.id = 0 THEN <<>> ELSE <<p.id>>)
      BY <2>2, ReferencesGrow
    <3>2. t = referencesAfter(p)
      BY <2>2, <2>3 DEF Answers
    <3> QED BY <2>3, <3>1, <3>2, Zenon
  <2>5. \A i, l \in DOMAIN t : t[i] = t[l] => i = l
    BY <2>2, <2>3, LenProperties DEF Chains
  <2>6. ASSUME p.id # 0 PROVE p.id = Last(t)
    <3>1. t = Append(s, p.id)
      BY <2>2, <2>3, <2>6 DEF Answers, referencesAfter
    <3>2. s \in Seq(Nat) /\ p.id \in Nat
      BY <2>2, <2>3 DEF Messages
    <3>3. Len(t) = Len(s) + 1 /\ t[Len(s) + 1] = p.id
      BY <3>1, <3>2, AppendProperties
    <3> QED BY <3>3 DEF Last
  <2>7. ASSUME "subject" \notin x.own
        PROVE  re(x.subject) = IF re(p.subject) > 0 THEN re(p.subject) ELSE 1
    <3>1. x.subject = IF re(p.subject) > 0 THEN p.subject ELSE <<1>>
      BY <2>2, <2>7 DEF Answers, subjectAfter
    <3>2. re(<<1>>) = 1
      BY DEF re
    <3> QED BY <3>1, <3>2
  <2> QED BY <2>2, <2>3, <2>4, <2>5, <2>6, <2>7 DEF Answers
<1> QED BY <1>1, KeepsTheConversation, PTL

\* Nothing leaves but by a call of the tool that sends it, a draft by none but
\* send_draft, and no call sends twice, whichever answers are lost.
THEOREM SendsOnce == Spec => []SentByRequest
<1>1. ConversationSound => SentByRequest
  <2> SUFFICES ASSUME ConversationSound, NEW k \in DOMAIN mail, mail[k].place = "sent",
                      NEW by, by = mail[k].sentBy
               PROVE  /\ by \in Requests
                      /\ req[by].tool = IF mail[k].madeBy = "draft" THEN "sendDraft" ELSE mail[k].madeBy
                      /\ \A j \in DOMAIN mail : mail[j].sentBy = by => j = k
    BY DEF SentByRequest
  <2>1. DOMAIN mail = 1 .. Len(mail) /\ k \in 1 .. Len(mail) /\ mail[k] \in Messages
    BY MessageIs DEF MessageSound
  <2>2. by # Nobody /\ req[by].tool = toolFor(mail[k])
        /\ \A j \in 1 .. Len(mail) : mail[j].sentBy = by => j = k
    BY <2>1 DEF ConversationSound, SentSound
  <2>3. by \in Requests
    BY <2>1, <2>2 DEF Messages
  <2> QED BY <2>1, <2>2, <2>3 DEF toolFor
<1> QED BY <1>1, KeepsTheConversation, PTL

\* No line break reaches Gmail in any header, given by a caller or derived from
\* any original.
THEOREM SafeHeaders == Spec => []HeadersAreSafe
<1>1. ConversationSound => HeadersAreSafe
  <2> SUFFICES ASSUME ConversationSound, NEW k \in DOMAIN mail, k # 1
               PROVE  /\ mail[k].broken = {}
                      /\ \A a \in ToSet(mail[k].to) \cup ToSet(mail[k].cc) : LineBreak \notin ToSet(a)
    BY DEF HeadersAreSafe
  <2>1. buildMimeMessage(mail[k]) /\ mail[k].broken = {}
    BY MessageIs DEF MessageSound
  <2> QED BY <2>1 DEF buildMimeMessage, assertSafeHeaderValue
<1> QED BY <1>1, KeepsTheConversation, PTL

=============================================================================
