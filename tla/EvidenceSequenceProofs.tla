----------------------- MODULE EvidenceSequenceProofs -----------------------
(***************************************************************************)
(* What two packages say of the time between them.  No read is atomic and  *)
(* the packages hold no history, so all rests on stamps: the pull request  *)
(* bears the tick of the last change of its conversation, and its number   *)
(* of comments with those of the page leaves room for one history only.    *)
(***************************************************************************)
EXTENDS EvidenceSequence, SequenceTheorems, TLAPS

Late    == {"end", "verify", "merge", "post", "done"}
Sealed  == {"verify", "merge", "post", "done"}

\* A sequence of whatever it has.
List(s) == s \in Seq({s[i] : i \in DOMAIN s})
Lists ==
  /\ List(main) /\ List(trees) /\ List(comments) /\ List(past)
  /\ \A t \in DOMAIN past : List(past[t].comments)

\* The shape of a comment, and of its stamps.
Stamps(c) ==
  /\ c = [id |-> c.id, by |-> c.by, says |-> c.says, rev |-> c.rev,
          created |-> c.created, updated |-> c.updated]
  /\ c.created \in Nat /\ c.updated \in Nat
  /\ c.rev = 0 => c.updated = c.created

PullOf(p) == [head |-> p.head, body |-> p.body, open |-> p.open, updated |-> p.updated]

StampsAgree ==
  /\ pull = PullOf(pull) /\ pull.open \in BOOLEAN /\ pull.updated \in 1 .. clock
  /\ \A i \in DOMAIN comments : Stamps(comments[i]) /\ comments[i].updated <= pull.updated

\* Nothing has changed since the stamp of the pull request.
Held ==
  \A t \in DOMAIN past : t >= pull.updated => past[t].pull = pull /\ past[t].comments = comments

\* The comments c, some time after tick t ended with p: if one that is old enough
\* stands at the last place of p, all of p are there, and in their places.
Survives(c, p, t) ==
  \A m \in DOMAIN c : c[m].created <= t =>
    /\ m <= Len(p)
    /\ m = Len(p) => \A j \in 1 .. m : c[j].updated <= t => c[j] = p[j]
Surviving == \A t \in DOMAIN past : Survives(comments, past[t].comments, t)

\* The merge, from when the pull request is closed.
MergeInv ==
  /\ merged # Nothing => ~pull.open
  /\ ~pull.open =>
       /\ merged = [commit |-> merged.commit, tree |-> merged.tree, parent |-> merged.parent,
                    by |-> merged.by, head |-> merged.head, at |-> merged.at,
                    checks |-> merged.checks]
       /\ merged.parent \in Nat /\ merged.commit = merged.parent + 1 /\ merged.commit \in DOMAIN main
       /\ main[merged.commit] = merged.tree /\ merged.at \in 1 .. clock
       /\ \A t \in DOMAIN past : t < merged.at => past[t].tip <= merged.parent

WorldInv ==
  /\ Lists /\ StampsAgree /\ Held /\ Surviving /\ MergeInv
  /\ Tip >= 1
  /\ \A t \in DOMAIN past : past[t].tip \in 1 .. Tip

-----------------------------------------------------------------------------
\* What the owner has read.
Words(l) == [i \in DOMAIN l |-> l[i].comment]
PageRead(l) == List(l) /\ \A i \in DOMAIN l : Stamps(l[i].comment)

\* The reads d of the last package: of the pull request, and of the conversation.
LastReads(d) ==
  /\ "pull" \in DOMAIN d =>
       /\ d["pull"].updated \in Nat /\ d["pull"].open \in BOOLEAN
       /\ \A j \in DOMAIN start.snapshot["comments"] :
            start.snapshot["comments"][j].comment.updated <= d["pull"].updated
       /\ \A t \in 1 .. readAt - 1 : t >= d["pull"].updated =>
            past[t].pull = PullOf(d["pull"]) /\ Len(past[t].comments) = d["pull"].comments
  /\ "comments" \in DOMAIN d =>
       \A t \in 1 .. readAt - 1 : Survives(Words(d["comments"]), past[t].comments, t)

PreInv ==
  /\ stage = "pre" /\ "pull" \in DOMAIN draft =>
       draft["pull"].head \in DOMAIN trees /\ draft["pull"].base \in 1 .. Tip
  /\ stage = "pre" /\ "comments" \in DOMAIN draft => List(draft["comments"])
  /\ stage # "pre" =>
       /\ List(pre.bundles["comments"])
       /\ pre.head \in DOMAIN trees /\ pre.tree = trees[pre.head] /\ pre.base \in 1 .. Tip
       /\ \A t \in DOMAIN past : t >= pre.cutoff => past[t].tip >= pre.base

StartInv ==
  /\ stage = "start" /\ "comments" \in DOMAIN draft =>
       /\ PageRead(draft["comments"])
       /\ \A i \in DOMAIN draft["comments"] : draft["comments"][i].comment.updated <= pull.updated
  /\ stage \in Late =>
       /\ start.pre = pre /\ start.phase = "start" /\ DOMAIN start.snapshot = COMPONENTS("start")
       /\ PageRead(start.snapshot["comments"])
  /\ stage = "end" =>
       \A i \in DOMAIN start.snapshot["comments"] :
         start.snapshot["comments"][i].comment.updated <= pull.updated

EndInv ==
  /\ stage = "end" => LastReads(draft)
  /\ stage \in Sealed =>
       /\ end.pre = pre /\ end.phase = "end" /\ DOMAIN end.snapshot = COMPONENTS("end")
       /\ LastReads(end.snapshot)
       /\ habit # "any" => readAt = end.cutoff
  /\ habit # "any" /\ stage \in {"pre", "start", "end"} /\ DOMAIN draft # {} => readAt = clock

\* The merge d that was read is the one there was.
SameMerge(d) ==
  "merged" \in DOMAIN d =>
    /\ d["merged"].commit = merged.commit /\ d["merged"].tree = merged.tree
    /\ d["merged"].parent = merged.parent /\ d["merged"].at = merged.at

PostInv ==
  /\ stage \in {"post", "done"} => ~pull.open
  /\ stage = "post" => SameMerge(draft)
  /\ stage = "done" =>
       post.pre = pre /\ post.phase = "post" /\ "merged" \in DOMAIN post.merge /\ SameMerge(post.merge)

OwnerInv == draft = [l \in DOMAIN draft |-> draft[l]] /\ PreInv /\ StartInv /\ EndInv /\ PostInv

IInv == TypeOK /\ WorldInv /\ OwnerInv

-----------------------------------------------------------------------------
\* Facts about lists.

LEMMA Lengths ==
  ASSUME NEW s, List(s)
  PROVE  Len(s) \in Nat /\ DOMAIN s = 1 .. Len(s) /\ s = [i \in 1 .. Len(s) |-> s[i]]
BY DEF List

LEMMA Appended ==
  ASSUME NEW s, NEW e, List(s)
  PROVE  /\ List(Append(s, e)) /\ Len(Append(s, e)) = Len(s) + 1
         /\ DOMAIN Append(s, e) = 1 .. Len(s) + 1
         /\ \A i \in DOMAIN s : Append(s, e)[i] = s[i]
         /\ Append(s, e)[Len(s) + 1] = e
<1> DEFINE S == {s[i] : i \in DOMAIN s} \cup {e}
           a == Append(s, e)
<1>1. s \in Seq(S) /\ e \in S
  <2>1. s \in Seq({s[i] : i \in DOMAIN s})
    BY DEF List
  <2> QED BY <2>1, Lengths
<1>2. /\ a \in Seq(S) /\ Len(a) = Len(s) + 1 /\ DOMAIN a = 1 .. Len(s) + 1
      /\ \A i \in 1 .. Len(s) : a[i] = s[i]
      /\ a[Len(s) + 1] = e
  <2> HIDE DEF S
  <2> QED BY <1>1
<1>3. a \in Seq({a[i] : i \in DOMAIN a})
  <2> HIDE DEF a, S
  <2>1. a = [i \in 1 .. Len(a) |-> a[i]] /\ Len(a) \in Nat
    BY <1>2
  <2> QED BY <1>2, <2>1
<1> QED BY <1>2, <1>3, Lengths DEF List

LEMMA Replaced ==
  ASSUME NEW s, NEW i \in DOMAIN s, NEW e, List(s)
  PROVE  /\ List([s EXCEPT ![i] = e]) /\ Len([s EXCEPT ![i] = e]) = Len(s)
         /\ DOMAIN [s EXCEPT ![i] = e] = DOMAIN s
         /\ \A j \in DOMAIN s : [s EXCEPT ![i] = e][j] = IF j = i THEN e ELSE s[j]
<1> DEFINE r == [s EXCEPT ![i] = e]
           R == {r[j] : j \in DOMAIN r}
<1>1. /\ Len(s) \in Nat /\ DOMAIN s = 1 .. Len(s)
  BY Lengths
<1>2. /\ r = [j \in 1 .. Len(s) |-> r[j]] /\ DOMAIN r = 1 .. Len(s)
      /\ \A j \in DOMAIN s : r[j] = IF j = i THEN e ELSE s[j]
  BY <1>1, Lengths
<1> HIDE DEF r
<1>3. \A j \in 1 .. Len(s) : r[j] \in R
  BY <1>2
<1>4. r \in Seq(R) /\ Len(r) = Len(s)
  <2> HIDE DEF R
  <2> QED BY <1>1, <1>2, <1>3
<1> QED BY <1>1, <1>2, <1>4 DEF List, r

LEMMA Removed ==
  ASSUME NEW s, NEW i \in DOMAIN s, List(s)
  PROVE  /\ List(RemoveAt(s, i)) /\ DOMAIN RemoveAt(s, i) = 1 .. Len(s) - 1
         /\ Len(RemoveAt(s, i)) = Len(s) - 1
         /\ \A j \in 1 .. Len(s) - 1 : RemoveAt(s, i)[j] = IF j < i THEN s[j] ELSE s[j + 1]
<1> DEFINE S == {s[j] : j \in DOMAIN s}
           r == RemoveAt(s, i)
<1>1. s \in Seq(S) /\ Len(s) \in Nat /\ DOMAIN s = 1 .. Len(s) /\ i \in 1 .. Len(s)
  BY Lengths DEF List
<1> HIDE DEF S
<1>2. /\ SubSeq(s, 1, i - 1) \in Seq(S) /\ Len(SubSeq(s, 1, i - 1)) = i - 1
      /\ \A j \in 1 .. i - 1 : SubSeq(s, 1, i - 1)[j] = s[j]
  BY <1>1
<1>3. /\ SubSeq(s, i + 1, Len(s)) \in Seq(S) /\ Len(SubSeq(s, i + 1, Len(s))) = Len(s) - i
      /\ \A j \in 1 .. Len(s) - i : SubSeq(s, i + 1, Len(s))[j] = s[j + i]
  BY <1>1
<1>4. /\ r \in Seq(S) /\ Len(r) = Len(s) - 1 /\ DOMAIN r = 1 .. Len(s) - 1
      /\ \A j \in 1 .. Len(s) - 1 : r[j] = IF j < i THEN s[j] ELSE s[j + 1]
  <2> DEFINE front == SubSeq(s, 1, i - 1)
             rest == SubSeq(s, i + 1, Len(s))
  <2>1. r = front \o rest
    BY DEF RemoveAt
  <2>2. /\ front \in Seq(S) /\ Len(front) = i - 1 /\ \A j \in 1 .. i - 1 : front[j] = s[j]
        /\ rest \in Seq(S) /\ Len(rest) = Len(s) - i /\ \A j \in 1 .. Len(s) - i : rest[j] = s[j + i]
    BY <1>2, <1>3
  <2> HIDE DEF front, rest, r
  <2>3. r \in Seq(S) /\ Len(r) = Len(s) - 1 /\ DOMAIN r = 1 .. Len(s) - 1
    <3>1. r \in Seq(S) /\ Len(r) = Len(front) + Len(rest)
      BY <2>1, <2>2, ConcatProperties
    <3>2. Len(r) = Len(s) - 1
      BY <1>1, <2>2, <3>1
    <3> QED BY <3>1, <3>2
  <2>4. ASSUME NEW j \in 1 .. Len(s) - 1, j < i PROVE r[j] = s[j]
    BY <1>1, <2>1, <2>2, <2>4
  <2>5. ASSUME NEW j \in 1 .. Len(s) - 1, ~(j < i) PROVE r[j] = s[j + 1]
    <3>1. r[j] = rest[j - (i - 1)]
      BY <1>1, <2>1, <2>2, <2>5
    <3>2. j - (i - 1) \in 1 .. Len(s) - i /\ j - (i - 1) + i = j + 1
      BY <1>1, <2>5
    <3> QED BY <2>2, <3>1, <3>2
  <2> QED BY <2>3, <2>4, <2>5
<1>5. r = [j \in 1 .. Len(r) |-> r[j]] /\ Len(r) \in Nat
  BY <1>4
<1> HIDE DEF r
<1>6. r \in Seq({r[j] : j \in DOMAIN r})
  BY <1>4, <1>5
<1> QED BY <1>4, <1>6 DEF List, r

LEMMA FirstPages ==
  ASSUME NEW s, List(s)
  PROVE  LET p == FirstPage(s) IN
         /\ List(p) /\ Len(p) <= Len(s) /\ DOMAIN p = 1 .. Len(p) /\ Len(p) \in Nat
         /\ \A i \in DOMAIN p : p[i] = s[i]
<1> DEFINE S == {s[j] : j \in DOMAIN s}
           n == IF Len(s) < PageSize THEN Len(s) ELSE PageSize
           p == SubSeq(s, 1, n)
<1>1. s \in Seq(S) /\ Len(s) \in Nat /\ DOMAIN s = 1 .. Len(s)
  BY Lengths DEF List
<1>2. n \in Nat /\ n <= Len(s)
  BY <1>1, WindowAssumption
<1> HIDE DEF S, n
<1>3. /\ p \in Seq(S) /\ Len(p) = n /\ DOMAIN p = 1 .. n /\ \A i \in 1 .. n : p[i] = s[i]
  BY <1>1, <1>2
<1>4. p = [j \in 1 .. Len(p) |-> p[j]]
  BY <1>3
<1>5. List(p)
  <2> HIDE DEF p
  <2> QED BY <1>2, <1>3, <1>4 DEF List
<1>6. FirstPage(s) = p
  BY DEF FirstPage, p, n
<1> HIDE DEF p
<1> QED BY <1>2, <1>3, <1>5, <1>6

-----------------------------------------------------------------------------
\* What becomes of a conversation.

LEMMA SaidLater ==
  ASSUME NEW c, NEW p, NEW t \in Nat, NEW e, List(c), List(p), Survives(c, p, t),
         e.created \in Nat, e.created > t
  PROVE  Survives(Append(c, e), p, t)
<1> DEFINE a == Append(c, e)
<1>1. /\ Len(c) \in Nat /\ DOMAIN c = 1 .. Len(c) /\ DOMAIN a = 1 .. Len(c) + 1
      /\ \A i \in DOMAIN c : a[i] = c[i]
      /\ a[Len(c) + 1] = e
  BY Appended, Lengths
<1> HIDE DEF a
<1>2. ASSUME NEW m \in DOMAIN a, a[m].created <= t
      PROVE  /\ m <= Len(p)
             /\ m = Len(p) => \A j \in 1 .. m : a[j].updated <= t => a[j] = p[j]
  <2>1. m \in DOMAIN c /\ c[m].created <= t
    BY <1>1, <1>2
  <2>2. \A j \in 1 .. m : a[j] = c[j]
    BY <1>1, <2>1
  <2> QED BY <2>1, <2>2 DEF Survives
<1> QED BY <1>2 DEF Survives, a

LEMMA AmendedLater ==
  ASSUME NEW c, NEW p, NEW t \in Nat, NEW i \in DOMAIN c, NEW e, List(c), Survives(c, p, t),
         e.created = c[i].created, e.updated \in Nat, e.updated > t
  PROVE  Survives([c EXCEPT ![i] = e], p, t)
<1> DEFINE a == [c EXCEPT ![i] = e]
<1>1. /\ Len(c) \in Nat /\ DOMAIN c = 1 .. Len(c) /\ DOMAIN a = DOMAIN c
      /\ \A j \in DOMAIN c : a[j] = IF j = i THEN e ELSE c[j]
  BY Replaced, Lengths
<1> HIDE DEF a
<1>2. ASSUME NEW m \in DOMAIN a, a[m].created <= t
      PROVE  /\ m <= Len(p)
             /\ m = Len(p) => \A j \in 1 .. m : a[j].updated <= t => a[j] = p[j]
  <2>1. m \in DOMAIN c /\ c[m].created <= t
    BY <1>1, <1>2
  <2>2. ASSUME NEW j \in 1 .. m, a[j].updated <= t PROVE a[j] = c[j]
    BY <1>1, <2>1, <2>2
  <2> QED BY <2>1, <2>2 DEF Survives
<1> QED BY <1>2 DEF Survives, a

LEMMA RetractedLater ==
  ASSUME NEW c, NEW p, NEW t \in Nat, NEW i \in DOMAIN c, List(c), List(p), Survives(c, p, t)
  PROVE  Survives(RemoveAt(c, i), p, t)
<1> DEFINE a == RemoveAt(c, i)
<1>1. /\ Len(c) \in Nat /\ DOMAIN c = 1 .. Len(c) /\ DOMAIN a = 1 .. Len(c) - 1 /\ Len(p) \in Nat
      /\ \A j \in 1 .. Len(c) - 1 : a[j] = IF j < i THEN c[j] ELSE c[j + 1]
  BY Removed, Lengths
<1> HIDE DEF a
<1>2. ASSUME NEW m \in DOMAIN a, a[m].created <= t
      PROVE  /\ m <= Len(p)
             /\ m = Len(p) => \A j \in 1 .. m : a[j].updated <= t => a[j] = p[j]
  <2>1. CASE m < i
    <3>1. m \in DOMAIN c /\ c[m].created <= t /\ \A j \in 1 .. m : a[j] = c[j]
      BY <1>1, <1>2, <2>1
    <3> QED BY <3>1 DEF Survives
  <2>2. CASE ~(m < i)
    <3>1. m + 1 \in DOMAIN c /\ c[m + 1].created <= t
      BY <1>1, <1>2, <2>2
    <3>2. m + 1 <= Len(p)
      BY <3>1 DEF Survives
    <3> QED BY <1>1, <3>2
  <2> QED BY <2>1, <2>2
<1> QED BY <1>2 DEF Survives, a

-----------------------------------------------------------------------------
\* GitHub's steps.

\* What the owner has read stays true of what GitHub still has.
Forward ==
  /\ pull.updated <= pull'.updated /\ Tip <= Tip'
  /\ \A h \in DOMAIN trees : h \in DOMAIN trees' /\ trees'[h] = trees[h]
  /\ ~pull.open =>
       /\ ~pull'.open
       /\ merged'.commit = merged.commit /\ merged'.tree = merged.tree
       /\ merged'.parent = merged.parent /\ merged'.at = merged.at

\* Everything done to the pull request or its conversation stamps it.
LEMMA StampedStep ==
  ASSUME TypeOK, WorldInv, UNCHANGED <<clock, past, main, merged>>,
         NEW p, p = PullOf(p), p.open = pull.open, Stamped(p),
         List(comments'),
         \A i \in DOMAIN comments' : Stamps(comments'[i]) /\ comments'[i].updated <= clock,
         \A t \in DOMAIN past : Survives(comments', past[t].comments, t),
         List(trees'), \A h \in DOMAIN trees : h \in DOMAIN trees' /\ trees'[h] = trees[h]
  PROVE  WorldInv' /\ Forward /\ pull'.head = p.head
<1>1. /\ pull' = [head |-> p.head, body |-> p.body, open |-> p.open, updated |-> clock]
      /\ clock \in Nat /\ pull.updated \in 1 .. clock
  <2>1. pull' = [p EXCEPT !.updated = clock] /\ p = PullOf(p)
    BY DEF Stamped
  <2>2. clock \in Nat /\ pull.updated \in 1 .. clock
    BY BoundsAssumption DEF TypeOK, WorldInv, StampsAgree
  <2> QED BY <2>1, <2>2 DEF PullOf
<1>2. DOMAIN past = 1 .. clock - 1
  BY Lengths DEF TypeOK, WorldInv, Lists
<1>3. Lists'
  BY DEF WorldInv, Lists
<1>4. StampsAgree'
  <2>1. p.open \in BOOLEAN
    BY DEF WorldInv, StampsAgree
  <2> QED BY <1>1, <2>1 DEF StampsAgree, PullOf
<1>5. Held'
  BY <1>1, <1>2 DEF Held
<1>6. Surviving'
  BY DEF Surviving
<1>7. MergeInv'
  BY <1>1 DEF WorldInv, MergeInv
<1>8. Tip' = Tip /\ Tip \in Nat
  BY Lengths DEF Tip, WorldInv, Lists
<1> QED BY <1>1, <1>3, <1>4, <1>5, <1>6, <1>7, <1>8 DEF WorldInv, Forward

LEMMA OldComments ==
  ASSUME WorldInv, UNCHANGED <<clock, past, comments>>, clock \in Nat
  PROVE  /\ List(comments')
         /\ \A i \in DOMAIN comments' : Stamps(comments'[i]) /\ comments'[i].updated <= clock
         /\ \A t \in DOMAIN past : Survives(comments', past[t].comments, t)
<1>1. \A i \in DOMAIN comments : Stamps(comments[i]) /\ comments[i].updated <= pull.updated
  BY DEF WorldInv, StampsAgree
<1>2. pull.updated \in Nat /\ pull.updated <= clock
  BY DEF WorldInv, StampsAgree
<1>3. \A i \in DOMAIN comments : comments[i].updated <= clock
  BY <1>1, <1>2 DEF Stamps
<1> QED BY <1>1, <1>3 DEF WorldInv, Lists, Surviving

\* The shape of the state when only GitHub moves.
LEMMA SameShape ==
  ASSUME TypeOK, UNCHANGED <<clock, past, readAt, owner>>, foreign' \in 0 .. MaxForeign,
         pull'.head \in DOMAIN trees', Len(trees') <= MaxHeads
  PROVE  TypeOK'
BY DEF TypeOK, owner, COMPONENTS

LEMMA OthersAct ==
  ASSUME TypeOK, Foreign
  PROVE  foreign' \in 0 .. MaxForeign /\ UNCHANGED <<clock, past, readAt, owner>> /\ clock \in Nat
<1>1. MaxForeign \in Nat /\ foreign \in 0 .. MaxForeign /\ clock \in Nat
  BY BoundsAssumption DEF TypeOK
<1>2. foreign < MaxForeign /\ foreign' = foreign + 1 /\ UNCHANGED <<clock, owner, history>>
  BY DEF Foreign
<1>3. foreign' \in 0 .. MaxForeign
  BY <1>1, <1>2
<1> QED BY <1>1, <1>2, <1>3 DEF history

LEMMA AuthorsSteps ==
  ASSUME TypeOK, WorldInv,
         \/ EditBody \/ \E h \in 1 .. MaxHeads : h <= Len(trees) + 1 /\ Push(h)
  PROVE  TypeOK' /\ WorldInv' /\ Forward
<1>1. List(trees) /\ List(comments) /\ pull = PullOf(pull)
  BY DEF WorldInv, Lists, StampsAgree
<1>2. CASE EditBody
  <2> DEFINE p == [pull EXCEPT !.body = 1 - @]
  <2>1. p = PullOf(p) /\ p.open = pull.open /\ p.head = pull.head
    BY <1>1 DEF PullOf
  <2>2. /\ Stamped(p) /\ UNCHANGED <<clock, past, main, merged, comments, trees, owner, readAt>>
        /\ foreign' \in 0 .. MaxForeign /\ clock \in Nat
    BY <1>2, OthersAct DEF EditBody
  <2>3. WorldInv' /\ Forward /\ pull'.head = p.head
    <3> HIDE DEF p
    <3> QED BY <1>1, <2>1, <2>2, StampedStep, OldComments
  <2>4. pull'.head \in DOMAIN trees' /\ Len(trees') <= MaxHeads
    BY <2>1, <2>2, <2>3 DEF TypeOK
  <2> QED BY <2>2, <2>3, <2>4, SameShape
<1>3. ASSUME NEW h \in 1 .. MaxHeads, h <= Len(trees) + 1, Push(h)
      PROVE  TypeOK' /\ WorldInv' /\ Forward
  <2> DEFINE p == [pull EXCEPT !.head = h]
  <2>1. p = PullOf(p) /\ p.open = pull.open /\ p.head = h
    BY <1>1 DEF PullOf
  <2>2. /\ Stamped(p) /\ UNCHANGED <<clock, past, main, merged, comments, owner, readAt>>
        /\ foreign' \in 0 .. MaxForeign /\ clock \in Nat
        /\ trees' = IF h \in DOMAIN trees THEN trees ELSE Append(trees, Last(main) \cup {h})
    BY <1>3, OthersAct DEF Push
  <2>3. /\ List(trees') /\ \A q \in DOMAIN trees : q \in DOMAIN trees' /\ trees'[q] = trees[q]
        /\ h \in DOMAIN trees' /\ Len(trees') <= MaxHeads
    <3>1. Len(trees) \in Nat /\ DOMAIN trees = 1 .. Len(trees) /\ Len(trees) <= MaxHeads
      BY <1>1, Lengths DEF TypeOK
    <3>2. CASE h \in DOMAIN trees
      BY <1>1, <2>2, <3>1, <3>2
    <3>3. CASE h \notin DOMAIN trees
      <4>1. h = Len(trees) + 1
        BY <1>3, <3>1, <3>3
      <4> DEFINE e == Last(main) \cup {h}
      <4>2. trees' = Append(trees, e)
        BY <2>2, <3>3
      <4> HIDE DEF e
      <4>3. /\ List(trees') /\ Len(trees') = Len(trees) + 1 /\ DOMAIN trees' = 1 .. Len(trees) + 1
            /\ \A q \in DOMAIN trees : trees'[q] = trees[q]
        BY <1>1, <4>2, Appended
      <4> QED BY <1>3, <3>1, <4>1, <4>3
    <3> QED BY <3>2, <3>3
  <2>4. WorldInv' /\ Forward /\ pull'.head = p.head
    <3> HIDE DEF p
    <3> QED BY <1>1, <2>1, <2>2, <2>3, StampedStep, OldComments
  <2> HIDE DEF p
  <2> QED BY <2>1, <2>2, <2>3, <2>4, SameShape
<1> QED BY <1>2, <1>3

\* A comment is added, changed or taken back.
LEMMA CommentSteps ==
  ASSUME TypeOK, WorldInv,
         \/ Remark \/ Publish
         \/ \E i \in DOMAIN comments : Amend(i) \/ Retract(i)
  PROVE  TypeOK' /\ WorldInv' /\ Forward
<1>1. /\ List(trees) /\ List(comments) /\ pull = PullOf(pull)
      /\ clock \in Nat /\ pull.updated \in 1 .. clock
      /\ \A t \in DOMAIN past : /\ t \in Nat /\ t < clock /\ List(past[t].comments)
                                /\ Survives(comments, past[t].comments, t)
      /\ \A j \in DOMAIN comments : Stamps(comments[j]) /\ comments[j].updated <= clock
  <2>1. clock \in Nat /\ pull.updated \in 1 .. clock
    BY BoundsAssumption DEF TypeOK, WorldInv, StampsAgree
  <2>2. DOMAIN past = 1 .. clock - 1
    BY Lengths DEF TypeOK, WorldInv, Lists
  <2>3. \A j \in DOMAIN comments : Stamps(comments[j]) /\ comments[j].updated <= clock
    <3>1. \A j \in DOMAIN comments : Stamps(comments[j]) /\ comments[j].updated <= pull.updated
      BY DEF WorldInv, StampsAgree
    <3>2. \A j \in DOMAIN comments : comments[j].updated \in Nat
      BY <3>1 DEF Stamps
    <3> QED BY <2>1, <3>1, <3>2
  <2> QED BY <2>1, <2>2, <2>3 DEF WorldInv, Lists, StampsAgree, Surviving
<1>2. ASSUME NEW by, NEW says, NewComment(by, says), UNCHANGED <<clock, past>>
      PROVE  WorldInv' /\ Forward /\ pull'.head = pull.head /\ trees' = trees
  <2> DEFINE e == [id |-> lastId', by |-> by, says |-> says, rev |-> 0,
                   created |-> clock, updated |-> clock]
  <2>1. /\ comments' = Append(comments, e) /\ Stamped(pull)
        /\ UNCHANGED <<clock, past, main, trees, merged>>
    BY <1>2 DEF NewComment
  <2>2. Stamps(e) /\ e.created = clock /\ e.updated = clock
    BY <1>1 DEF Stamps
  <2> HIDE DEF e
  <2>3. /\ List(comments')
        /\ \A i \in DOMAIN comments' : Stamps(comments'[i]) /\ comments'[i].updated <= clock
    <3>1. /\ DOMAIN comments = 1 .. Len(comments) /\ Len(comments) \in Nat
          /\ DOMAIN comments' = 1 .. Len(comments) + 1 /\ List(comments')
          /\ \A i \in DOMAIN comments : comments'[i] = comments[i]
          /\ comments'[Len(comments) + 1] = e
      BY <1>1, <2>1, Appended, Lengths
    <3>2. \A i \in DOMAIN comments' : i \in DOMAIN comments \/ i = Len(comments) + 1
      BY <3>1
    <3> QED BY <1>1, <2>2, <3>1, <3>2
  <2>4. \A t \in DOMAIN past : Survives(comments', past[t].comments, t)
    BY <1>1, <2>1, <2>2, SaidLater
  <2> QED BY <1>1, <2>1, <2>3, <2>4, StampedStep
<1>3. ASSUME NEW i \in DOMAIN comments, Amend(i)
      PROVE  WorldInv' /\ Forward /\ pull'.head = pull.head /\ trees' = trees
  <2> DEFINE e == [id |-> comments[i].id, by |-> comments[i].by, says |-> comments[i].says, rev |-> 1,
                   created |-> comments[i].created, updated |-> clock]
  <2>1. /\ comments' = [comments EXCEPT ![i].rev = 1, ![i].updated = clock] /\ Stamped(pull)
        /\ UNCHANGED <<clock, past, main, trees, merged>>
    BY <1>3, OthersAct DEF Amend
  <2>2. comments' = [comments EXCEPT ![i] = e]
    <3>1. comments[i] = [id |-> comments[i].id, by |-> comments[i].by, says |-> comments[i].says,
                         rev |-> comments[i].rev, created |-> comments[i].created,
                         updated |-> comments[i].updated]
      BY <1>1 DEF Stamps
    <3> DEFINE c == comments[i]
               d == [c EXCEPT !.rev = 1]
    <3>2. PICK id, by, says, rev, created, updated :
            c = [id |-> id, by |-> by, says |-> says, rev |-> rev, created |-> created, updated |-> updated]
      BY <3>1
    <3>3. d = [id |-> id, by |-> by, says |-> says, rev |-> 1, created |-> created, updated |-> updated]
      <4> HIDE DEF c
      <4> QED BY <3>2
    <3>4. e = [id |-> id, by |-> by, says |-> says, rev |-> 1, created |-> created, updated |-> clock]
      BY <3>2
    <3>5. e = [d EXCEPT !.updated = clock]
      <4> HIDE DEF c, d, e
      <4> QED BY <3>3, <3>4
    <3>6. comments' = [comments EXCEPT ![i] = [d EXCEPT !.updated = clock]]
      BY <1>1, <2>1, Lengths
    <3> HIDE DEF d, e
    <3> QED BY <3>5, <3>6
  <2>3. Stamps(e) /\ e.created = comments[i].created /\ e.updated = clock
    BY <1>1 DEF Stamps
  <2> HIDE DEF e
  <2>4. /\ List(comments')
        /\ \A j \in DOMAIN comments' : Stamps(comments'[j]) /\ comments'[j].updated <= clock
    <3>1. /\ DOMAIN comments' = DOMAIN comments /\ List(comments')
          /\ \A j \in DOMAIN comments : comments'[j] = IF j = i THEN e ELSE comments[j]
      BY <1>1, <2>2, Replaced
    <3> QED BY <1>1, <2>3, <3>1
  <2>5. \A t \in DOMAIN past : Survives(comments', past[t].comments, t)
    BY <1>1, <2>2, <2>3, AmendedLater
  <2> QED BY <1>1, <2>1, <2>4, <2>5, StampedStep
<1>4. ASSUME NEW i \in DOMAIN comments, Retract(i)
      PROVE  WorldInv' /\ Forward /\ pull'.head = pull.head /\ trees' = trees
  <2>1. /\ comments' = RemoveAt(comments, i) /\ Stamped(pull)
        /\ UNCHANGED <<clock, past, main, trees, merged>>
    BY <1>4, OthersAct DEF Retract
  <2>2. /\ List(comments')
        /\ \A j \in DOMAIN comments' : Stamps(comments'[j]) /\ comments'[j].updated <= clock
    <3>1. /\ DOMAIN comments = 1 .. Len(comments) /\ Len(comments) \in Nat
          /\ DOMAIN comments' = 1 .. Len(comments) - 1 /\ List(comments')
          /\ \A j \in 1 .. Len(comments) - 1 :
               comments'[j] = IF j < i THEN comments[j] ELSE comments[j + 1]
      BY <1>1, <2>1, Removed, Lengths
    <3>2. \A j \in DOMAIN comments' : \E k \in DOMAIN comments : comments'[j] = comments[k]
      BY <3>1
    <3> QED BY <1>1, <3>1, <3>2
  <2>3. \A t \in DOMAIN past : Survives(comments', past[t].comments, t)
    BY <1>1, <2>1, RetractedLater
  <2> QED BY <1>1, <2>1, <2>2, <2>3, StampedStep
<1>5. /\ foreign' \in 0 .. MaxForeign /\ UNCHANGED <<clock, past, readAt, owner>>
  <2>1. Publish \/ Foreign
    BY DEF Remark, Amend, Retract
  <2>2. CASE Publish
    BY <2>2 DEF Publish, history, TypeOK
  <2> QED BY <2>1, <2>2, OthersAct
<1>6. WorldInv' /\ Forward /\ pull'.head = pull.head /\ trees' = trees
  BY <1>2, <1>3, <1>4, <1>5 DEF Remark, Publish
<1>7. TypeOK'
  BY <1>5, <1>6, SameShape DEF TypeOK
<1> QED BY <1>6, <1>7

\* Main moves on, by another pull request or by this one.
LEMMA MainGrows ==
  ASSUME WorldInv, NEW e, main' = Append(main, e)
  PROVE  /\ List(main') /\ Tip \in Nat /\ Tip' = Tip + 1 /\ Tip' \in DOMAIN main' /\ main'[Tip'] = e
         /\ \A i \in DOMAIN main : i \in DOMAIN main' /\ main'[i] = main[i]
<1>1. List(main)
  BY DEF WorldInv, Lists
<1>2. /\ Len(main) \in Nat /\ DOMAIN main = 1 .. Len(main)
      /\ List(main') /\ Len(main') = Len(main) + 1 /\ DOMAIN main' = 1 .. Len(main) + 1
      /\ \A i \in DOMAIN main : main'[i] = main[i]
      /\ main'[Len(main) + 1] = e
  BY <1>1, Lengths, Appended
<1> QED BY <1>2 DEF Tip

LEMMA MainMoves ==
  ASSUME TypeOK, WorldInv, MoveMain
  PROVE  TypeOK' /\ WorldInv' /\ Forward
<1> DEFINE e == IF Other \in Last(main) THEN Last(main) \ {Other} ELSE Last(main) \cup {Other}
<1>1. /\ main' = Append(main, e) /\ UNCHANGED <<clock, past, readAt, owner, trees, pull, comments, merged>>
      /\ foreign' \in 0 .. MaxForeign
  BY OthersAct DEF MoveMain
<1> HIDE DEF e
<1>2. /\ List(main') /\ Tip \in Nat /\ Tip' = Tip + 1
      /\ \A i \in DOMAIN main : i \in DOMAIN main' /\ main'[i] = main[i]
  BY <1>1, MainGrows
<1>3. Lists' /\ StampsAgree' /\ Held' /\ Surviving'
  BY <1>1, <1>2 DEF WorldInv, Lists, StampsAgree, Held, Surviving
<1>4. MergeInv'
  BY <1>1, <1>2 DEF WorldInv, MergeInv
<1>5. WorldInv' /\ Forward
  <2>1. pull.updated \in Nat
    BY DEF WorldInv, StampsAgree
  <2>2. (\A t \in DOMAIN past : past[t].tip \in 1 .. Tip)'
    BY <1>1, <1>2 DEF WorldInv
  <2> QED BY <1>1, <1>2, <1>3, <1>4, <2>1, <2>2 DEF WorldInv, Forward
<1>6. TypeOK'
  BY <1>1, SameShape DEF TypeOK
<1> QED BY <1>5, <1>6

LEMMA Reopened ==
  ASSUME NEW p, NEW v, p = PullOf(p)
  PROVE  [p EXCEPT !.open = v] = [head |-> p.head, body |-> p.body, open |-> v, updated |-> p.updated]
BY DEF PullOf

\* Nobody merges a pull request a second time.
LEMMA SquashStep ==
  ASSUME TypeOK, WorldInv, UNCHANGED <<clock, past>>, NEW by, Squash(by)
  PROVE  WorldInv' /\ Forward /\ pull'.head = pull.head /\ trees' = trees /\ ~pull'.open
<1> DEFINE e == Last(main) \cup {pull.head}
<1>1. /\ main' = Append(main, e) /\ pull.open /\ UNCHANGED <<trees, comments>>
      /\ merged' = [commit |-> Len(main'), tree |-> Last(main'), parent |-> Tip, by |-> by,
                    head |-> pull.head, at |-> clock, checks |-> Nothing]
  BY DEF Squash
<1> HIDE DEF e
<1>2. /\ List(main') /\ Tip \in Nat /\ Tip' = Tip + 1 /\ Tip' \in DOMAIN main' /\ main'[Tip'] = e
      /\ \A i \in DOMAIN main : i \in DOMAIN main' /\ main'[i] = main[i]
  BY <1>1, MainGrows
<1>3. /\ pull = PullOf(pull) /\ clock \in Nat \ {0} /\ pull.updated \in 1 .. clock
      /\ DOMAIN past = 1 .. clock - 1
  BY BoundsAssumption, Lengths DEF TypeOK, WorldInv, StampsAgree, Lists
<1>4. pull' = [head |-> pull.head, body |-> pull.body, open |-> FALSE, updated |-> clock]
  <2> DEFINE d == [pull EXCEPT !.open = FALSE]
  <2>1. d = [head |-> pull.head, body |-> pull.body, open |-> FALSE, updated |-> pull.updated]
    BY <1>3, Reopened
  <2>2. pull' = [d EXCEPT !.updated = clock]
    BY DEF Squash, Stamped
  <2> HIDE DEF d
  <2> QED BY <2>1, <2>2
<1>5. Lists'
  BY <1>1, <1>2 DEF WorldInv, Lists
<1>6. StampsAgree'
  <2>1. \A i \in DOMAIN comments : Stamps(comments[i]) /\ comments[i].updated <= pull.updated
    BY DEF WorldInv, StampsAgree
  <2>2. \A i \in DOMAIN comments : comments[i].updated <= clock
    BY <1>3, <2>1 DEF Stamps
  <2> QED BY <1>1, <1>3, <1>4, <2>1, <2>2 DEF StampsAgree, PullOf
<1>7. Held'
  BY <1>3, <1>4 DEF Held
<1>8. Surviving'
  BY <1>1 DEF WorldInv, Surviving
<1>9. (\A t \in DOMAIN past : past[t].tip \in 1 .. Tip)'
  BY <1>2 DEF WorldInv
<1>10. MergeInv'
  <2>1. /\ merged'.commit = Tip' /\ merged'.tree = main'[Tip'] /\ merged'.parent = Tip
        /\ merged'.at = clock
        /\ merged' = [commit |-> merged'.commit, tree |-> merged'.tree, parent |-> merged'.parent,
                      by |-> merged'.by, head |-> merged'.head, at |-> merged'.at,
                      checks |-> merged'.checks]
    BY <1>1 DEF Tip, Last
  <2>2. \A t \in DOMAIN past : past[t].tip <= Tip
    BY <1>2 DEF WorldInv
  <2> QED BY <1>2, <1>3, <1>4, <2>1, <2>2 DEF MergeInv
<1> QED BY <1>1, <1>2, <1>3, <1>4, <1>5, <1>6, <1>7, <1>8, <1>9, <1>10 DEF WorldInv, Forward

\* Settings and checks are no part of the conversation.
LEMMA AsideSteps ==
  ASSUME TypeOK, WorldInv, Reconfigure \/ PostChecks
  PROVE  TypeOK' /\ WorldInv' /\ Forward
<1>1. /\ UNCHANGED <<clock, past, readAt, owner, main, trees, pull, comments>>
      /\ foreign' \in 0 .. MaxForeign
  BY OthersAct DEF Reconfigure, PostChecks, history, TypeOK
<1>2. Lists' /\ StampsAgree' /\ Held' /\ Surviving' /\ Tip' = Tip
  BY <1>1 DEF WorldInv, Lists, StampsAgree, Held, Surviving, Tip
<1>3. /\ MergeInv'
      /\ ~pull.open =>
           /\ merged'.commit = merged.commit /\ merged'.tree = merged.tree
           /\ merged'.parent = merged.parent /\ merged'.at = merged.at
  <2>1. CASE Reconfigure
    BY <1>1, <2>1 DEF Reconfigure, WorldInv, MergeInv
  <2>2. CASE PostChecks
    <3>1. ~pull.open /\ merged' = [merged EXCEPT !.checks = clock]
      BY <2>2 DEF PostChecks, WorldInv, MergeInv
    <3>2. merged = [commit |-> merged.commit, tree |-> merged.tree, parent |-> merged.parent,
                    by |-> merged.by, head |-> merged.head, at |-> merged.at,
                    checks |-> merged.checks]
      BY <3>1 DEF WorldInv, MergeInv
    <3>3. merged' = [commit |-> merged.commit, tree |-> merged.tree, parent |-> merged.parent,
                     by |-> merged.by, head |-> merged.head, at |-> merged.at, checks |-> clock]
      BY <3>1, <3>2
    <3>4. /\ merged'.commit = merged.commit /\ merged'.tree = merged.tree
          /\ merged'.parent = merged.parent /\ merged'.at = merged.at
          /\ merged' = [commit |-> merged'.commit, tree |-> merged'.tree, parent |-> merged'.parent,
                        by |-> merged'.by, head |-> merged'.head, at |-> merged'.at,
                        checks |-> merged'.checks]
      BY <3>3
    <3> QED BY <1>1, <3>1, <3>4 DEF WorldInv, MergeInv
  <2> QED BY <2>1, <2>2
<1>4. pull.updated \in Nat /\ Tip \in Nat
  BY Lengths DEF WorldInv, StampsAgree, Lists, Tip
<1>5. TypeOK'
  BY <1>1, SameShape DEF TypeOK
<1> QED BY <1>1, <1>2, <1>3, <1>4, <1>5 DEF WorldInv, Forward

\* A tick that ends leaves the world as it then is behind.
LEMMA TickStep ==
  ASSUME TypeOK, WorldInv, Tick
  PROVE  /\ TypeOK' /\ WorldInv' /\ Forward
         /\ DOMAIN past = 1 .. clock - 1 /\ DOMAIN past' = 1 .. clock /\ clock \in Nat
         /\ \A t \in DOMAIN past : past'[t] = past[t]
         /\ past'[clock] = World
<1>1. /\ clock' = clock + 1 /\ clock < MaxTime /\ past' = Append(past, World)
      /\ UNCHANGED <<github, foreign, owner, readAt>>
  BY DEF Tick
<1>2. /\ clock \in 1 .. MaxTime /\ MaxTime \in Nat /\ Len(past) = clock - 1 /\ List(past)
      /\ pull.updated \in 1 .. clock
  BY BoundsAssumption DEF TypeOK, WorldInv, Lists, StampsAgree
<1>3. /\ DOMAIN past = 1 .. clock - 1 /\ DOMAIN past' = 1 .. clock /\ List(past') /\ Len(past') = clock
      /\ \A t \in DOMAIN past : past'[t] = past[t]
      /\ past'[clock] = World
  BY <1>1, <1>2, Lengths, Appended
<1>4. \A t \in DOMAIN past' : t \in DOMAIN past \/ t = clock
  BY <1>2, <1>3
<1>5. World.pull = pull /\ World.comments = comments /\ World.tip = Tip
  BY DEF World
<1>6. /\ UNCHANGED <<main, trees, pull, comments, merged, stage, draft, pre, start, end, post, readAt>>
      /\ Tip' = Tip
  BY <1>1 DEF github, owner, Tip
<1>7. TypeOK'
  <2>1. clock' \in 1 .. MaxTime /\ Len(past') = clock' - 1 /\ clock \in Nat
    BY <1>1, <1>2, <1>3
  <2>2. readAt \in 1 .. clock'
    BY <1>1, <2>1 DEF TypeOK
  <2>3. IF stage = "pre" THEN pre = Nothing ELSE pre.cutoff \in 1 .. clock'
    BY <1>1, <2>1 DEF TypeOK
  <2>4. IF stage \in {"pre", "start"} THEN start = Nothing ELSE start.cutoff \in pre.cutoff .. clock'
    BY <1>1, <2>1, <2>3 DEF TypeOK
  <2>5. IF stage \in {"pre", "start", "end"} THEN end = Nothing ELSE end.cutoff \in start.cutoff .. clock'
    BY <1>1, <2>1, <2>3, <2>4 DEF TypeOK
  <2>6. IF stage # "done" THEN post = Nothing ELSE post.cutoff \in end.cutoff .. clock'
    BY <1>1, <2>1, <2>3, <2>4, <2>5 DEF TypeOK
  <2> QED BY <1>1, <1>6, <2>1, <2>2, <2>3, <2>4, <2>5, <2>6 DEF TypeOK, COMPONENTS
<1>8. Lists'
  BY <1>3, <1>4, <1>5, <1>6 DEF WorldInv, Lists
<1>9. StampsAgree'
  BY <1>1, <1>2, <1>6 DEF WorldInv, StampsAgree
<1>10. Held'
  BY <1>3, <1>4, <1>5, <1>6 DEF WorldInv, Held
<1>11. Surviving'
  <2>1. Survives(comments, comments, clock)
    <3>1. Len(comments) \in Nat /\ DOMAIN comments = 1 .. Len(comments)
      BY Lengths DEF WorldInv, Lists
    <3> QED BY <3>1 DEF Survives
  <2> QED BY <1>3, <1>4, <1>5, <1>6, <2>1 DEF WorldInv, Surviving
<1>12. MergeInv'
  BY <1>1, <1>2, <1>3, <1>4, <1>6 DEF WorldInv, MergeInv
<1>13. (Tip >= 1 /\ \A t \in DOMAIN past : past[t].tip \in 1 .. Tip)'
  <2>1. Tip \in Nat /\ Tip >= 1
    BY Lengths DEF WorldInv, Lists, Tip
  <2> QED BY <1>3, <1>4, <1>5, <1>6, <2>1 DEF WorldInv
<1>14. Forward
  <2>1. pull.updated \in Nat /\ Tip \in Nat
    BY Lengths DEF WorldInv, StampsAgree, Lists, Tip
  <2> QED BY <1>6, <2>1 DEF Forward
<1> QED BY <1>2, <1>3, <1>7, <1>8, <1>9, <1>10, <1>11, <1>12, <1>13, <1>14 DEF WorldInv

-----------------------------------------------------------------------------
\* The owner's own.

LEMMA PastIsBehind ==
  ASSUME TypeOK, WorldInv
  PROVE  DOMAIN past = 1 .. clock - 1 /\ clock \in Nat \ {0} /\ readAt \in 1 .. clock
BY BoundsAssumption, Lengths DEF TypeOK, WorldInv, Lists

\* What others do leaves what was read as true as it was.
LEMMA OwnerStays ==
  ASSUME IInv, WorldInv', Forward, UNCHANGED <<owner, readAt>>,
         \A t \in DOMAIN past : t \in DOMAIN past' /\ past'[t] = past[t],
         \A t \in DOMAIN past' : t \in DOMAIN past \/ past'[t].tip = Tip,
         habit # "any" /\ DOMAIN draft # {} => clock' = clock
  PROVE  OwnerInv'
<1>1. /\ UNCHANGED <<habit, stage, draft, pre, start, end, post, readAt>>
      /\ pull.updated \in Nat /\ Tip \in Nat /\ Tip' \in Nat /\ pull'.updated \in Nat
      /\ pull.updated <= pull'.updated /\ Tip <= Tip'
      /\ \A h \in DOMAIN trees : h \in DOMAIN trees' /\ trees'[h] = trees[h]
  BY Lengths DEF owner, IInv, WorldInv, StampsAgree, Lists, Tip, Forward
<1>2. PreInv'
  <2>1. stage = "pre" /\ "pull" \in DOMAIN draft =>
          draft["pull"].head \in DOMAIN trees' /\ draft["pull"].base \in 1 .. Tip'
    BY <1>1 DEF IInv, OwnerInv, PreInv
  <2>2. ASSUME stage # "pre"
        PROVE  /\ List(pre.bundles["comments"])
               /\ pre.head \in DOMAIN trees' /\ pre.tree = trees'[pre.head] /\ pre.base \in 1 .. Tip'
               /\ \A t \in DOMAIN past' : t >= pre.cutoff => past'[t].tip >= pre.base
    BY <1>1, <2>2 DEF IInv, OwnerInv, PreInv
  <2>3. stage = "pre" /\ "comments" \in DOMAIN draft => List(draft["comments"])
    BY DEF IInv, OwnerInv, PreInv
  <2>4. (stage = "pre" /\ "comments" \in DOMAIN draft => List(draft["comments"]))'
    BY <1>1, <2>3 DEF List
  <2> QED BY <1>1, <2>1, <2>2, <2>4 DEF PreInv, List
<1>3. StartInv'
  <2>1. ASSUME NEW d, PageRead(d), \A i \in DOMAIN d : d[i].comment.updated <= pull.updated
        PROVE  \A i \in DOMAIN d : d[i].comment.updated <= pull'.updated
    <3>1. \A i \in DOMAIN d : d[i].comment.updated \in Nat
      BY <2>1 DEF PageRead, Stamps
    <3> QED BY <1>1, <2>1, <3>1
  <2>2. StartInv
    BY DEF IInv, OwnerInv
  <2>3. ASSUME stage = "start", "comments" \in DOMAIN draft
        PROVE  /\ PageRead(draft["comments"])
               /\ \A i \in DOMAIN draft["comments"] :
                    draft["comments"][i].comment.updated <= pull'.updated
    BY <2>1, <2>2, <2>3 DEF StartInv
  <2>4. ASSUME stage = "end"
        PROVE  \A i \in DOMAIN start.snapshot["comments"] :
                 start.snapshot["comments"][i].comment.updated <= pull'.updated
    BY <2>1, <2>2, <2>4 DEF StartInv, Late
  <2>5. stage \in Late =>
          /\ start.pre = pre /\ start.phase = "start" /\ DOMAIN start.snapshot = COMPONENTS("start")
          /\ PageRead(start.snapshot["comments"])
    BY <2>2 DEF StartInv
  <2> QED BY <1>1, <2>3, <2>4, <2>5 DEF StartInv
<1>4. \A t \in 1 .. readAt - 1 : past'[t] = past[t]
  <2>1. DOMAIN past = 1 .. clock - 1 /\ clock \in Nat \ {0} /\ readAt \in 1 .. clock
    BY PastIsBehind DEF IInv
  <2> QED BY <2>1
<1>5. \A d : LastReads(d) => LastReads(d)'
  BY <1>1, <1>4 DEF LastReads
<1>6. EndInv'
  BY <1>1, <1>5 DEF IInv, OwnerInv, EndInv
<1>7. PostInv'
  BY <1>1 DEF IInv, OwnerInv, PostInv, SameMerge, Forward
<1> QED BY <1>1, <1>2, <1>3, <1>6, <1>7 DEF IInv, OwnerInv

\* And what the owner does is none of GitHub's business, but for comments and merges.
LEMMA WorldStays ==
  ASSUME WorldInv, UNCHANGED <<clock, github, past>>
  PROVE  WorldInv'
BY DEF WorldInv, Lists, StampsAgree, Held, Surviving, MergeInv, github, Tip

LEMMA EarlierTicks ==
  ASSUME NEW n \in Nat, NEW a \in 1 .. n, NEW t \in 1 .. a - 1
  PROVE  t \in 1 .. n - 1
OBVIOUS

\* The first page of the conversation.
LEMMA PageIsRead ==
  ASSUME WorldInv, NEW r \in Response("comments")
  PROVE  /\ PageRead(r) /\ Len(r) \in Nat /\ Len(r) <= Len(comments) /\ Len(comments) \in Nat
         /\ DOMAIN r = 1 .. Len(r)
         /\ \A i \in DOMAIN r : i \in DOMAIN comments /\ r[i].comment = comments[i]
         /\ DOMAIN comments = 1 .. Len(comments)
<1> DEFINE s == [i \in DOMAIN comments |-> Native(comments[i], "list")]
<1>1. r = FirstPage(s)
  BY DEF Response
<1>2. Len(comments) \in Nat /\ DOMAIN comments = 1 .. Len(comments)
  BY Lengths DEF WorldInv, Lists
<1>3. /\ DOMAIN s = DOMAIN comments /\ Len(s) = Len(comments)
      /\ \A i \in DOMAIN s : s[i].comment = comments[i]
  BY <1>2 DEF Native
<1>4. List(s)
  <2> DEFINE S == {s[i] : i \in DOMAIN s}
  <2>1. s = [i \in 1 .. Len(comments) |-> s[i]] /\ \A i \in 1 .. Len(comments) : s[i] \in S
    BY <1>2, <1>3
  <2> HIDE DEF s, S
  <2>2. s \in Seq(S)
    BY <1>2, <2>1
  <2> QED BY <2>2 DEF List, S
<1> HIDE DEF s
<1>5. /\ List(r) /\ Len(r) <= Len(s) /\ DOMAIN r = 1 .. Len(r) /\ Len(r) \in Nat
      /\ \A i \in DOMAIN r : r[i] = s[i]
  BY <1>1, <1>4, FirstPages
<1>6. \A i \in DOMAIN r : i \in DOMAIN comments /\ r[i].comment = comments[i]
  BY <1>2, <1>3, <1>5
<1>7. \A i \in DOMAIN r : Stamps(r[i].comment)
  BY <1>6 DEF WorldInv, StampsAgree
<1> QED BY <1>2, <1>3, <1>5, <1>6, <1>7 DEF PageRead

LEMMA DraftGrows ==
  ASSUME NEW l, NEW r, draft = [k \in DOMAIN draft |-> draft[k]], l \notin DOMAIN draft,
         draft' = [k \in DOMAIN draft \cup {l} |-> IF k = l THEN r ELSE draft[k]]
  PROVE  /\ DOMAIN draft' = DOMAIN draft \cup {l}
         /\ draft' = [k \in DOMAIN draft' |-> draft'[k]]
         /\ draft'[l] = r
         /\ \A k \in DOMAIN draft : draft'[k] = draft[k]
OBVIOUS

\* A read, at any stage.
LEMMA ReadStep ==
  ASSUME IInv, NEW l, Read(l)
  PROVE  IInv'
<1>1. /\ l \in COMPONENTS(stage) /\ l \notin DOMAIN draft
      /\ UNCHANGED <<clock, github, foreign, habit, stage, pre, start, end, post, past>>
      /\ readAt' = IF draft = NoResponses /\ stage # "post" THEN clock ELSE readAt
  BY DEF Read
<1>2. PICK r \in Response(l) : draft' = [k \in DOMAIN draft \cup {l} |-> IF k = l THEN r ELSE draft[k]]
  BY DEF Read
<1>3. draft = [k \in DOMAIN draft |-> draft[k]]
  BY DEF IInv, OwnerInv
<1>4. /\ DOMAIN draft' = DOMAIN draft \cup {l}
      /\ draft' = [k \in DOMAIN draft' |-> draft'[k]]
      /\ draft'[l] = r
      /\ \A k \in DOMAIN draft : draft'[k] = draft[k]
  BY <1>1, <1>2, <1>3, DraftGrows
<1>5. /\ DOMAIN past = 1 .. clock - 1 /\ clock \in Nat \ {0} /\ readAt \in 1 .. clock
      /\ readAt' \in 1 .. clock
  BY <1>1, PastIsBehind DEF IInv
<1>5a. \A t \in 1 .. readAt' - 1 : Survives(comments, past[t].comments, t)
  <2>1. ASSUME NEW t \in 1 .. readAt' - 1 PROVE t \in DOMAIN past
    <3>1. t \in 1 .. clock - 1
      BY <1>5, EarlierTicks
    <3> QED BY <1>5, <3>1
  <2> QED BY <2>1 DEF IInv, WorldInv, Surviving
<1>6. UNCHANGED <<main, trees, pull, comments, merged>> /\ Tip' = Tip
  BY <1>1 DEF github, Tip
<1>7. TypeOK'
  <2>1. DOMAIN draft \subseteq COMPONENTS(stage)
    BY DEF IInv, TypeOK
  <2> QED BY <1>1, <1>4, <1>5, <1>6, <2>1 DEF IInv, TypeOK, COMPONENTS
<1>8. WorldInv'
  BY <1>1, WorldStays DEF IInv
<1>9. PreInv'
  <2>1. ASSUME stage = "pre", "pull" \in DOMAIN draft'
        PROVE  draft'["pull"].head \in DOMAIN trees /\ draft'["pull"].base \in 1 .. Tip
    <3>1. CASE l = "pull"
      <4>1. draft'["pull"].head = pull.head /\ draft'["pull"].base = Tip
        BY <1>4, <3>1 DEF Response, PullResponse
      <4> QED BY <4>1, Lengths DEF IInv, TypeOK, WorldInv, Lists, Tip
    <3>2. CASE l # "pull"
      BY <1>4, <2>1, <3>2 DEF IInv, OwnerInv, PreInv
    <3> QED BY <3>1, <3>2
  <2>2. ASSUME stage = "pre", "comments" \in DOMAIN draft'
        PROVE  List(draft'["comments"])
    <3>1. CASE l = "comments"
      BY <1>2, <1>4, <3>1, PageIsRead DEF IInv, PageRead
    <3>2. CASE l # "comments"
      BY <1>4, <2>2, <3>2 DEF IInv, OwnerInv, PreInv
    <3> QED BY <3>1, <3>2
  <2> QED BY <1>1, <1>6, <2>1, <2>2 DEF IInv, OwnerInv, PreInv
<1>10. StartInv'
  <2>1. ASSUME stage = "start", "comments" \in DOMAIN draft'
        PROVE  /\ PageRead(draft'["comments"])
               /\ \A i \in DOMAIN draft'["comments"] : draft'["comments"][i].comment.updated <= pull.updated
    <3>1. CASE l = "comments"
      BY <1>2, <1>4, <3>1, PageIsRead DEF IInv, WorldInv, StampsAgree
    <3>2. CASE l # "comments"
      BY <1>4, <2>1, <3>2 DEF IInv, OwnerInv, StartInv
    <3> QED BY <3>1, <3>2
  <2> QED BY <1>1, <1>6, <2>1 DEF IInv, OwnerInv, StartInv
<1>11. EndInv'
  <2>1. draft = NoResponses <=> DOMAIN draft = {}
    BY <1>3 DEF NoResponses
  <2>2. ASSUME stage = "end", "pull" \in DOMAIN draft'
        PROVE  LET d == draft'["pull"] IN
               /\ d.updated \in Nat /\ d.open \in BOOLEAN
               /\ \A j \in DOMAIN start.snapshot["comments"] :
                    start.snapshot["comments"][j].comment.updated <= d.updated
               /\ \A t \in 1 .. readAt' - 1 : t >= d.updated =>
                    past[t].pull = PullOf(d) /\ Len(past[t].comments) = d.comments
    <3>1. CASE l = "pull"
      <4>1. draft'["pull"] = PullResponse
        BY <1>2, <1>4, <3>1 DEF Response
      <4>2. /\ draft'["pull"].updated = pull.updated /\ draft'["pull"].open = pull.open
            /\ draft'["pull"].comments = Len(comments) /\ PullOf(draft'["pull"]) = pull
        BY <4>1 DEF PullResponse, PullOf, IInv, WorldInv, StampsAgree
      <4>3. pull.updated \in Nat /\ pull.open \in BOOLEAN
        BY DEF IInv, WorldInv, StampsAgree
      <4>4. \A j \in DOMAIN start.snapshot["comments"] :
              start.snapshot["comments"][j].comment.updated <= pull.updated
        BY <2>2 DEF IInv, OwnerInv, StartInv
      <4>5. \A t \in 1 .. readAt' - 1 : t >= pull.updated =>
              past[t].pull = pull /\ past[t].comments = comments
        BY <1>5 DEF IInv, WorldInv, Held
      <4> QED BY <4>2, <4>3, <4>4, <4>5
    <3>2. CASE l # "pull"
      <4>1. "pull" \in DOMAIN draft /\ draft'["pull"] = draft["pull"]
        BY <1>4, <2>2, <3>2
      <4>2. readAt' = readAt
        BY <1>1, <2>1, <4>1
      <4> QED BY <2>2, <4>1, <4>2 DEF IInv, OwnerInv, EndInv, LastReads
    <3> QED BY <3>1, <3>2
  <2>3. ASSUME stage = "end", "comments" \in DOMAIN draft'
        PROVE  \A t \in 1 .. readAt' - 1 : Survives(Words(draft'["comments"]), past[t].comments, t)
    <3>1. CASE l = "comments"
      <4> DEFINE w == Words(draft'["comments"])
      <4>1. /\ DOMAIN w \subseteq DOMAIN comments
            /\ \A m \in DOMAIN w : m \in Nat /\ w[m] = comments[m] /\ \A j \in 1 .. m : j \in DOMAIN w
        <5>1. draft'["comments"] = r /\ r \in Response("comments")
          BY <1>2, <1>4, <3>1
        <5>2. /\ DOMAIN r = 1 .. Len(r) /\ Len(r) \in Nat
              /\ \A i \in DOMAIN r : i \in DOMAIN comments /\ r[i].comment = comments[i]
          BY <5>1, PageIsRead DEF IInv
        <5>3. DOMAIN w = 1 .. Len(r) /\ \A m \in DOMAIN w : w[m] = r[m].comment
          BY <5>1, <5>2 DEF Words
        <5> QED BY <5>2, <5>3
      <4> HIDE DEF w
      <4>2. \A t \in 1 .. readAt' - 1 : Survives(comments, past[t].comments, t)
        BY <1>5a
      <4>3. ASSUME NEW t \in 1 .. readAt' - 1 PROVE Survives(w, past[t].comments, t)
        <5>1. Survives(comments, past[t].comments, t)
          BY <4>2
        <5>2. ASSUME NEW m \in DOMAIN w, w[m].created <= t
              PROVE  /\ m <= Len(past[t].comments)
                     /\ m = Len(past[t].comments) =>
                          \A j \in 1 .. m : w[j].updated <= t => w[j] = past[t].comments[j]
          <6>1. m \in DOMAIN comments /\ comments[m].created <= t
            BY <4>1, <5>2
          <6>2. \A j \in 1 .. m : w[j] = comments[j]
            BY <4>1
          <6> QED BY <5>1, <6>1, <6>2 DEF Survives
        <5> QED BY <5>2 DEF Survives
      <4> QED BY <4>3 DEF w
    <3>2. CASE l # "comments"
      <4>1. "comments" \in DOMAIN draft /\ draft'["comments"] = draft["comments"]
        BY <1>4, <2>3, <3>2
      <4>2. readAt' = readAt
        BY <1>1, <2>1, <4>1
      <4> QED BY <2>3, <4>1, <4>2 DEF IInv, OwnerInv, EndInv, LastReads
    <3> QED BY <3>1, <3>2
  <2>4. ASSUME stage = "end" PROVE LastReads(draft)'
    BY <1>1, <2>2, <2>3, <2>4 DEF LastReads
  <2>5. ASSUME stage \in Sealed
        PROVE  (/\ end.pre = pre /\ end.phase = "end" /\ DOMAIN end.snapshot = COMPONENTS("end")
                /\ LastReads(end.snapshot)
                /\ habit # "any" => readAt = end.cutoff)'
    <3>1. stage = "post"
      BY <1>1, <2>5 DEF Sealed, COMPONENTS
    <3>2. readAt' = readAt
      BY <1>1, <3>1
    <3> QED BY <1>1, <2>5, <3>2 DEF IInv, OwnerInv, EndInv, LastReads, COMPONENTS
  <2>6. ASSUME habit # "any", stage \in {"pre", "start", "end"} PROVE readAt' = clock
    BY <1>1, <2>1, <2>6 DEF IInv, OwnerInv, EndInv
  <2> QED BY <1>1, <2>4, <2>5, <2>6 DEF EndInv
<1>12. PostInv'
  <2>1. ASSUME stage = "post" PROVE SameMerge(draft)'
    <3>1. CASE l = "merged"
      <4>1. r = merged
        BY <1>2, <3>1 DEF Response
      <4> QED BY <1>4, <1>6, <3>1, <4>1 DEF SameMerge
    <3>2. CASE l # "merged"
      BY <1>4, <1>6, <2>1, <3>2 DEF SameMerge, IInv, OwnerInv, PostInv
    <3> QED BY <3>1, <3>2
  <2>2. SameMerge(post.merge) => SameMerge(post.merge)'
    BY <1>1, <1>6 DEF SameMerge
  <2> QED BY <1>1, <1>6, <2>1, <2>2 DEF IInv, OwnerInv, PostInv
<1> QED BY <1>4, <1>7, <1>8, <1>9, <1>10, <1>11, <1>12 DEF IInv, OwnerInv

\* A package is complete.
LEMMA SealPreStep ==
  ASSUME IInv, SealPre
  PROVE  IInv'
<1>1. /\ stage = "pre" /\ stage' = "start" /\ draft' = NoResponses /\ DOMAIN draft = COMPONENTS("pre")
      /\ UNCHANGED <<clock, github, foreign, habit, past, readAt, start, end, post>>
      /\ pre' = [head |-> draft["pull"].head, base |-> draft["pull"].base,
                 tree |-> trees[draft["pull"].head], cutoff |-> clock, bundles |-> draft]
  BY DEF SealPre, Seal, Complete, history
<1>2. UNCHANGED <<main, trees, pull, merged>> /\ Tip' = Tip /\ DOMAIN draft' = {}
  BY <1>1 DEF github, Tip, NoResponses
<1>3. DOMAIN past = 1 .. clock - 1 /\ clock \in Nat \ {0}
  BY PastIsBehind DEF IInv
<1>4. TypeOK'
  BY <1>1, <1>2, <1>3 DEF IInv, TypeOK
<1>5. WorldInv'
  BY <1>1, WorldStays DEF IInv
<1>6. PreInv'
  BY <1>1, <1>2, <1>3 DEF IInv, OwnerInv, PreInv, COMPONENTS
<1>7. StartInv' /\ EndInv' /\ PostInv'
  BY <1>1, <1>2 DEF StartInv, EndInv, PostInv, Late, Sealed
<1> QED BY <1>1, <1>2, <1>4, <1>5, <1>6, <1>7 DEF IInv, OwnerInv, NoResponses

LEMMA SealStartStep ==
  ASSUME IInv, SealStart
  PROVE  IInv'
<1>1. /\ stage = "start" /\ stage' = "end" /\ draft' = NoResponses /\ DOMAIN draft = COMPONENTS("start")
      /\ UNCHANGED <<clock, github, foreign, habit, past, readAt, pre, end, post>>
      /\ start' = [phase |-> "start", pre |-> pre, snapshot |-> draft, cutoff |-> clock]
  BY DEF SealStart, Seal, Complete, history, Package
<1>2. UNCHANGED <<main, trees, pull, merged>> /\ Tip' = Tip /\ DOMAIN draft' = {}
  BY <1>1 DEF github, Tip, NoResponses
<1>3. DOMAIN past = 1 .. clock - 1 /\ clock \in Nat \ {0}
  BY PastIsBehind DEF IInv
<1>4. TypeOK'
  BY <1>1, <1>2, <1>3 DEF IInv, TypeOK
<1>5. WorldInv'
  BY <1>1, WorldStays DEF IInv
<1>6. PreInv'
  BY <1>1, <1>2 DEF IInv, OwnerInv, PreInv
<1>7. StartInv'
  BY <1>1, <1>2 DEF IInv, OwnerInv, StartInv, COMPONENTS
<1>8. EndInv' /\ PostInv'
  BY <1>1, <1>2 DEF EndInv, LastReads, PostInv, Sealed
<1> QED BY <1>1, <1>2, <1>4, <1>5, <1>6, <1>7, <1>8 DEF IInv, OwnerInv, NoResponses

LEMMA SealEndStep ==
  ASSUME IInv, SealEnd
  PROVE  IInv'
<1>1. /\ stage = "end" /\ stage' = "verify" /\ draft' = NoResponses /\ DOMAIN draft = COMPONENTS("end")
      /\ UNCHANGED <<clock, github, foreign, habit, past, readAt, pre, start, post>>
      /\ end' = [phase |-> "end", pre |-> pre, snapshot |-> draft, cutoff |-> clock]
  BY DEF SealEnd, Seal, Complete, history, Package
<1>2. UNCHANGED <<main, trees, pull, merged>> /\ Tip' = Tip /\ DOMAIN draft' = {}
  BY <1>1 DEF github, Tip, NoResponses
<1>3. DOMAIN past = 1 .. clock - 1 /\ clock \in Nat \ {0}
  BY PastIsBehind DEF IInv
<1>4. TypeOK'
  BY <1>1, <1>2, <1>3 DEF IInv, TypeOK
<1>5. WorldInv'
  BY <1>1, WorldStays DEF IInv
<1>6. PreInv'
  BY <1>1, <1>2 DEF IInv, OwnerInv, PreInv
<1>7. StartInv' /\ PostInv'
  BY <1>1, <1>2 DEF IInv, OwnerInv, StartInv, PostInv, Late, COMPONENTS
<1>8. EndInv'
  <2>1. LastReads(draft)
    BY <1>1 DEF IInv, OwnerInv, EndInv
  <2>2. end'.snapshot = draft /\ end'.cutoff = clock /\ end'.pre = pre /\ end'.phase = "end"
    BY <1>1
  <2>3. LastReads(end.snapshot)'
    BY <1>1, <2>1, <2>2 DEF LastReads
  <2>4. habit # "any" => readAt = clock
    BY <1>1 DEF IInv, OwnerInv, EndInv, COMPONENTS
  <2> QED BY <1>1, <1>2, <2>2, <2>3, <2>4 DEF EndInv, COMPONENTS
<1> QED BY <1>1, <1>2, <1>4, <1>5, <1>6, <1>7, <1>8 DEF IInv, OwnerInv, NoResponses

LEMMA SealPostStep ==
  ASSUME IInv, SealPost
  PROVE  IInv'
<1>1. /\ stage = "post" /\ stage' = "done" /\ draft' = NoResponses /\ DOMAIN draft = COMPONENTS("post")
      /\ UNCHANGED <<clock, github, foreign, habit, past, readAt, pre, start, end>>
      /\ post' = [phase |-> "post", pre |-> pre, snapshot |-> end.snapshot, merge |-> draft,
                  cutoff |-> clock]
  BY DEF SealPost, Seal, Complete, history
<1>2. UNCHANGED <<main, trees, pull, merged>> /\ Tip' = Tip /\ DOMAIN draft' = {}
  BY <1>1 DEF github, Tip, NoResponses
<1>3. DOMAIN past = 1 .. clock - 1 /\ clock \in Nat \ {0}
  BY PastIsBehind DEF IInv
<1>4. TypeOK'
  <2>1. end.cutoff \in start.cutoff .. clock /\ start.cutoff \in pre.cutoff .. clock /\ pre.cutoff \in 1 .. clock
    BY <1>1 DEF IInv, TypeOK
  <2> QED BY <1>1, <1>2, <1>3, <2>1 DEF IInv, TypeOK
<1>5. WorldInv'
  BY <1>1, WorldStays DEF IInv
<1>6. PreInv'
  BY <1>1, <1>2 DEF IInv, OwnerInv, PreInv
<1>7. StartInv'
  BY <1>1, <1>2 DEF IInv, OwnerInv, StartInv, Late, COMPONENTS
<1>8. EndInv'
  BY <1>1, <1>2 DEF IInv, OwnerInv, EndInv, LastReads, Sealed, COMPONENTS
<1>9. PostInv'
  BY <1>1, <1>2 DEF IInv, OwnerInv, PostInv, SameMerge, COMPONENTS
<1> QED BY <1>1, <1>2, <1>4, <1>5, <1>6, <1>7, <1>8, <1>9 DEF IInv, OwnerInv, NoResponses

\* On to the merge, or back to the beginning.
LEMMA VerifyStep ==
  ASSUME IInv, Verify
  PROVE  IInv'
<1>1. /\ stage = "verify" /\ stage' = "merge"
      /\ UNCHANGED <<clock, github, foreign, habit, past, readAt, draft, pre, start, end, post>>
  BY DEF Verify, history
<1>2. UNCHANGED <<main, trees, pull, merged>> /\ Tip' = Tip
  BY <1>1 DEF github, Tip
<1>3. TypeOK'
  BY <1>1, <1>2 DEF IInv, TypeOK, COMPONENTS
<1>4. WorldInv'
  BY <1>1, WorldStays DEF IInv
<1>5. PreInv' /\ StartInv'
  BY <1>1, <1>2 DEF IInv, OwnerInv, PreInv, StartInv, Late, COMPONENTS
<1>6. EndInv' /\ PostInv'
  BY <1>1, <1>2 DEF IInv, OwnerInv, EndInv, LastReads, PostInv, Sealed, COMPONENTS
<1> QED BY <1>1, <1>3, <1>4, <1>5, <1>6 DEF IInv, OwnerInv

LEMMA MergeByOwnerStep ==
  ASSUME IInv, MergeByOwner
  PROVE  IInv'
<1>1. /\ stage = "merge" /\ stage' = "post" /\ Squash("owner")
      /\ UNCHANGED <<clock, foreign, habit, past, readAt, draft, pre, start, end, post>>
  BY DEF MergeByOwner, history
<1>2. WorldInv' /\ Forward /\ pull'.head = pull.head /\ trees' = trees /\ ~pull'.open
  BY <1>1, SquashStep DEF IInv
<1>3. DOMAIN draft = {}
  BY <1>1 DEF IInv, TypeOK, COMPONENTS
<1>4. TypeOK'
  BY <1>1, <1>2, <1>3 DEF IInv, TypeOK
<1>5. PreInv'
  <2>1. Tip \in Nat /\ Tip' \in Nat /\ Tip <= Tip'
    BY <1>2, Lengths DEF IInv, WorldInv, Lists, Tip, Forward
  <2>2. pre.base \in 1 .. Tip'
    BY <1>1, <2>1 DEF IInv, OwnerInv, PreInv
  <2> QED BY <1>1, <1>2, <2>2 DEF IInv, OwnerInv, PreInv
<1>6. StartInv' /\ EndInv' /\ PostInv'
  <2>1. StartInv'
    BY <1>1 DEF IInv, OwnerInv, StartInv, Late, COMPONENTS
  <2>2. EndInv'
    BY <1>1 DEF IInv, OwnerInv, EndInv, LastReads, Sealed, COMPONENTS
  <2>3. PostInv'
    BY <1>1, <1>2, <1>3 DEF PostInv, SameMerge
  <2> QED BY <2>1, <2>2, <2>3
<1> QED BY <1>1, <1>2, <1>4, <1>5, <1>6 DEF IInv, OwnerInv

LEMMA RestartStep ==
  ASSUME IInv, Restart
  PROVE  IInv'
<1>1. /\ stage \in {"start", "end", "verify", "merge"} /\ stage' = "pre" /\ draft' = NoResponses
      /\ pre' = Nothing /\ start' = Nothing /\ end' = Nothing
      /\ UNCHANGED <<clock, github, foreign, habit, past, readAt, post>>
  BY DEF Restart, Refused, history
<1>2. UNCHANGED <<main, trees, pull, merged>> /\ DOMAIN draft' = {}
  BY <1>1 DEF github, NoResponses
<1>3. TypeOK'
  BY <1>1, <1>2 DEF IInv, TypeOK
<1>4. WorldInv'
  BY <1>1, WorldStays DEF IInv
<1>5. PreInv' /\ StartInv' /\ EndInv' /\ PostInv'
  BY <1>1, <1>2 DEF PreInv, StartInv, EndInv, PostInv, Late, Sealed
<1> QED BY <1>1, <1>2, <1>3, <1>4, <1>5 DEF IInv, OwnerInv, NoResponses

-----------------------------------------------------------------------------
LEMMA InitInv == Init => IInv
<1> SUFFICES ASSUME Init PROVE IInv
  OBVIOUS
<1>1. /\ past = <<>> /\ DOMAIN past = {} /\ Len(past) = 0 /\ List(past)
      /\ clock = 1 /\ readAt = 1 /\ foreign = 0
  BY DEF Init, List
<1>2. /\ DOMAIN main = {1} /\ Tip = 1 /\ List(main) /\ DOMAIN trees = {1} /\ Len(trees) = 1 /\ List(trees)
  BY DEF Init, Tip, List
<1>3. /\ DOMAIN comments = {1} /\ Len(comments) = 1 /\ List(comments)
      /\ comments[1] = [id |-> 1, by |-> "other", says |-> Nothing, rev |-> 0, created |-> 1, updated |-> 1]
  BY DEF Init, List
<1>4. /\ pull = [head |-> 1, body |-> 0, open |-> TRUE, updated |-> 1] /\ merged = Nothing
      /\ stage = "pre" /\ draft = NoResponses /\ DOMAIN draft = {}
      /\ pre = Nothing /\ start = Nothing /\ end = Nothing /\ post = Nothing
  BY DEF Init, NoResponses
<1>5. TypeOK
  BY <1>1, <1>2, <1>4, BoundsAssumption DEF TypeOK
<1>6. WorldInv
  <2>1. Lists
    BY <1>1, <1>2, <1>3 DEF Lists
  <2>2. StampsAgree
    BY <1>1, <1>3, <1>4 DEF StampsAgree, Stamps, PullOf
  <2>3. Held /\ Surviving /\ MergeInv
    BY <1>1, <1>4 DEF Held, Surviving, MergeInv
  <2> QED BY <1>1, <1>2, <2>1, <2>2, <2>3 DEF WorldInv
<1>7. OwnerInv
  BY <1>4 DEF OwnerInv, PreInv, StartInv, EndInv, PostInv, Late, Sealed, NoResponses
<1> QED BY <1>5, <1>6, <1>7 DEF IInv

\* Steps of others, and time.
LEMMA OthersStep ==
  ASSUME IInv,
         \/ Tick \/ EditBody \/ Remark \/ Reconfigure \/ MoveMain \/ MergeByOther \/ PostChecks \/ Publish
         \/ \E h \in 1 .. MaxHeads : h <= Len(trees) + 1 /\ Push(h)
         \/ \E i \in DOMAIN comments : Amend(i) \/ Retract(i)
  PROVE  IInv'
<1> USE DEF IInv
<1>1. CASE Tick
  <2>1. /\ TypeOK' /\ WorldInv' /\ Forward /\ UNCHANGED <<owner, readAt>>
        /\ DOMAIN past = 1 .. clock - 1 /\ DOMAIN past' = 1 .. clock /\ clock \in Nat
        /\ \A t \in DOMAIN past : past'[t] = past[t]
        /\ past'[clock].tip = Tip
    BY <1>1, TickStep DEF Tick, World
  <2>2. habit # "any" /\ DOMAIN draft # {} => clock' = clock
    BY <1>1 DEF Tick, NoResponses
  <2>3. /\ \A t \in DOMAIN past : t \in DOMAIN past' /\ past'[t] = past[t]
        /\ \A t \in DOMAIN past' : t \in DOMAIN past \/ past'[t].tip = Tip
    BY <2>1
  <2> QED BY <2>1, <2>2, <2>3, OwnerStays
<1>2. CASE MergeByOther
  <2>1. /\ foreign' \in 0 .. MaxForeign /\ UNCHANGED <<clock, past, readAt, owner>> /\ Squash("other")
    BY <1>2, OthersAct DEF MergeByOther
  <2>2. WorldInv' /\ Forward /\ pull'.head = pull.head /\ trees' = trees
    BY <2>1, SquashStep
  <2>3. TypeOK'
    BY <2>1, <2>2, SameShape DEF TypeOK
  <2> QED BY <2>1, <2>2, <2>3, OwnerStays
<1>3. CASE ~Tick /\ ~MergeByOther
  <2>1. TypeOK' /\ WorldInv' /\ Forward
    BY <1>3, AuthorsSteps, CommentSteps, MainMoves, AsideSteps
  <2>2. UNCHANGED <<clock, past, readAt, owner>>
    <3>1. Foreign \/ PostChecks \/ Publish
      BY <1>3 DEF EditBody, Remark, Reconfigure, MoveMain, Push, Amend, Retract
    <3> QED BY <3>1, OthersAct DEF PostChecks, Publish, history
  <2> QED BY <2>1, <2>2, OwnerStays
<1> QED BY <1>1, <1>2, <1>3

LEMMA StutterStep ==
  ASSUME IInv, UNCHANGED vars
  PROVE  IInv'
<1>1. /\ UNCHANGED <<clock, github, foreign, past, readAt>>
      /\ UNCHANGED <<habit, stage, draft, pre, start, end, post>>
      /\ UNCHANGED <<main, trees, pull, merged>> /\ Tip' = Tip
  BY DEF vars, github, owner, history, Tip
<1>2. TypeOK'
  BY <1>1 DEF IInv, TypeOK, COMPONENTS
<1>3. WorldInv'
  BY <1>1, WorldStays DEF IInv
<1>4. OwnerInv'
  BY <1>1 DEF IInv, OwnerInv, PreInv, StartInv, EndInv, PostInv, SameMerge, LastReads, COMPONENTS
<1> QED BY <1>2, <1>3, <1>4 DEF IInv

LEMMA NextInv == IInv /\ [Next]_vars => IInv'
BY OthersStep, ReadStep, SealPreStep, SealStartStep, SealEndStep, SealPostStep, VerifyStep,
   MergeByOwnerStep, RestartStep, StutterStep DEF Next

\* Stamps, counts and pages are what they say: the inductive invariant of the world
\* and of what the owner has read of it.
THEOREM Invariance == Spec => []IInv
BY InitInv, NextInv, PTL DEF Spec

-----------------------------------------------------------------------------
\* What the rules ask of the packages, in the terms of the invariant.
LEMMA AcceptedReads ==
  ASSUME IInv, stage \in Sealed, StableWindow(start, end), validate_evidence_package_v2(start)
  PROVE  LET s == start.snapshot  U == Attested.created IN
         /\ end.snapshot = s /\ LastReads(s) /\ DOMAIN s = COMPONENTS("start") /\ PageRead(s["comments"])
         /\ start.pre = pre /\ U = Attested.updated /\ Attested = s["comments"][Len(s["comments"])].comment
         /\ pre.cutoff < U /\ U <= start.cutoff /\ U \in Nat
         /\ s["pull"].updated = U /\ s["pull"].comments = Len(s["comments"])
         /\ Len(s["comments"]) \in Nat \ {0}
         /\ s["pull"].head = pre.head /\ s["pull"].open = TRUE
<1> DEFINE s == start.snapshot
           before == start.pre.bundles
           n == Len(before["comments"])
<1>1. /\ end.snapshot = s /\ LastReads(s) /\ DOMAIN s = COMPONENTS("start") /\ PageRead(s["comments"])
      /\ start.pre = pre /\ start.phase = "start"
  BY DEF StableWindow, IInv, OwnerInv, StartInv, EndInv, Sealed, Late
<1>2. /\ validate_package_response_semantics(s, start.pre, start.cutoff)
      /\ validate_publication_delta_v1(start)
  BY <1>1 DEF validate_evidence_package_v2
<1>3. /\ Len(s["comments"]) = n + 1 /\ s["pull"].comments = n + 1
      /\ Last(s["comments"]).comment = s["attestation"].comment
      /\ s["attestation"].comment.rev = 0
      /\ s["pull"].updated = s["attestation"].comment.updated
      /\ start.pre.cutoff < s["attestation"].comment.created
      /\ s["attestation"].comment.updated <= start.cutoff
  BY <1>2 DEF validate_publication_delta_v1, validate_issue_comment_endpoint_equivalence
<1>4. Attested = s["attestation"].comment /\ Attested = s["comments"][Len(s["comments"])].comment
  BY <1>3 DEF Attested, Last
<1>5. Len(s["comments"]) \in Nat /\ DOMAIN s["comments"] = 1 .. Len(s["comments"])
  BY <1>1, Lengths DEF PageRead
<1>6. s["pull"].open = TRUE /\ s["pull"].head = pre.head
  <2>1. s["pull"].open \in BOOLEAN
    BY <1>1 DEF LastReads, COMPONENTS
  <2> QED BY <1>1, <1>2, <2>1 DEF validate_package_response_semantics, PullValid
<1>7. Len(s["comments"]) \in Nat \ {0} /\ Stamps(Attested)
  <2>1. Len(s["comments"]) # 0
    <3>1. n \in Nat
      BY <1>1, Lengths DEF IInv, OwnerInv, PreInv, Sealed
    <3> QED BY <1>3, <3>1
  <2> QED BY <1>1, <1>4, <1>5, <2>1 DEF PageRead
<1> QED BY <1>1, <1>3, <1>4, <1>6, <1>7 DEF Stamps

LEMMA ConversationWasHeld ==
  ASSUME IInv, stage \in Sealed, StableWindow(start, end), validate_evidence_package_v2(start)
  PROVE  HeldFrom(Attested.created, readAt)
<1> DEFINE s == start.snapshot
           U == Attested.created
           n == Len(s["comments"])
<1>1. /\ LastReads(s) /\ DOMAIN s = COMPONENTS("start") /\ PageRead(s["comments"])
      /\ start.pre = pre /\ U = Attested.updated /\ U \in Nat /\ Attested = s["comments"][n].comment
      /\ pre.cutoff < U /\ s["pull"].updated = U /\ s["pull"].comments = n /\ n \in Nat \ {0}
      /\ s["pull"].head = pre.head /\ s["pull"].open = TRUE
  BY AcceptedReads
<1>2. /\ DOMAIN past = 1 .. clock - 1 /\ clock \in Nat \ {0} /\ readAt \in 1 .. clock
      /\ pre.cutoff \in 1 .. clock
  BY PastIsBehind DEF IInv, TypeOK, Sealed
<1>3. DOMAIN s["comments"] = 1 .. n /\ \A i \in 1 .. n : Stamps(s["comments"][i].comment)
  BY <1>1, Lengths DEF PageRead
<1>4. U \in Nat
  BY <1>1
<1>5. ASSUME NEW t \in U .. readAt - 1
      PROVE  t \in DOMAIN past /\ past[t].pull = Evident.pull /\ past[t].comments = Evident.comments
  <2>1. t \in 1 .. readAt - 1 /\ t \in DOMAIN past /\ t >= U /\ t \in Nat
    BY <1>1, <1>2, <1>4
  <2>2. /\ past[t].pull = PullOf(s["pull"]) /\ Len(past[t].comments) = n
        /\ \A j \in 1 .. n : s["comments"][j].comment.updated <= U
    BY <1>1, <1>3, <2>1 DEF LastReads, COMPONENTS
  <2>3. Survives(Words(s["comments"]), past[t].comments, t)
    BY <1>1, <2>1 DEF LastReads, COMPONENTS
  <2>4. /\ DOMAIN Words(s["comments"]) = 1 .. n
        /\ \A j \in 1 .. n : Words(s["comments"])[j] = s["comments"][j].comment
    BY <1>3 DEF Words
  <2>5. Words(s["comments"])[n].created <= t /\ n \in 1 .. n
    BY <1>1, <1>4, <2>1, <2>4
  <2>6. \A j \in 1 .. n : Words(s["comments"])[j].updated <= t
    <3>1. \A j \in 1 .. n : s["comments"][j].comment.updated \in Nat
      BY <1>3 DEF Stamps
    <3>2. \A j \in 1 .. n : s["comments"][j].comment.updated <= t
      BY <1>4, <2>1, <2>2, <3>1
    <3> QED BY <2>4, <3>2
  <2>7. \A j \in 1 .. n : past[t].comments[j] = s["comments"][j].comment
    BY <2>2, <2>3, <2>4, <2>5, <2>6 DEF Survives
  <2>8. past[t].comments = [j \in 1 .. n |-> past[t].comments[j]]
    BY <2>1, <2>2, Lengths DEF IInv, WorldInv, Lists
  <2>9. past[t].comments = Evident.comments
    BY <1>3, <2>7, <2>8 DEF Evident
  <2>10. past[t].pull = Evident.pull
    BY <1>1, <2>2 DEF Evident, PullOf
  <2> QED BY <2>1, <2>9, <2>10
<1> QED BY <1>5 DEF HeldFrom

LEMMA HeldWithin ==
  ASSUME NEW a \in Int, NEW b \in Int, NEW c \in Int, NEW d \in Int, a <= c, d <= b, HeldFrom(a, b)
  PROVE  HeldFrom(c, d)
BY DEF HeldFrom

LEMMA HeldMeansHeld == IInv => WindowHeld
<1> SUFFICES ASSUME IInv PROVE WindowHeld
  OBVIOUS
<1>1. ASSUME WindowAccepted
      PROVE  stage \in Sealed /\ StableWindow(start, end) /\ validate_evidence_package_v2(start)
  <2>1. stage \in Sealed
    BY <1>1 DEF WindowAccepted, IInv, TypeOK, Sealed
  <2>2. start.phase = "start"
    BY <2>1 DEF IInv, OwnerInv, StartInv, Sealed, Late
  <2>3. validate_evidence_sequence(<<start, end>>)
    BY <1>1 DEF WindowAccepted
  <2> QED BY <2>1, <2>2, <2>3 DEF validate_evidence_sequence
<1>2. ConversationHeld
  BY <1>1, ConversationWasHeld DEF ConversationHeld
<1>3. HeldForTheWindow
  <2> SUFFICES ASSUME WindowAccepted, habit # "any"
               PROVE  HeldFrom(start.cutoff, start.cutoff + Window)
    BY DEF HeldForTheWindow
  <2>1. HeldFrom(Attested.created, readAt)
    BY <1>1, ConversationWasHeld
  <2>2. /\ Attested.created <= start.cutoff /\ Attested.created \in Nat
        /\ end.cutoff - start.cutoff >= Window
    <3>1. StableWindow(start, end)
      BY <1>1
    <3>2. Attested.created <= start.cutoff /\ Attested.created \in Nat
      BY <1>1, AcceptedReads
    <3> QED BY <3>1, <3>2 DEF StableWindow
  <2>3. /\ readAt = end.cutoff /\ start.cutoff \in Nat /\ end.cutoff \in Nat
    <3>1. stage \in Sealed /\ readAt = end.cutoff
      BY <1>1 DEF IInv, OwnerInv, EndInv
    <3>2. pre.cutoff \in 1 .. clock /\ start.cutoff \in pre.cutoff .. clock
      BY <3>1 DEF IInv, TypeOK, Sealed
    <3>3. end.cutoff \in start.cutoff .. clock
      BY <3>1 DEF IInv, TypeOK, Sealed
    <3> QED BY <3>1, <3>2, <3>3
  <2>4. /\ Attested.created \in Int /\ readAt \in Int /\ start.cutoff \in Int
        /\ start.cutoff + Window \in Int /\ start.cutoff + Window <= readAt
    BY <2>2, <2>3, WindowAssumption
  <2> QED BY <2>1, <2>2, <2>4, HeldWithin
<1> QED BY <1>2, <1>3 DEF WindowHeld, IInv

\* However the reads and the changes interleave, an accepted window is evidence of
\* an interval: head, text and conversation stood still from the second of the
\* publication to the first read of the last package, and for an owner who reads each
\* package within a tick for as long as the window (validate_evidence_sequence).
THEOREM WindowsAreHeld == Spec => []WindowHeld
BY Invariance, HeldMeansHeld, PTL

\* An accepted sequence has the candidate merged onto the main it was reviewed on
\* and nothing in between (validate_merge_response_semantics).
THEOREM CandidatesAreMerged == Spec => []OnlyTheCandidateWasMerged
<1>1. IInv => OnlyTheCandidateWasMerged
  <2> SUFFICES ASSUME IInv, SequenceAccepted
               PROVE  /\ \A t \in pre.cutoff .. merged.at - 1 : past[t].tip = pre.base
                      /\ main[pre.base + 1] = trees[pre.head]
                      /\ Attested.created < readAt =>
                           main[pre.base + 1] = trees[past[Attested.created].pull.head]
    BY DEF OnlyTheCandidateWasMerged
  <2>1. stage = "done"
    BY DEF SequenceAccepted, IInv, TypeOK
  <2>2. /\ start.phase = "start" /\ start.pre = pre /\ post.phase = "post" /\ post.pre = pre
        /\ SameMerge(post.merge) /\ "merged" \in DOMAIN post.merge /\ ~pull.open
    BY <2>1 DEF IInv, OwnerInv, StartInv, PostInv, Late
  <2>3. /\ validate_evidence_package_v2(start) /\ validate_evidence_package_v2(post)
        /\ StableWindow(start, end)
    <3>1. validate_evidence_sequence(<<start, end, post>>)
      BY DEF SequenceAccepted
    <3> QED BY <3>1 DEF validate_evidence_sequence
  <2>4. merged.tree = pre.tree /\ merged.parent = pre.base
    <3>1. validate_merge_response_semantics(post.merge, pre, post.cutoff)
      BY <2>2, <2>3 DEF validate_evidence_package_v2
    <3> QED BY <2>2, <3>1 DEF validate_merge_response_semantics, SameMerge
  <2>5. /\ pre.tree = trees[pre.head] /\ pre.cutoff \in 1 .. clock /\ pre.base \in Nat
        /\ \A t \in DOMAIN past : t >= pre.cutoff => past[t].tip >= pre.base
    <3>1. pre.cutoff \in 1 .. clock
      BY <2>1 DEF IInv, TypeOK
    <3>2. pre.base \in 1 .. Tip
      BY <2>1 DEF IInv, OwnerInv, PreInv
    <3> QED BY <2>1, <3>1, <3>2 DEF IInv, OwnerInv, PreInv
  <2>6. /\ merged.commit = merged.parent + 1 /\ main[merged.commit] = merged.tree
        /\ merged.at \in 1 .. clock
        /\ \A t \in DOMAIN past : t < merged.at => past[t].tip <= merged.parent
    BY <2>2 DEF IInv, WorldInv, MergeInv
  <2>7. main[pre.base + 1] = trees[pre.head]
    BY <2>4, <2>5, <2>6
  <2>8. ASSUME NEW t \in pre.cutoff .. merged.at - 1 PROVE past[t].tip = pre.base
    <3>1. DOMAIN past = 1 .. clock - 1 /\ clock \in Nat \ {0}
      BY PastIsBehind DEF IInv
    <3>2. t \in DOMAIN past /\ t >= pre.cutoff /\ t < merged.at
      BY <2>5, <2>6, <3>1
    <3>3. past[t].tip \in Nat /\ past[t].tip >= pre.base /\ past[t].tip <= pre.base
      <4>1. past[t].tip \in 1 .. Tip
        BY <3>2 DEF IInv, WorldInv
      <4> QED BY <2>4, <2>5, <2>6, <3>2, <4>1
    <3> QED BY <2>5, <3>3
  <2>9. ASSUME Attested.created < readAt
        PROVE  past[Attested.created].pull.head = pre.head
    <3>1. HeldFrom(Attested.created, readAt) /\ stage \in Sealed
      BY <2>1, <2>3, ConversationWasHeld DEF Sealed
    <3>2. Attested.created \in Nat /\ readAt \in Nat
      <4>1. Attested.created \in Nat
        BY <2>3, <3>1, AcceptedReads
      <4> QED BY <4>1, PastIsBehind DEF IInv
    <3>3. Attested.created \in Attested.created .. readAt - 1
      BY <2>9, <3>2
    <3>4. past[Attested.created].pull = Evident.pull
      BY <3>1, <3>3 DEF HeldFrom
    <3> QED BY <2>2, <3>4 DEF Evident
  <2> QED BY <2>7, <2>8, <2>9
<1> QED BY <1>1, Invariance, PTL
=============================================================================
