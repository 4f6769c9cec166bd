--------------------------- MODULE PublishProofs ---------------------------
(***************************************************************************)
(* GitSync, Publish and DeployServer, for any tasks, histories, faults and *)
(* numbers of pushes: the launcher's work is never lost and origin never   *)
(* rewritten, the flag tells what is not pushed, what a launcher records   *)
(* as deployed was deployed, what the server calls deployed is served, and *)
(* one task at a time works on the repository.                             *)
(***************************************************************************)
EXTENDS Publish, TLAPS, WellFoundedInduction

-----------------------------------------------------------------------------
(* What a rebase keeps *)

\* Induction over the numbers, for the set of those a fact holds of.
LEMMA NatSetInduction ==
    ASSUME NEW S, 0 \in S, \A n \in Nat : n \in S => n + 1 \in S
    PROVE  Nat \subseteq S
<1> SUFFICES ASSUME Nat \ S # {} PROVE FALSE
    OBVIOUS
<1>1. PICK n \in Nat \ S : \A m \in Nat \ S : ~(<<m, n>> \in OpToRel(<, Nat))
  BY NatLessThanWellFounded, WFMin
<1>2. \A m \in Nat \ S : ~(m < n)
  BY <1>1 DEF OpToRel
<1>3. n \in Nat /\ n # 0 /\ n \notin S
  BY <1>1
<1>9. n - 1 \in Nat /\ n = (n - 1) + 1 /\ n - 1 < n
  BY <1>3
<1>4. n - 1 \in S
  BY <1>2, <1>9
<1>5. QED BY <1>3, <1>9, <1>4

\* One commit of h replayed after the others, and a replay of the first n of them.
Next1(h, onto, f, i) == IF h[i] \in Range(onto) THEN f[i - 1] ELSE Append(f[i - 1], h[i])
IsReplay(h, onto, f, n) ==
    /\ f \in [0..n -> Shas] /\ f[0] = onto
    /\ \A i \in 1..n : f[i] = Next1(h, onto, f, i)

LEMMA ReplaysExist ==
    ASSUME NEW h \in Shas, NEW onto \in Shas
    PROVE  \E f : IsReplay(h, onto, f, Len(h))
<1> DEFINE S == {n \in Nat : n <= Len(h) => \E f : IsReplay(h, onto, f, n)}
<1>1. 0 \in S
  <2>1. IsReplay(h, onto, [i \in 0..0 |-> onto], 0) BY DEF IsReplay
  <2>2. QED BY <2>1
<1>2. ASSUME NEW n \in Nat, n \in S PROVE n + 1 \in S
  <2> SUFFICES ASSUME n + 1 <= Len(h) PROVE \E f : IsReplay(h, onto, f, n + 1)
      OBVIOUS
  <2>1. Len(h) \in Nat /\ n <= Len(h) /\ h[n + 1] \in Commit BY DEF Shas
  <2>2. PICK f : IsReplay(h, onto, f, n) BY <1>2, <2>1
  <2> DEFINE g == [i \in 0..(n + 1) |-> IF i = n + 1 THEN Next1(h, onto, f, n + 1) ELSE f[i]]
  <2>3. f[n] \in Shas /\ Append(f[n], h[n + 1]) \in Shas
    BY <2>1, <2>2 DEF IsReplay, Shas
  <2>4. g \in [0..(n + 1) -> Shas]
    <3>1. Next1(h, onto, f, n + 1) \in Shas BY <2>3 DEF Next1
    <3>2. \A i \in 0..(n + 1) : i # n + 1 => i \in 0..n OBVIOUS
    <3>3. QED BY <2>2, <3>1, <3>2 DEF IsReplay
  <2>5. g[0] = onto BY <2>2 DEF IsReplay
  <2>6. ASSUME NEW i \in 1..(n + 1) PROVE g[i] = Next1(h, onto, g, i)
    <3>1. i \in 0..(n + 1) /\ i - 1 \in 0..n /\ i - 1 # n + 1 OBVIOUS
    <3>2. g[i - 1] = f[i - 1] BY <3>1
    <3>3. CASE i = n + 1 BY <3>1, <3>2, <3>3 DEF Next1
    <3>4. CASE i # n + 1
      <4>1. i \in 1..n /\ i \in 0..(n + 1) BY <3>4
      <4>2. g[i] = f[i] /\ f[i] = Next1(h, onto, f, i) BY <2>2, <4>1, <3>4 DEF IsReplay
      <4>3. QED BY <3>2, <4>2 DEF Next1
    <3>5. QED BY <3>3, <3>4
  <2>7. QED BY <2>4, <2>5, <2>6 DEF IsReplay
<1>3. Nat \subseteq S
  <2> HIDE DEF S
  <2>1. QED BY <1>1, <1>2, NatSetInduction
<1>4. QED BY <1>3 DEF Shas

\* A rebase is the replay of the whole history.
LEMMA RebasedIsReplay ==
    ASSUME NEW h \in Shas, NEW onto \in Shas
    PROVE  \E f : IsReplay(h, onto, f, Len(h)) /\ Rebased(h, onto) = f[Len(h)]
<1> DEFINE Eq(f) == f = [i \in 0..Len(h) |-> IF i = 0 THEN onto
                                             ELSE IF h[i] \in Range(onto) THEN f[i - 1]
                                             ELSE Append(f[i - 1], h[i])]
           F == CHOOSE f : Eq(f)
<1>0. Len(h) \in Nat BY DEF Shas
<1>1. PICK f : IsReplay(h, onto, f, Len(h)) BY ReplaysExist
<1>2. Eq(f)
  <2>1. \A i \in 0..Len(h) : i # 0 => i \in 1..Len(h) OBVIOUS
  <2>2. QED BY <1>1, <2>1 DEF IsReplay, Next1
<1>3. Eq(F)
  <2> HIDE DEF Eq
  <2>1. QED BY <1>2
<1>4. F[0] = onto /\ DOMAIN F = 0..Len(h) /\ \A i \in 1..Len(h) : F[i] = Next1(h, onto, F, i)
  <2>1. \A i \in 1..Len(h) : i \in 0..Len(h) /\ i # 0 OBVIOUS
  <2>2. 0 \in 0..Len(h) BY <1>0
  <2> HIDE DEF F
  <2>3. QED BY <1>3, <2>1, <2>2 DEF Next1
<1>5. F \in [0..Len(h) -> Shas]
  <2> DEFINE S == {n \in Nat : n <= Len(h) => F[n] \in Shas}
  <2> HIDE DEF F
  <2>1. 0 \in S BY <1>4
  <2>2. ASSUME NEW n \in Nat, n \in S PROVE n + 1 \in S
    <3> SUFFICES ASSUME n + 1 <= Len(h) PROVE F[n + 1] \in Shas
        OBVIOUS
    <3>1. n <= Len(h) /\ h[n + 1] \in Commit /\ n + 1 \in 1..Len(h) BY <1>0 DEF Shas
    <3>2. F[n] \in Shas BY <2>2, <3>1
    <3>3. F[n + 1] = Next1(h, onto, F, n + 1) /\ (n + 1) - 1 = n BY <1>4, <3>1
    <3>4. QED BY <3>1, <3>2, <3>3 DEF Next1, Shas
  <2>3. Nat \subseteq S
    <3> HIDE DEF S
    <3>1. QED BY <2>1, <2>2, NatSetInduction
  <2>4. \A n \in 0..Len(h) : F[n] \in Shas BY <2>3
  <2>5. F = [i \in 0..Len(h) |-> F[i]] BY <1>3
  <2>6. QED BY <2>4, <2>5
<1>6. Rebased(h, onto) = F[Len(h)]
  BY DEF Rebased
<1>7. QED
  <2> HIDE DEF F
  <2>1. QED BY <1>4, <1>5, <1>6 DEF IsReplay

\* What a rebase returns: a history on top of what origin has, with every commit of both.
LEMMA RebasedKeeps ==
    ASSUME NEW h \in Shas, NEW onto \in Shas
    PROVE  /\ Rebased(h, onto) \in Shas
           /\ IsPrefix(onto, Rebased(h, onto))
           /\ Range(h) \cup Range(onto) \subseteq Range(Rebased(h, onto))
<1>0. Len(h) \in Nat /\ Len(onto) \in Nat BY DEF Shas
<1>1. PICK f : IsReplay(h, onto, f, Len(h)) /\ Rebased(h, onto) = f[Len(h)]
  BY RebasedIsReplay
<1> DEFINE Good(n) == /\ Len(onto) <= Len(f[n])
                      /\ \A i \in 1..Len(onto) : f[n][i] = onto[i]
                      /\ \A i \in 1..n : h[i] \in Range(f[n])
           S == {n \in Nat : n <= Len(h) => Good(n)}
<1>2. 0 \in S
  BY <1>0, <1>1 DEF IsReplay
<1>3. ASSUME NEW n \in Nat, n \in S PROVE n + 1 \in S
  <2> SUFFICES ASSUME n + 1 <= Len(h) PROVE Good(n + 1)
      OBVIOUS
  <2>1. n <= Len(h) /\ n \in 0..Len(h) /\ n + 1 \in 1..Len(h) /\ h[n + 1] \in Commit
    BY <1>0 DEF Shas
  <2>2. Good(n) /\ f[n] \in Seq(Commit)
    BY <1>1, <1>3, <2>1 DEF IsReplay, Shas
  <2>3. f[n + 1] = Next1(h, onto, f, n + 1) /\ (n + 1) - 1 = n
    BY <1>1, <2>1 DEF IsReplay
  <2>4. \A i \in 1..(n + 1) : i # n + 1 => i \in 1..n
    OBVIOUS
  <2>5. CASE h[n + 1] \in Range(onto)
    <3>1. f[n + 1] = f[n] BY <2>3, <2>5 DEF Next1
    <3>2. Range(onto) \subseteq Range(f[n])
      <4>1. \A i \in 1..Len(onto) : i \in DOMAIN f[n] BY <1>0, <2>2
      <4>2. DOMAIN onto = 1..Len(onto) BY DEF Shas
      <4>3. QED BY <2>2, <4>1, <4>2 DEF Range
    <3>3. QED BY <2>2, <2>4, <2>5, <3>1, <3>2
  <2>6. CASE h[n + 1] \notin Range(onto)
    <3>1. f[n + 1] = Append(f[n], h[n + 1]) BY <2>3, <2>6 DEF Next1
    <3>2. /\ Len(f[n + 1]) = Len(f[n]) + 1 /\ f[n + 1][Len(f[n]) + 1] = h[n + 1]
          /\ \A i \in 1..Len(f[n]) : f[n + 1][i] = f[n][i]
          /\ DOMAIN f[n + 1] = 1..(Len(f[n]) + 1) /\ DOMAIN f[n] = 1..Len(f[n]) /\ Len(f[n]) \in Nat
      BY <2>1, <2>2, <3>1
    <3>3. h[n + 1] \in Range(f[n + 1])
      <4>1. Len(f[n]) + 1 \in DOMAIN f[n + 1] BY <3>2
      <4>2. QED BY <3>2, <4>1 DEF Range
    <3>4. Range(f[n]) \subseteq Range(f[n + 1])
      <4>1. \A i \in DOMAIN f[n] : i \in DOMAIN f[n + 1] /\ f[n + 1][i] = f[n][i] BY <3>2
      <4>2. QED BY <4>1 DEF Range
    <3>5. \A i \in 1..(n + 1) : h[i] \in Range(f[n + 1]) BY <2>2, <2>4, <3>3, <3>4
    <3>6. Len(onto) <= Len(f[n + 1]) /\ \A i \in 1..Len(onto) : f[n + 1][i] = onto[i]
      BY <1>0, <2>2, <3>2
    <3>7. QED BY <3>5, <3>6
  <2>7. QED BY <2>5, <2>6
<1>4. Nat \subseteq S
  <2> HIDE DEF S
  <2>1. QED BY <1>2, <1>3, NatSetInduction
<1>5. Good(Len(h)) BY <1>0, <1>4
<1>6. f[Len(h)] \in Shas BY <1>0, <1>1 DEF IsReplay
<1> DEFINE r == f[Len(h)]
<1>7. IsPrefix(onto, r)
  <2>1. SubSeq(onto, 1, Len(onto)) = SubSeq(r, 1, Len(onto))
    BY <1>0, <1>5, <1>6 DEF Shas
  <2>2. QED BY <1>5, <2>1 DEF IsPrefix
<1>8. Range(h) \subseteq Range(r)
  BY <1>5 DEF Range, Shas
<1>9. Range(onto) \subseteq Range(r)
  <2>1. \A i \in 1..Len(onto) : i \in DOMAIN r BY <1>0, <1>5, <1>6 DEF Shas
  <2>2. DOMAIN onto = 1..Len(onto) BY DEF Shas
  <2>3. QED BY <1>5, <2>1, <2>2 DEF Range
<1>10. QED BY <1>1, <1>6, <1>7, <1>8, <1>9

-----------------------------------------------------------------------------
(* GitSync: the repository *)

\* A branch other than dev is the only one, and HEAD is detached only once.
Reserved ==
    /\ branch \in {"legacy", "other"} => \A b \in Heads \ {branch} : hist[b] = NoSha
    /\ branch # "detached" => hist["detached"] = NoSha
RepoTyped ==
    /\ branch \in Heads /\ hist \in [Heads -> Shas] /\ tree \in Commit
    /\ remotes \subseteq {"origin", "server"}
    /\ origin \in [Branch -> Shas] /\ tracked \in [Tracking -> Shas] /\ flag \in BOOLEAN
RepoInv == RepoTyped /\ Reserved

\* Histories that hold all that others hold.
GoOn(old, new) == \A b \in Heads : \E c \in Heads : Elements(old[b]) \subseteq Elements(new[c])
OriginGrows(o) == \A b \in Branch : IsPrefix(origin[b], o[b])

LEMMA NamesApart == /\ Branch \subseteq Heads /\ Branch \subseteq Tracking
                    /\ "dev" \in Branch /\ "legacy" \in Branch /\ "detached" \in Heads /\ "server" \in Tracking
                    /\ "detached" \notin Branch /\ "server" \notin Branch
                    /\ Heads = Branch \cup {"detached"}
BY DEF Branch, Heads, Tracking

LEMMA NoShaIsSha == NoSha \in Shas /\ Elements(NoSha) = {}
<1>1. NoSha \in Shas BY DEF NoSha, Shas
<1>2. Range(NoSha) = {} BY DEF NoSha, Range
<1>3. QED BY <1>1, <1>2 DEF Elements

LEMMA PrefixReflexive == ASSUME NEW s \in Shas PROVE IsPrefix(s, s)
BY DEF Shas, IsPrefix

LEMMA AppendGrows ==
    ASSUME NEW s \in Shas, NEW c \in Commit
    PROVE  /\ Append(s, c) \in Shas /\ IsPrefix(s, Append(s, c))
           /\ Elements(s) \cup c \subseteq Elements(Append(s, c))
<1>1. Append(s, c) \in Shas /\ IsPrefix(s, Append(s, c))
  BY DEF Shas, IsPrefix
<1>2. /\ DOMAIN s = 1..Len(s) /\ Len(s) \in Nat /\ DOMAIN Append(s, c) = 1..(Len(s) + 1)
      /\ \A i \in 1..Len(s) : Append(s, c)[i] = s[i]
      /\ Append(s, c)[Len(s) + 1] = c
  BY DEF Shas
<1>3. c \in Range(Append(s, c))
  <2>1. Len(s) + 1 \in DOMAIN Append(s, c) BY <1>2
  <2>2. QED BY <1>2, <2>1 DEF Range
<1>4. Range(s) \subseteq Range(Append(s, c))
  <2>1. \A i \in DOMAIN s : i \in DOMAIN Append(s, c) /\ Append(s, c)[i] = s[i] BY <1>2
  <2>2. QED BY <2>1 DEF Range
<1>5. QED BY <1>1, <1>3, <1>4 DEF Elements

LEMMA PrefixHasLess ==
    ASSUME NEW s \in Shas, NEW t \in Shas, IsPrefix(s, t)
    PROVE  Elements(s) \subseteq Elements(t)
<1>1. /\ Len(s) <= Len(t) /\ SubSeq(s, 1, Len(s)) = SubSeq(t, 1, Len(s))
      /\ Len(s) \in Nat /\ Len(t) \in Nat /\ DOMAIN s = 1..Len(s) /\ DOMAIN t = 1..Len(t)
  BY DEF IsPrefix, Shas
<1>2. \A i \in DOMAIN s : i \in DOMAIN t /\ s[i] = t[i]
  <2> SUFFICES ASSUME NEW i \in 1..Len(s) PROVE i \in 1..Len(t) /\ s[i] = t[i]
      BY <1>1
  <2>1. SubSeq(s, 1, Len(s))[i] = s[i] /\ SubSeq(t, 1, Len(s))[i] = t[i]
    BY <1>1 DEF Shas
  <2>2. QED BY <1>1, <2>1
<1>3. QED BY <1>2 DEF Elements, Range

\* What a step keeps when every history goes on and the working tree is not lost.
LEMMA KeptFrom ==
    ASSUME RepoInv, RepoInv', GoOn(hist, hist'), OriginGrows(origin'),
           tree \subseteq tree' \cup UNION {Elements(hist'[b]) : b \in Heads}
    PROVE  Kept \subseteq Kept'
<1>1. \A b \in Heads : Elements(hist[b]) \subseteq Kept'
  <2> SUFFICES ASSUME NEW b \in Heads PROVE Elements(hist[b]) \subseteq Kept'
      OBVIOUS
  <2>1. PICK c \in Heads : Elements(hist[b]) \subseteq Elements(hist'[c])
    BY DEF GoOn
  <2>2. QED BY <2>1 DEF Kept, Elements
<1>2. \A b \in Branch : Elements(origin[b]) \subseteq Kept'
  <2> SUFFICES ASSUME NEW b \in Branch PROVE Elements(origin[b]) \subseteq Kept'
      OBVIOUS
  <2>1. Elements(origin[b]) \subseteq Elements(origin'[b])
    BY PrefixHasLess DEF RepoInv, RepoTyped, OriginGrows
  <2>2. QED BY <2>1 DEF Kept, Elements
<1>3. tree \subseteq Kept' BY DEF Kept, Elements
<1>4. QED BY <1>1, <1>2, <1>3 DEF Kept

LEMMA SameRepo ==
    ASSUME RepoInv, UNCHANGED <<branch, hist, origin>>, RepoTyped', tree \subseteq tree'
    PROVE  RepoInv' /\ Kept \subseteq Kept' /\ OriginGrows(origin')
<1>1. RepoInv' BY DEF RepoInv, Reserved
<1>2. OriginGrows(origin') BY PrefixReflexive DEF OriginGrows, RepoInv, RepoTyped
<1>3. GoOn(hist, hist') BY DEF GoOn
<1>4. QED BY <1>1, <1>2, <1>3, KeptFrom

-----------------------------------------------------------------------------
(* The git commands *)

LEMMA PushTyped ==
    ASSUME RepoInv, NEW b \in Heads, NEW h \in Shas, NEW a \in PushAnswers(b, h)
    PROVE  /\ a.origin \in [Branch -> Shas] /\ a.tracked \in [Tracking -> Shas]
           /\ OriginGrows(a.origin)
<1>1. CASE a.origin = origin /\ a.tracked = tracked
  BY <1>1, PrefixReflexive DEF RepoInv, RepoTyped, OriginGrows
<1>2. CASE /\ b \in Branch /\ IsPrefix(origin[b], h)
           /\ a.origin = [origin EXCEPT ![b] = h] /\ a.tracked \in {tracked, [tracked EXCEPT ![b] = h]}
  BY <1>2, PrefixReflexive, NamesApart DEF RepoInv, RepoTyped, OriginGrows
<1>3. QED BY <1>1, <1>2, NamesApart DEF PushAnswers, Answer, Refused, FastForward

\* What a switch of the branch leaves, and what the later steps rely on.
SwitchOK(a) ==
    /\ a.branch \in Heads /\ a.hist \in [Heads -> Shas]
    /\ a.origin \in [Branch -> Shas] /\ a.tracked \in [Tracking -> Shas]
    /\ a.branch \in {"legacy", "other"} => \A b \in Heads \ {a.branch} : a.hist[b] = NoSha
    /\ a.branch # "detached" => a.hist["detached"] = NoSha
    /\ GoOn(hist, a.hist) /\ OriginGrows(a.origin)

LEMMA PushedOK ==
    ASSUME RepoInv, NEW h \in [Heads -> Shas], h["detached"] = NoSha, GoOn(hist, h), NEW a \in Pushed(h)
    PROVE  SwitchOK(a)
<1>1. PICK p \in PushAnswers("dev", h["dev"]) : a = Switched("dev", h, p.origin, p.tracked)
  BY DEF Pushed
<1>2. p.origin \in [Branch -> Shas] /\ p.tracked \in [Tracking -> Shas] /\ OriginGrows(p.origin)
  BY PushTyped, NamesApart
<1>3. QED BY <1>1, <1>2, NamesApart DEF Switched, SwitchOK

LEMMA RenamedOK ==
    ASSUME RepoInv, branch = "legacy", NEW a \in Pushed(Renamed("legacy"))
    PROVE  SwitchOK(a)
<1> DEFINE h == Renamed("legacy")
<1>1. h \in [Heads -> Shas] /\ h["detached"] = NoSha /\ h["dev"] = hist["legacy"]
  BY NoShaIsSha, NamesApart DEF Renamed, RepoInv, RepoTyped, Reserved, Heads, Branch
<1>2. GoOn(hist, h)
  <2>1. \A b \in Heads \ {"legacy"} : Elements(hist[b]) = {}
    BY NoShaIsSha DEF RepoInv, Reserved
  <2>2. QED BY <1>1, <2>1, NamesApart DEF GoOn
<1>3. QED BY <1>1, <1>2, PushedOK

LEMMA EnsuredOK ==
    ASSUME RepoInv, branch # "legacy", NEW a \in Ensured
    PROVE  SwitchOK(a)
<1> DEFINE theirs == IF "origin" \in remotes THEN origin["dev"] ELSE NoSha
           fetched == [tracked EXCEPT !["dev"] = theirs]
<1>0. /\ theirs \in Shas /\ fetched \in [Tracking -> Shas] /\ tracked["dev"] \in Shas
      /\ hist["dev"] \in Shas /\ hist[branch] \in Shas
  BY NoShaIsSha, NamesApart DEF RepoInv, RepoTyped
<1>1. CASE a = Switched(branch, hist, origin, tracked)
  BY <1>1, PrefixReflexive DEF Switched, SwitchOK, GoOn, OriginGrows, RepoInv, RepoTyped, Reserved
<1>2. ASSUME NEW h \in Shas, h = hist["dev"] \/ hist["dev"] = NoSha, branch \notin {"dev", "detached"}
      PROVE  /\ ToDev(h) \in [Heads -> Shas] /\ ToDev(h)["detached"] = NoSha /\ GoOn(hist, ToDev(h))
  <2>1. ToDev(h) \in [Heads -> Shas] /\ ToDev(h)["detached"] = NoSha
    BY <1>2, NamesApart DEF ToDev, RepoInv, RepoTyped, Reserved
  <2>2. ASSUME NEW b \in Heads PROVE Elements(hist[b]) \subseteq Elements(ToDev(h)[b])
    BY <1>2, <2>2, NoShaIsSha, NamesApart DEF ToDev, RepoInv, RepoTyped
  <2>3. QED BY <2>1, <2>2 DEF GoOn
<1>3. CASE \E h \in Shas, seen \in [Tracking -> Shas] :
              /\ a = Switched("dev", ToDev(h), origin, seen)
              /\ h = hist["dev"] \/ hist["dev"] = NoSha
              /\ branch \notin {"dev", "detached"}
  <2>1. PICK h \in Shas, seen \in [Tracking -> Shas] :
              /\ a = Switched("dev", ToDev(h), origin, seen)
              /\ h = hist["dev"] \/ hist["dev"] = NoSha
              /\ branch \notin {"dev", "detached"}
    BY <1>3
  <2>2. /\ ToDev(h) \in [Heads -> Shas] /\ ToDev(h)["detached"] = NoSha /\ GoOn(hist, ToDev(h))
    BY <1>2, <2>1
  <2>3. OriginGrows(origin) BY PrefixReflexive DEF OriginGrows, RepoInv, RepoTyped
  <2>4. /\ a.branch = "dev" /\ a.hist = ToDev(h) /\ a.origin = origin /\ a.tracked = seen
    BY <2>1 DEF Switched
  <2>5. QED BY <2>1, <2>2, <2>3, <2>4, NamesApart DEF SwitchOK, RepoInv, RepoTyped
<1>4. CASE a \in Pushed(ToDev(hist[branch])) /\ hist["dev"] = NoSha /\ branch \notin {"dev", "detached"}
  BY <1>0, <1>2, <1>4, PushedOK
<1>5. QED
  BY <1>0, <1>1, <1>3, <1>4, NoShaIsSha DEF Ensured, RepoInv, RepoTyped

\* What a pull leaves.
PullOK(a) ==
    /\ a.branch \in Heads /\ a.hist \in [Heads -> Shas] /\ a.tree \in Commit
    /\ a.tracked \in [Tracking -> Shas]
    /\ a.branch \in {"legacy", "other"} => \A b \in Heads \ {a.branch} : a.hist[b] = NoSha
    /\ a.branch # "detached" => a.hist["detached"] = NoSha
    /\ GoOn(hist, a.hist) /\ tree \subseteq a.tree

LEMMA PulledOK == ASSUME RepoInv, NEW a \in PullAnswers PROVE PullOK(a)
<1> DEFINE onto == origin[branch]
           seen == [tracked EXCEPT ![branch] = onto]
           done == [hist EXCEPT ![branch] = Rebased(hist[branch], onto)]
<1>1. CASE /\ a.branch = branch /\ a.hist = hist /\ a.tree = tree /\ a.tracked = tracked
  BY <1>1 DEF PullOK, GoOn, RepoInv, RepoTyped, Reserved
<1>2. ASSUME branch # "detached"
      PROVE  /\ branch \in Branch /\ onto \in Shas /\ hist[branch] \in Shas
             /\ seen \in [Tracking -> Shas]
             /\ tree \cup {Markers} \in Commit
  BY <1>2, NamesApart DEF RepoInv, RepoTyped, Commit
<1>3. CASE /\ branch # "detached" /\ a.branch = branch /\ a.hist = done /\ a.tracked = seen
           /\ a.tree \in {tree, tree \cup {Markers}}
  <2>1. /\ Rebased(hist[branch], onto) \in Shas
        /\ Range(hist[branch]) \subseteq Range(Rebased(hist[branch], onto))
    BY <1>2, <1>3, RebasedKeeps
  <2>2. Elements(hist[branch]) \subseteq Elements(done[branch]) /\ done \in [Heads -> Shas]
    BY <2>1 DEF Elements, RepoInv, RepoTyped
  <2>3. \A b \in Heads \ {branch} : done[b] = hist[b]
    BY DEF RepoInv, RepoTyped
  <2>4. GoOn(hist, done)
    BY <2>2, <2>3 DEF GoOn
  <2>5. QED BY <1>2, <1>3, <2>2, <2>3, <2>4, NamesApart DEF PullOK, RepoInv, RepoTyped, Reserved
<1>4. CASE /\ branch # "detached" /\ a.branch = "detached" /\ a.hist = [hist EXCEPT !["detached"] = onto]
           /\ a.tracked = seen /\ a.tree = tree \cup {Markers}
  <2>1. a.hist \in [Heads -> Shas] /\ \A b \in Heads \ {"detached"} : a.hist[b] = hist[b]
    BY <1>2, <1>4, NamesApart DEF RepoInv, RepoTyped
  <2>2. Elements(hist["detached"]) = {}
    BY <1>4, NoShaIsSha DEF RepoInv, Reserved
  <2>3. GoOn(hist, a.hist)
    BY <2>1, <2>2 DEF GoOn
  <2>4. QED BY <1>2, <1>4, <2>1, <2>3, NamesApart DEF PullOK
<1>5. \/ a \in {Pulled("ok", branch, hist, tree, tracked), NotPulled}
      \/ /\ branch # "detached"
         /\ \/ a \in {Pulled("ok", branch, done, files, seen) : files \in {tree, tree \cup {Markers}}}
            \/ a = Pulled("error", "detached", [hist EXCEPT !["detached"] = onto],
                          tree \cup {Markers}, seen)
  BY DEF PullAnswers
<1> HIDE DEF onto, seen, done
<1>6. CASE a \in {Pulled("ok", branch, hist, tree, tracked), NotPulled}
  BY <1>1, <1>6 DEF Pulled, NotPulled
<1>7. CASE branch # "detached" /\ a \in {Pulled("ok", branch, done, files, seen) : files \in {tree, tree \cup {Markers}}}
  BY <1>3, <1>7 DEF Pulled
<1>8. CASE branch # "detached" /\ a = Pulled("error", "detached", [hist EXCEPT !["detached"] = onto],
                                           tree \cup {Markers}, seen)
  BY <1>4, <1>8 DEF Pulled
<1>9. QED BY <1>5, <1>6, <1>7, <1>8

-----------------------------------------------------------------------------
(* The steps *)

RepoKept == RepoInv' /\ Kept \subseteq Kept' /\ OriginGrows(origin')

LEMMA WritesKeep == ASSUME RepoInv, NEW t \in Tasks, WriteFiles(t) PROVE RepoKept
<1>1. tree \subseteq tree' /\ tree' \in Commit
  BY DEF WriteFiles, RepoInv, RepoTyped, Commit
<1>2. RepoTyped' BY <1>1 DEF WriteFiles, RepoInv, RepoTyped
<1>3. QED BY <1>1, <1>2, SameRepo DEF WriteFiles, RepoKept

LEMMA EnsureKeeps == ASSUME RepoInv, NEW t \in Tasks, EnsureBranch(t) PROVE RepoKept
<1>1. CASE UNCHANGED <<branch, hist, origin, tracked>>
  <2>1. RepoTyped' BY <1>1 DEF EnsureBranch, RepoInv, RepoTyped
  <2>2. QED BY <1>1, <2>1, SameRepo DEF EnsureBranch, RepoKept
<1>2. CASE \E a \in IF branch = "legacy" THEN Pushed(Renamed("legacy")) ELSE Ensured :
            /\ branch' = a.branch /\ hist' = a.hist
            /\ origin' = a.origin /\ tracked' = a.tracked
  <2>1. PICK a \in IF branch = "legacy" THEN Pushed(Renamed("legacy")) ELSE Ensured :
            /\ branch' = a.branch /\ hist' = a.hist
            /\ origin' = a.origin /\ tracked' = a.tracked
    BY <1>2
  <2>2. SwitchOK(a) BY <2>1, RenamedOK, EnsuredOK
  <2>3. UNCHANGED <<tree, remotes, flag>> BY DEF EnsureBranch
  <2>4. RepoInv' BY <2>1, <2>2, <2>3 DEF SwitchOK, RepoInv, RepoTyped, Reserved
  <2>5. GoOn(hist, hist') /\ OriginGrows(origin') BY <2>1, <2>2 DEF SwitchOK
  <2>6. QED BY <2>3, <2>4, <2>5, KeptFrom DEF RepoKept
<1>3. QED BY <1>1, <1>2 DEF EnsureBranch

LEMMA CommitKeeps == ASSUME RepoInv, NEW t \in Tasks, CommitAll(t) PROVE RepoKept
<1>1. UNCHANGED <<branch, remotes, origin, tracked>> /\ flag' \in BOOLEAN
  BY DEF CommitAll, RepoInv, RepoTyped
<1>2. CASE UNCHANGED <<hist, tree>>
  <2>1. RepoTyped' BY <1>1, <1>2 DEF RepoInv, RepoTyped
  <2>2. QED BY <1>1, <1>2, <2>1, SameRepo DEF RepoKept
<1>3. CASE tree = {} /\ hist' = hist /\ tree' = {}
  BY <1>2, <1>3
<1>4. CASE hist' = [hist EXCEPT ![branch] = Append(@, tree)] /\ tree' = {}
  <2>1. /\ branch \in Heads /\ hist[branch] \in Shas /\ tree \in Commit /\ tree' \in Commit
        /\ hist'[branch] = Append(hist[branch], tree)
        /\ \A b \in Heads \ {branch} : hist'[b] = hist[b]
    BY <1>4 DEF RepoInv, RepoTyped, Commit
  <2>2. /\ hist'[branch] \in Shas
        /\ Elements(hist[branch]) \cup tree \subseteq Elements(hist'[branch])
    BY <2>1, AppendGrows
  <2>3. hist' \in [Heads -> Shas] BY <1>4, <2>1, <2>2 DEF RepoInv, RepoTyped
  <2>4. RepoInv'
    <3>1. RepoTyped' BY <1>1, <2>1, <2>3 DEF RepoInv, RepoTyped
    <3>2. Reserved' BY <1>1, <2>1, NamesApart DEF RepoInv, Reserved
    <3>3. QED BY <3>1, <3>2 DEF RepoInv
  <2>5. GoOn(hist, hist') BY <2>1, <2>2 DEF GoOn
  <2>6. OriginGrows(origin') BY <1>1, PrefixReflexive DEF OriginGrows, RepoInv, RepoTyped
  <2>7. tree \subseteq UNION {Elements(hist'[b]) : b \in Heads} BY <2>1, <2>2
  <2>8. QED BY <2>4, <2>5, <2>6, <2>7, KeptFrom DEF RepoKept
<1>5. QED BY <1>2, <1>3, <1>4 DEF CommitAll

LEMMA PushKeeps == ASSUME RepoInv, NEW t \in Tasks, PushDev(t) \/ RetryPush(t) PROVE RepoKept
<1>1. UNCHANGED <<branch, hist, tree, remotes>>
  BY DEF PushDev, RetryPush
<1>2. PICK a \in PushAnswers(branch, hist[branch]) : origin' = a.origin /\ tracked' = a.tracked
  BY DEF PushDev, RetryPush
<1>3. a.origin \in [Branch -> Shas] /\ a.tracked \in [Tracking -> Shas] /\ OriginGrows(a.origin)
  BY PushTyped DEF RepoInv, RepoTyped
<1>4. flag' \in BOOLEAN
  BY DEF PushDev, RetryPush, FlagAfter
<1>5. RepoInv' BY <1>1, <1>2, <1>3, <1>4 DEF RepoInv, RepoTyped, Reserved
<1>6. GoOn(hist, hist') BY <1>1 DEF GoOn
<1>7. QED BY <1>1, <1>2, <1>3, <1>5, <1>6, KeptFrom DEF RepoKept

LEMMA PullKeeps == ASSUME RepoInv, NEW t \in Tasks, Pull(t) PROVE RepoKept
<1>1. UNCHANGED <<remotes, origin, flag>>
  BY DEF Pull
<1>2. PICK a \in PullAnswers : branch' = a.branch /\ hist' = a.hist /\ tree' = a.tree /\ tracked' = a.tracked
  BY DEF Pull
<1>3. PullOK(a) BY PulledOK
<1>4. RepoInv' BY <1>1, <1>2, <1>3 DEF PullOK, RepoInv, RepoTyped, Reserved
<1>5. GoOn(hist, hist') /\ tree \subseteq tree' BY <1>2, <1>3 DEF PullOK
<1>6. OriginGrows(origin') BY <1>1, PrefixReflexive DEF OriginGrows, RepoInv, RepoTyped
<1>7. QED BY <1>4, <1>5, <1>6, KeptFrom DEF RepoKept

LEMMA OthersKeep == ASSUME RepoInv, OthersPush PROVE RepoKept
<1>1. UNCHANGED <<branch, hist, tree, remotes, tracked, flag>>
  BY DEF OthersPush
<1>2. PICK c \in Others : origin' = [origin EXCEPT !["dev"] = Append(@, {c})]
  BY DEF OthersPush
<1>3. {c} \in Commit BY DEF Commit
<1>4. Append(origin["dev"], {c}) \in Shas /\ IsPrefix(origin["dev"], Append(origin["dev"], {c}))
  BY <1>3, AppendGrows, NamesApart DEF RepoInv, RepoTyped
<1>5. origin' \in [Branch -> Shas] /\ OriginGrows(origin')
  BY <1>2, <1>4, PrefixReflexive, NamesApart DEF RepoInv, RepoTyped, OriginGrows
<1>6. RepoInv' BY <1>1, <1>5 DEF RepoInv, RepoTyped, Reserved
<1>7. GoOn(hist, hist') BY <1>1 DEF GoOn
<1>8. QED BY <1>1, <1>5, <1>6, <1>7, KeptFrom DEF RepoKept

LEMMA ConfigureKeeps == ASSUME RepoInv, ConfigureGit PROVE RepoKept
<1>1. UNCHANGED <<branch, hist, tree, origin>> /\ remotes' \subseteq {"origin", "server"} /\ flag' \in BOOLEAN
  BY DEF ConfigureGit, RepoInv, RepoTyped
<1>2. tracked' \in [Tracking -> Shas]
  BY NoShaIsSha DEF ConfigureGit, RepoInv, RepoTyped
<1>3. RepoTyped' BY <1>1, <1>2 DEF RepoInv, RepoTyped
<1>4. QED BY <1>1, <1>3, SameRepo DEF RepoKept

LEMMA UntouchedKeeps == ASSUME RepoInv, UNCHANGED repo PROVE RepoKept
<1>1. RepoTyped' BY DEF repo, RepoInv, RepoTyped
<1>2. QED BY <1>1, SameRepo DEF repo, RepoKept

LEMMA GitTaskKeepsRepo == ASSUME RepoInv, NEW t \in Tasks, GitTask(t) PROVE RepoKept
<1>1. CASE TakeLock(t) \/ Unlock(t) BY <1>1, UntouchedKeeps DEF TakeLock, Unlock
<1>2. QED BY <1>1, WritesKeep, EnsureKeeps, CommitKeeps, PushKeeps, PullKeeps DEF GitTask

LEMMA GitStepKeeps == RepoInv /\ [GNext]_gitvars => RepoKept
<1> SUFFICES ASSUME RepoInv, [GNext]_gitvars PROVE RepoKept
    OBVIOUS
<1>1. ASSUME NEW t \in Tasks, NEW o \in GitOps, BeginOp(t, o) PROVE RepoKept
  BY <1>1, UntouchedKeeps DEF BeginOp
<1>2. CASE UNCHANGED gitvars BY <1>2, UntouchedKeeps DEF gitvars
<1>3. QED BY <1>1, <1>2, GitTaskKeepsRepo, OthersKeep, ConfigureKeeps DEF GNext

LEMMA RepoInvInit == GInit => RepoInv
<1> SUFFICES ASSUME GInit PROVE RepoInv
    OBVIOUS
<1>1. PICK root \in {NoSha, <<{}>>} : hist = [b \in Heads |-> IF b = branch THEN root ELSE NoSha]
  BY DEF GInit, LocalRepo
<1>2. root \in Shas
  <2>1. {} \in Commit BY DEF Commit
  <2>2. <<{}>> \in Seq(Commit) BY <2>1
  <2>3. QED BY <1>1, <2>2, NoShaIsSha DEF Shas
<1>3. hist \in [Heads -> Shas] BY <1>1, <1>2, NoShaIsSha
<1>4. branch \in Heads /\ branch # "detached" BY GitAssumption, NamesApart DEF GInit, LocalRepo
<1>5. origin \in [Branch -> Shas] BY <1>3, NoShaIsSha, NamesApart DEF GInit
<1>6. tracked \in [Tracking -> Shas]
  <2>1. \A r \in Tracking : r # "server" => r \in Branch BY DEF Tracking
  <2>2. QED BY <1>5, <2>1, NoShaIsSha DEF GInit
<1>7. RepoTyped BY <1>3, <1>4, <1>5, <1>6 DEF GInit, LocalRepo, RepoTyped, Commit
<1>8. Reserved BY <1>1, <1>4, NamesApart DEF Reserved
<1>9. QED BY <1>7, <1>8 DEF RepoInv

\* OriginOnlyGrows, for any tasks, changes, other clones and failing commands: no push,
\* no retry after a rebase and no change of the branch ever rewrites origin.
THEOREM OriginIsNeverRewritten == GSpec => OriginOnlyGrows
<1>1. RepoInv /\ [GNext]_gitvars => RepoInv' /\ [\A b \in Branch : IsPrefix(origin[b], origin'[b])]_gitvars
  BY GitStepKeeps DEF RepoKept, OriginGrows
<1>2. QED BY <1>1, RepoInvInit, PTL DEF GSpec, OriginOnlyGrows

\* WorkIsKept, for any of them: what was exported once stays in the working tree or in a
\* history, by whatever rebases, renames, conflicts and rejections it goes.
THEOREM WorkIsNeverLost == GSpec => WorkIsKept
<1>1. RepoInv /\ [GNext]_gitvars => RepoInv' /\ [Kept \subseteq Kept']_gitvars
  BY GitStepKeeps DEF RepoKept
<1>2. QED BY <1>1, RepoInvInit, PTL DEF GSpec, WorkIsKept

-----------------------------------------------------------------------------
(* The flag *)

\* A push that is answered ok has left nothing of its branch to push.
LEMMA OkIsPushed ==
    ASSUME RepoInv, NEW a \in PushAnswers(branch, hist[branch]), a.res = "ok",
           UNCHANGED <<branch, hist, remotes>>, tracked' = a.tracked
    PROVE  ~Behind'
<1>1. CASE remotes = {} BY <1>1 DEF Behind
<1>2. CASE branch # "dev" BY <1>2 DEF Behind
<1>3. CASE branch = "dev" /\ remotes # {}
  <2>1. a.tracked = [tracked EXCEPT !["dev"] = hist["dev"]]
    BY <1>3 DEF PushAnswers, Answer, Refused
  <2>2. hist["dev"] \in Shas /\ tracked'["dev"] = hist["dev"]
    BY <2>1, NamesApart DEF RepoInv, RepoTyped
  <2>3. IsPrefix(hist'["dev"], tracked'["dev"])
    BY <2>2, PrefixReflexive
  <2>4. QED BY <2>3, NamesApart DEF Behind, Unpushed
<1>4. QED BY <1>1, <1>2, <1>3

PcOK == gpc = [t \in Tasks |-> gpc[t]]

\* The step of one task, as FlagTellsUnpushed looks at it.
FlagTold(t) ==
    gpc'[t] # gpc[t] =>
       /\ (gpc[t] \in {"commit", "push"} /\ gpc'[t] # "push" /\ Behind') => flag'
       /\ (flag /\ ~flag') => ~Behind'

LEMMA TaskTellsFlag ==
    ASSUME RepoInv, PcOK, NEW t \in Tasks, GitTask(t), RepoInv'
    PROVE  FlagTold(t)
<1>0. flag \in BOOLEAN /\ flag' \in BOOLEAN BY DEF RepoInv, RepoTyped
<1>1. CASE CommitAll(t)
  <2>1. CASE flag' BY <2>1 DEF FlagTold
  <2>2. CASE ~flag'
    <3>1. flag' = flag /\ gpc[t] = "commit"
      BY <1>1, <2>2 DEF CommitAll, At
    <3>2. gpc'[t] = (IF NeedsPush(tree # {}) THEN "push" ELSE AfterCycle(t))
      BY <1>1, <2>2 DEF CommitAll, GoTo, PcOK
    <3>3. CASE NeedsPush(tree # {}) BY <3>1, <3>2, <3>3 DEF FlagTold
    <3>4. CASE ~NeedsPush(tree # {})
      <4>1. ~Behind' BY <3>4, NamesApart DEF NeedsPush, HasUnpushed, Behind
      <4>2. QED BY <4>1 DEF FlagTold
    <3>5. QED BY <3>3, <3>4
  <2>3. QED BY <2>1, <2>2
<1>2. CASE PushDev(t)
  <2>1. PICK a \in PushAnswers(branch, hist[branch]) : tracked' = a.tracked /\ flag' = FlagAfter(a.res)
    BY <1>2 DEF PushDev
  <2>2. CASE a.res = "ok" BY <1>2, <2>1, <2>2, OkIsPushed DEF PushDev, FlagTold
  <2>3. CASE a.res # "ok" BY <2>1, <2>3 DEF FlagAfter, FlagTold
  <2>4. QED BY <2>2, <2>3
<1>3. CASE RetryPush(t)
  <2>1. PICK a \in PushAnswers(branch, hist[branch]) : tracked' = a.tracked /\ flag' = (flag /\ a.res # "ok")
    BY <1>3 DEF RetryPush
  <2>2. CASE a.res = "ok" BY <1>3, <2>1, <2>2, OkIsPushed DEF RetryPush, FlagTold
  <2>3. CASE a.res # "ok"
    <3>1. flag' = flag BY <1>0, <2>1, <2>3
    <3>2. QED BY <1>3, <3>1 DEF RetryPush, At, FlagTold
  <2>4. QED BY <2>2, <2>3
<1>4. CASE WriteFiles(t) \/ TakeLock(t) \/ EnsureBranch(t) \/ Pull(t) \/ Unlock(t)
  <2>1. gpc[t] \notin {"commit", "push"} /\ flag' = flag
    BY <1>4 DEF WriteFiles, TakeLock, EnsureBranch, Pull, Unlock, At, repo
  <2>2. QED BY <2>1 DEF FlagTold
<1>5. QED BY <1>1, <1>2, <1>3, <1>4 DEF GitTask

LEMMA OthersStay ==
    ASSUME PcOK, NEW t \in Tasks, GitTask(t) \/ \E o \in GitOps : BeginOp(t, o)
    PROVE  PcOK' /\ \A u \in Tasks \ {t} : gpc'[u] = gpc[u]
<1>1. \E s : gpc' = [gpc EXCEPT ![t] = s]
  BY DEF GitTask, WriteFiles, TakeLock, EnsureBranch, CommitAll, PushDev, Pull, RetryPush, Unlock,
         BeginOp, GoTo
<1>2. QED BY <1>1 DEF PcOK

LEMMA FlagStep == RepoInv /\ PcOK /\ [GNext]_gitvars => RepoInv' /\ PcOK' /\ [\A t \in Tasks : FlagTold(t)]_gitvars
<1> SUFFICES ASSUME RepoInv, PcOK, [GNext]_gitvars
             PROVE  RepoInv' /\ PcOK' /\ [\A t \in Tasks : FlagTold(t)]_gitvars
    OBVIOUS
<1>0. RepoInv' BY GitStepKeeps DEF RepoKept
<1>1. ASSUME NEW t \in Tasks, GitTask(t) PROVE PcOK' /\ \A u \in Tasks : FlagTold(u)
  <2>1. PcOK' /\ \A u \in Tasks \ {t} : FlagTold(u) BY <1>1, OthersStay DEF FlagTold
  <2>2. FlagTold(t) BY <1>0, <1>1, TaskTellsFlag
  <2>3. QED BY <2>1, <2>2
<1>2. ASSUME NEW t \in Tasks, NEW o \in GitOps, BeginOp(t, o) PROVE PcOK' /\ \A u \in Tasks : FlagTold(u)
  <2>1. PcOK' /\ \A u \in Tasks \ {t} : FlagTold(u) BY <1>2, OthersStay DEF FlagTold
  <2>2. FlagTold(t) BY <1>2 DEF BeginOp, At, repo, FlagTold
  <2>3. QED BY <2>1, <2>2
<1>3. CASE OthersPush \/ ConfigureGit
  BY <1>0, <1>3 DEF OthersPush, ConfigureGit, PcOK, FlagTold
<1>4. CASE UNCHANGED gitvars BY <1>0, <1>4 DEF gitvars, PcOK
<1>5. QED BY <1>0, <1>1, <1>2, <1>3, <1>4 DEF GNext

\* FlagTellsUnpushed, for any of them: a first push, or a cycle without one, that leaves
\* dev unpushed raises the flag, and no step of a cycle lowers it before a remote has dev.
THEOREM FlagIsHonest == GSpec => FlagTellsUnpushed
<1>1. GInit => PcOK BY DEF GInit, PcOK
<1>2. [\A t \in Tasks : FlagTold(t)]_gitvars
        => [\A t \in Tasks : gpc'[t] # gpc[t] =>
              /\ (gpc[t] \in {"commit", "push"} /\ gpc'[t] # "push" /\ Behind') => flag'
              /\ (flag /\ ~flag') => ~Behind']_gitvars
  BY DEF FlagTold
<1>3. QED BY <1>1, <1>2, RepoInvInit, FlagStep, PTL DEF GSpec, FlagTellsUnpushed

-----------------------------------------------------------------------------
(* Publications *)

\* What the records are made of; their commits may be anything.
ShapeOK ==
    /\ awaited = [t \in Tasks |-> Result(awaited[t].sha, awaited[t].status)]
    /\ serving = [tree |-> serving.tree, active |-> serving.active, copies |-> serving.copies,
                   credentials |-> serving.credentials]
    /\ gpc = [t \in Tasks |-> gpc[t]] /\ op = [t \in Tasks |-> op[t]]

\* Every ok anybody holds goes back to the server's history.
OkIsLogged ==
    /\ marker.status = "ok" => marker.sha \in log
    /\ \A t \in Tasks : awaited[t].status = "ok" => awaited[t].sha \in log
    /\ OkWasDeployed

\* A hook that is past its archive has the files of its own commit, whatever other pushes
\* have arrived since.
CheckoutIsOfHook == Hook("deploy") \/ Hook("import") => checkout = running

DeployInv == ShapeOK /\ OkIsLogged /\ CheckoutIsOfHook

\* The steps of an operation from the lock to its release, the branch check of the CI
\* settings left out.
Inside(t) == gpc[t] \in Locked \cup {"pushing"} \/ (gpc[t] = "branch" /\ op[t] # "ci")
InsideHoldsLock == \A t \in Tasks : Inside(t) => lock = t

\* One task at a time is inside (workspace_git_lock around sync, pull, commit and publish).
OneInside == \A s, t \in Tasks : Inside(s) /\ Inside(t) => s = t

-----------------------------------------------------------------------------
LEMMA DeployInvInit == PInit => DeployInv
BY DEF PInit, GInit, ServerInit, DeployInv, ShapeOK, OkIsLogged, OkWasDeployed,
       CheckoutIsOfHook, Hook, Nothing, Result, NoMarker, Marker, NoSha, NoPush

\* The steps of a task keep the server's side of the invariant as it is.
LEMMA ServerUntouched ==
    ASSUME DeployInv, UNCHANGED <<running, hpc, checkout, serving, marker, log>>
    PROVE  /\ CheckoutIsOfHook'
           /\ (marker.status = "ok" => marker.sha \in log)'
           /\ serving' = [tree |-> serving'.tree, active |-> serving'.active, copies |-> serving'.copies,
                       credentials |-> serving'.credentials]
BY DEF DeployInv, ShapeOK, OkIsLogged, CheckoutIsOfHook, Hook

\* A return forgets what was awaited and keeps the rest.
LEMMA ReturnKeeps ==
    ASSUME DeployInv, NEW t \in Tasks, Return(t), log' = log
    PROVE  /\ awaited' = [u \in Tasks |-> Result(awaited'[u].sha, awaited'[u].status)]
           /\ gpc' = [u \in Tasks |-> gpc'[u]] /\ op' = [u \in Tasks |-> op'[u]]
           /\ \A u \in Tasks : awaited'[u].status = "ok" => awaited'[u].sha \in log'
BY DEF DeployInv, ShapeOK, OkIsLogged, Return, GoTo, Nothing, Result

\* So does a step that changes no more than where a task is.
LEMMA MoveKeeps ==
    ASSUME DeployInv, NEW t \in Tasks, NEW s, GoTo(t, s), UNCHANGED <<op, awaited, log>>
    PROVE  /\ awaited' = [u \in Tasks |-> Result(awaited'[u].sha, awaited'[u].status)]
           /\ gpc' = [u \in Tasks |-> gpc'[u]] /\ op' = [u \in Tasks |-> op'[u]]
           /\ \A u \in Tasks : awaited'[u].status = "ok" => awaited'[u].sha \in log'
BY DEF DeployInv, ShapeOK, OkIsLogged, GoTo, Result

\* The steps of a task, one by one.
LEMMA PublishTaskKeeps ==
    ASSUME DeployInv, NEW t \in Tasks, PublishTask(t) PROVE DeployInv'
<1> USE DEF DeployInv, ShapeOK, OkIsLogged, OkWasDeployed
<1>1. CASE UploadSecrets(t)
  <2>1. UNCHANGED <<running, hpc, checkout, serving, marker, log, row>>
        BY <1>1 DEF UploadSecrets
  <2>2. Return(t) \/ (GoTo(t, "lock") /\ UNCHANGED <<op, awaited>>)
        BY <1>1 DEF UploadSecrets, Unreachable
  <2>3. QED BY <2>1, <2>2, ServerUntouched, ReturnKeeps, MoveKeeps
<1>2. CASE PushToServer(t)
  <2>1. UNCHANGED <<running, hpc, checkout, serving, marker, log>>
        BY <1>2 DEF PushToServer, Server
  <2>2. CASE /\ Return(t)
             /\ row' = row \/ row' = Result(NoSha, "error")
        BY <2>1, <2>2, ServerUntouched, ReturnKeeps DEF Result
  <2>3. CASE /\ awaited' = [awaited EXCEPT ![t] = Result(hist[branch], "none")]
             /\ \E s : GoTo(t, s)
             /\ UNCHANGED <<op, row>>
    <3>1. /\ awaited' = [u \in Tasks |-> Result(awaited'[u].sha, awaited'[u].status)]
          /\ \A u \in Tasks : awaited'[u].status = "ok" => awaited'[u].sha \in log'
          BY <2>1, <2>3 DEF Result
    <3>2. gpc' = [u \in Tasks |-> gpc'[u]] /\ op' = [u \in Tasks |-> op'[u]]
          BY <2>3 DEF GoTo
    <3>3. QED BY <2>1, <2>3, <3>1, <3>2, ServerUntouched
  <2>4. QED BY <1>2, <2>2, <2>3 DEF PushToServer
<1>3. CASE PushReturns(t)
  <2>1. UNCHANGED <<running, hpc, checkout, serving, marker, log>>
        BY <1>3 DEF PushReturns, Server
  <2>2. \/ Return(t) /\ row' = Result(NoSha, "error")
        \/ GoTo(t, "poll") /\ UNCHANGED <<op, awaited, row>>
        BY <1>3 DEF PushReturns
  <2>3. QED BY <2>1, <2>2, ServerUntouched, ReturnKeeps, MoveKeeps DEF Result
<1>4. CASE Poll(t)
  <2> DEFINE found == IF MarkerCounts(t) THEN marker.status ELSE "timeout"
  <2>1. UNCHANGED <<running, hpc, checkout, serving, marker, log, row>>
        BY <1>4 DEF Poll, servervars
  <2>2. CASE Return(t) BY <2>1, <2>2, ServerUntouched, ReturnKeeps
  <2>3. CASE /\ awaited' = [awaited EXCEPT ![t].status = found]
             /\ GoTo(t, "record") /\ UNCHANGED op
    <3>1. awaited'[t] = Result(awaited[t].sha, found)
          BY <2>3 DEF Result
    <3>2. \A u \in Tasks \ {t} : awaited'[u] = awaited[u]
          BY <2>3
    <3>3. found = "ok" => awaited[t].sha \in log
          BY DEF MarkerCounts
    <3>4. awaited' = [u \in Tasks |-> Result(awaited'[u].sha, awaited'[u].status)]
      <4> HIDE DEF found
      <4>1. awaited' = [u \in Tasks |-> awaited'[u]] BY <2>3
      <4>2. \A u \in Tasks : awaited'[u] = Result(awaited'[u].sha, awaited'[u].status)
            BY <3>1, <3>2 DEF Result
      <4>3. QED BY <4>1, <4>2
    <3>5. \A u \in Tasks : awaited'[u].status = "ok" => awaited'[u].sha \in log'
      <4>1. awaited'[t].status = found /\ awaited'[t].sha = awaited[t].sha
            BY <3>1 DEF Result
      <4>2. awaited'[t].status = "ok" => awaited'[t].sha \in log'
        <5> HIDE DEF found
        <5>1. QED BY <2>1, <4>1, <3>3
      <4>3. \A u \in Tasks \ {t} : awaited'[u].status = "ok" => awaited'[u].sha \in log'
            BY <2>1, <3>2
      <4>4. QED BY <4>2, <4>3
    <3>6. gpc' = [u \in Tasks |-> gpc'[u]] /\ op' = [u \in Tasks |-> op'[u]]
          BY <2>3 DEF GoTo
    <3>7. QED BY <2>1, <3>4, <3>5, <3>6, ServerUntouched
  <2>4. QED BY <1>4, <2>2, <2>3 DEF Poll, Unreachable
<1>5. CASE RecordStatus(t)
  <2>1. UNCHANGED <<running, hpc, checkout, serving, marker, log>>
        BY <1>5 DEF RecordStatus, servervars
  <2>2. Return(t) /\ (row' = Result(NoSha, "timeout") \/ row' = awaited[t])
        BY <1>5 DEF RecordStatus
  <2>3. QED BY <2>1, <2>2, ServerUntouched, ReturnKeeps DEF Result
<1>6. QED BY <1>1, <1>2, <1>3, <1>4, <1>5 DEF PublishTask

\* The steps of the repository keep out of everything a publication or the server has.
LEMMA GitTaskKeeps ==
    ASSUME DeployInv, NEW t \in Tasks, GitTask(t), UNCHANGED <<servervars, publishvars>>
    PROVE  DeployInv'
<1>1. (gpc = [u \in Tasks |-> gpc[u]] /\ op = [u \in Tasks |-> op[u]])'
  <2>1. (\E s : GoTo(t, s)) /\ (op' = op \/ \E o : op' = [op EXCEPT ![t] = o])
        BY DEF GitTask, WriteFiles, TakeLock, EnsureBranch, CommitAll, PushDev, Pull, RetryPush,
               Unlock
  <2>2. QED BY <2>1 DEF GoTo, DeployInv, ShapeOK
<1>2. UNCHANGED <<running, hpc, checkout, serving, marker, log, awaited, row>>
      BY DEF servervars, publishvars
<1>3. QED BY <1>1, <1>2
          DEF DeployInv, ShapeOK, OkIsLogged, OkWasDeployed, CheckoutIsOfHook, Hook

\* A hook writes ok only for its own commit, which its history then has.
LEMMA HookKeeps ==
    ASSUME DeployInv, HookNext PROVE DeployInv'
<1> USE DEF DeployInv, ShapeOK, OkIsLogged, OkWasDeployed, CheckoutIsOfHook, Hook
<1>1. UNCHANGED <<gpc, op, awaited, row>>
      BY DEF HookNext, gitvars, publishvars
<1>2. ASSUME NEW sha, HookLock(sha) PROVE DeployInv'
      BY <1>1, <1>2 DEF HookLock
<1>3. CASE Archive
  <2>1. CASE checkout' = running /\ hpc' = "deploy" /\ UNCHANGED <<running, marker, log, serving>>
        BY <1>1, <2>1
  <2>2. CASE EndHook(TRUE) /\ UNCHANGED serving
        BY <1>1, <2>2 DEF EndHook, Marker, Verdict
  <2>3. QED BY <1>3, <2>1, <2>2 DEF Archive
<1>4. CASE DeployCredentials
  <2>1. CASE /\ serving' = [serving EXCEPT !.credentials = secrets]
             /\ hpc' = "import" /\ UNCHANGED <<running, marker, log, checkout>>
        BY <1>1, <1>4, <2>1 DEF DeployCredentials
  <2>2. CASE EndHook(TRUE) /\ UNCHANGED serving
        BY <1>1, <2>2 DEF EndHook, Marker, Verdict
  <2>3. QED BY <1>4, <2>1, <2>2 DEF DeployCredentials
<1>5. CASE DeployWorkflows
  <2>1. ASSUME NEW a, NEW c, Imported(checkout, a, c), EndHook(FALSE) PROVE DeployInv'
        BY <1>1, <1>5, <2>1 DEF DeployWorkflows, Imported, EndHook, Marker, Verdict
  <2>2. ASSUME NEW a, NEW c, Imported(Mixed, a, c), EndHook(TRUE) PROVE DeployInv'
        BY <1>1, <1>5, <2>2 DEF DeployWorkflows, Imported, EndHook, Marker, Verdict
  <2>3. QED BY <1>5, <2>1, <2>2 DEF DeployWorkflows
<1>6. CASE Reboot
  <2>1. serving' = serving \/ \E a, c : Imported(Mixed, a, c) BY <1>6 DEF Reboot
  <2>2. QED BY <1>1, <1>6, <2>1 DEF Reboot, Imported
<1>7. QED BY <1>2, <1>3, <1>4, <1>5, <1>6 DEF HookNext, HookStepNext

\* Every step keeps it.
LEMMA DeployInvNext == DeployInv /\ [PNext]_pvars => DeployInv'
<1> SUFFICES ASSUME DeployInv, [PNext]_pvars PROVE DeployInv'
    OBVIOUS
<1> USE DEF DeployInv, ShapeOK, OkIsLogged, OkWasDeployed, CheckoutIsOfHook, Hook
<1>1. ASSUME NEW t \in Tasks, TaskNext(t) PROVE DeployInv'
      BY <1>1, PublishTaskKeeps, GitTaskKeeps DEF TaskNext
<1>2. ASSUME NEW t \in Tasks, Start(t) PROVE DeployInv'
      BY <1>2 DEF Start, BeginOp, GoTo, servervars, publishvars
<1>3. CASE HookNext BY <1>3, HookKeeps
<1>4. CASE Outside
      BY <1>4 DEF Outside, OthersPush, ConfigureGit, servervars, publishvars
<1>5. CASE OthersPublish
      BY <1>5 DEF OthersPublish, gitvars, publishvars
<1>6. CASE Kill
      BY <1>6 DEF Kill, servervars, Nothing, Result
<1>7. CASE UNCHANGED pvars
      BY <1>7 DEF pvars, gitvars, servervars, publishvars
<1>8. QED BY <1>1, <1>2, <1>3, <1>4, <1>5, <1>6, <1>7 DEF PNext

-----------------------------------------------------------------------------
\* OkWasDeployed for any tasks, commits and faults: the marker that was waited for is in
\* the history of the server, however many other markers came before and after it.
THEOREM RecordedOkWasDeployed == PSpec => []OkWasDeployed
<1>1. DeployInv => OkWasDeployed BY DEF DeployInv, OkIsLogged
<1>2. QED BY <1>1, DeployInvInit, DeployInvNext, PTL DEF PSpec

\* A step that writes an ok marker has just given n8n the workflows of that commit.
LEMMA OkMarkerIsServed ==
    ASSUME DeployInv, [PNext]_pvars, marker' # marker, marker'.status = "ok"
    PROVE  serving'.tree = marker'.sha
<1> USE DEF DeployInv, ShapeOK, CheckoutIsOfHook, Hook
<1>1. ASSUME NEW t \in Tasks, TaskNext(t) \/ Start(t) PROVE marker' = marker
      BY <1>1 DEF TaskNext, PublishTask, Start, UploadSecrets, PushToServer, PushReturns, Poll,
                  RecordStatus, servervars, Server
<1>2. CASE Outside \/ OthersPublish \/ Kill \/ UNCHANGED pvars
      BY <1>2 DEF Outside, OthersPublish, Kill, pvars, servervars
<1>3. CASE HookNext
  <2>1. CASE Archive BY <2>1 DEF Archive, EndHook, Marker, Verdict
  <2>2. CASE DeployCredentials BY <2>2 DEF DeployCredentials, EndHook, Marker, Verdict
  <2>3. CASE DeployWorkflows
    <3>1. CASE EndHook(TRUE) BY <3>1 DEF EndHook, Marker, Verdict
    <3>2. ASSUME NEW a, NEW c, Imported(checkout, a, c), EndHook(FALSE) PROVE serving'.tree = marker'.sha
      <4>1. serving'.tree = checkout BY <3>2 DEF Imported
      <4>2. checkout = running BY <2>3 DEF DeployWorkflows
      <4>3. QED BY <3>2, <4>1, <4>2 DEF EndHook, Marker
    <3>3. QED BY <2>3, <3>1, <3>2 DEF DeployWorkflows
  <2>4. CASE Reboot \/ \E sha \in hooks : HookLock(sha) BY <2>4 DEF Reboot, HookLock
  <2>5. QED BY <1>3, <2>1, <2>2, <2>3, <2>4 DEF HookNext, HookStepNext
<1>4. QED BY <1>1, <1>2, <1>3 DEF PNext

\* OkIsServed: a hook that ends well has had the files of its own commit since its archive,
\* whichever pushes arrived and hooks waited meanwhile, and after any failure or reboot;
\* all of them have been given to n8n.  Some may be inactive, and some there twice.
THEOREM OkMeansServed == PSpec => OkIsServed
<1>1. DeployInv /\ [PNext]_pvars
        => [(marker' # marker /\ marker'.status = "ok") => serving'.tree = marker'.sha]_pvars
      BY OkMarkerIsServed
<1>2. QED BY <1>1, DeployInvInit, DeployInvNext, PTL DEF PSpec, OkIsServed

-----------------------------------------------------------------------------
(* The lock *)

InsideInv == (gpc = [t \in Tasks |-> gpc[t]]) /\ (op = [t \in Tasks |-> op[t]]) /\ InsideHoldsLock

\* A step of one task keeps the others where they are; those inside hold the lock.
LEMMA InsideNext == InsideInv /\ [PNext]_pvars => InsideInv'
<1> SUFFICES ASSUME InsideInv, [PNext]_pvars PROVE InsideInv'
    OBVIOUS
<1> USE GitAssumption DEF InsideInv, InsideHoldsLock, Inside, Locked, GoTo, At
<1>1. ASSUME NEW t \in Tasks, GitTask(t) PROVE InsideInv'
  <2>1. CASE WriteFiles(t) BY <2>1 DEF WriteFiles
  <2>2. CASE TakeLock(t) BY <2>2 DEF TakeLock
  <2>3. CASE EnsureBranch(t) BY <2>3 DEF EnsureBranch
  <2>4. CASE CommitAll(t) BY <2>4 DEF CommitAll, AfterCycle
  <2>5. CASE PushDev(t) BY <2>5 DEF PushDev, AfterCycle
  <2>6. CASE Pull(t) BY <2>6 DEF Pull, AfterCycle
  <2>7. CASE RetryPush(t) BY <2>7 DEF RetryPush, AfterCycle
  <2>8. CASE Unlock(t) BY <2>8 DEF Unlock
  <2>9. QED BY <1>1, <2>1, <2>2, <2>3, <2>4, <2>5, <2>6, <2>7, <2>8 DEF GitTask
<1>2. ASSUME NEW t \in Tasks, PublishTask(t) PROVE InsideInv'
  <2>1. CASE UploadSecrets(t) BY <2>1 DEF UploadSecrets, Unreachable, Return, repo
  <2>2. CASE PushToServer(t) BY <2>2 DEF PushToServer, Return
  <2>3. CASE PushReturns(t) BY <2>3 DEF PushReturns, Return
  <2>4. CASE Poll(t) BY <2>4 DEF Poll, Unreachable, Return
  <2>5. CASE RecordStatus(t) BY <2>5 DEF RecordStatus, Return
  <2>6. QED BY <1>2, <2>1, <2>2, <2>3, <2>4, <2>5 DEF PublishTask
<1>3. ASSUME NEW t \in Tasks, Start(t) PROVE InsideInv'
      BY <1>3 DEF Start, BeginOp
<1>4. CASE HookNext \/ Outside \/ OthersPublish
      BY <1>4 DEF HookNext, Outside, OthersPush, ConfigureGit, OthersPublish, gitvars
<1>5. CASE Kill BY <1>5 DEF Kill
<1>6. CASE UNCHANGED pvars BY <1>6 DEF pvars, gitvars
<1>7. QED BY <1>1, <1>2, <1>3, <1>4, <1>5, <1>6 DEF PNext, TaskNext

\* Syncs, pulls, CI commits and publications of one workspace never overlap between the lock
\* and its release, whichever of them fail, give up or die (workspace_git_lock).
THEOREM OneTaskInside == PSpec => []OneInside
<1>1. PInit => InsideInv
      BY DEF PInit, GInit, InsideInv, InsideHoldsLock, Inside, Locked
<1>2. InsideInv => OneInside BY DEF InsideInv, InsideHoldsLock, OneInside
<1>3. QED BY <1>1, <1>2, InsideNext, PTL DEF PSpec

-----------------------------------------------------------------------------
(* The repository of a workspace that is published *)

PublishedInv == RepoInv /\ main \in Shas

\* What a step of a publication may do to the repository and to the production branch.
LEMMA PublishedKeeps == PublishedInv /\ [PNext]_pvars => RepoKept /\ main' \in Shas /\ IsPrefix(main, main')
<1> SUFFICES ASSUME PublishedInv, [PNext]_pvars
             PROVE  RepoKept /\ main' \in Shas /\ IsPrefix(main, main')
    OBVIOUS
<1>0. RepoInv /\ main \in Shas /\ IsPrefix(main, main)
  BY PrefixReflexive DEF PublishedInv
<1>1. \A b \in Heads : hist[b] \in Shas BY <1>0 DEF RepoInv, RepoTyped
<1>2. PushedBranch \in Heads BY <1>0, NamesApart DEF PushedBranch, RepoInv, RepoTyped
<1>3. ASSUME Local' = Local, tracked' = tracked \/ \E s \in Shas : tracked' = [tracked EXCEPT !["server"] = s]
      PROVE  RepoKept
  <2>1. tracked' \in [Tracking -> Shas] BY <1>0, <1>3, NamesApart DEF RepoInv, RepoTyped
  <2>2. RepoTyped' BY <1>0, <1>3, <2>1 DEF Local, RepoInv, RepoTyped
  <2>3. QED BY <1>0, <1>3, <2>2, SameRepo DEF Local, RepoKept
<1>4. ASSUME NEW t \in Tasks, UploadSecrets(t) \/ Poll(t) \/ RecordStatus(t)
      PROVE  UNCHANGED repo /\ main' = main
  BY <1>4 DEF UploadSecrets, Poll, RecordStatus, servervars
<1>5. ASSUME NEW t \in Tasks, PushToServer(t)
      PROVE  RepoKept /\ main' \in Shas /\ IsPrefix(main, main')
  <2>1. Local' = Local /\ (tracked' = tracked \/ \E s \in Shas : tracked' = [tracked EXCEPT !["server"] = s])
    BY <1>1, <1>2, <1>5 DEF PushToServer
  <2>2. main' = main \/ (main' \in Shas /\ IsPrefix(main, main'))
    BY <1>1, <1>2, <1>5 DEF PushToServer, Receive, FastForward
  <2>3. QED BY <1>0, <1>3, <2>1, <2>2
<1>6. ASSUME NEW t \in Tasks, PushReturns(t) PROVE RepoKept /\ main' = main
  <2>1. Local' = Local /\ (tracked' = tracked \/ \E s \in Shas : tracked' = [tracked EXCEPT !["server"] = s])
    BY <1>1, <1>2, <1>6 DEF PushReturns
  <2>2. QED BY <1>3, <1>6, <2>1 DEF PushReturns
<1>7. ASSUME NEW t \in Tasks, GitTask(t), UNCHANGED <<servervars, publishvars>>
      PROVE  RepoKept /\ main' = main
  BY <1>0, <1>7, GitTaskKeepsRepo DEF servervars
<1>8. ASSUME NEW t \in Tasks, Start(t) PROVE UNCHANGED repo /\ main' = main
  BY <1>8 DEF Start, BeginOp, servervars
<1>9. CASE HookNext
  BY <1>0, <1>9, UntouchedKeeps
     DEF HookNext, HookStepNext, Archive, DeployCredentials, DeployWorkflows, Reboot, HookLock, gitvars
<1>10. CASE Outside
  BY <1>0, <1>10, OthersKeep, ConfigureKeeps DEF Outside, servervars
<1>11. CASE OthersPublish
  <2>1. origin["dev"] \in Shas BY <1>0, NamesApart DEF RepoInv, RepoTyped
  <2>2. main' = origin["dev"] /\ IsPrefix(main, main') /\ UNCHANGED repo
    BY <1>11 DEF OthersPublish, Receive, FastForward, gitvars
  <2>3. QED BY <1>0, <2>1, <2>2, UntouchedKeeps
<1>12. CASE Kill BY <1>0, <1>12, UntouchedKeeps DEF Kill, servervars
<1>13. CASE UNCHANGED pvars BY <1>0, <1>13, UntouchedKeeps DEF pvars, gitvars, servervars
<1>14. QED
  BY <1>0, <1>4, <1>5, <1>6, <1>7, <1>8, <1>9, <1>10, <1>11, <1>12, <1>13, UntouchedKeeps
     DEF PNext, TaskNext, PublishTask

LEMMA PublishedHolds == PSpec => []PublishedInv
<1>1. PInit => PublishedInv
  BY RepoInvInit, NoShaIsSha DEF PInit, ServerInit, PublishedInv
<1>2. PublishedInv /\ [PNext]_pvars => PublishedInv'
  BY PublishedKeeps DEF PublishedInv, RepoKept
<1>3. QED BY <1>1, <1>2, PTL DEF PSpec

\* WorkIsKept and OriginOnlyGrows with publications, their give-ups and a launcher that dies
\* in any step: publishing adds nothing that loses work or rewrites origin.
THEOREM PublishingKeepsWork == PSpec => WorkIsKept /\ OriginOnlyGrows
<1>1. PublishedInv /\ [PNext]_pvars
        => [Kept \subseteq Kept']_gitvars /\ [\A b \in Branch : IsPrefix(origin[b], origin'[b])]_gitvars
  BY PublishedKeeps DEF RepoKept, OriginGrows
<1>2. QED BY <1>1, PublishedHolds, PTL DEF PSpec, WorkIsKept, OriginOnlyGrows

\* ProductionOnlyGrows: no push to the server, this launcher's or another's, rewrites the
\* production branch.
THEOREM ProductionIsNeverRewritten == PSpec => ProductionOnlyGrows
<1>1. PublishedInv /\ [PNext]_pvars => [IsPrefix(main, main')]_pvars
  BY PublishedKeeps
<1>2. QED BY <1>1, PublishedHolds, PTL DEF PSpec, ProductionOnlyGrows

=============================================================================
