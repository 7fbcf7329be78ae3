-------------------------- MODULE RepoGatesProofs ---------------------------
(***************************************************************************)
(* The published STOP policy, for every text of the agent files            *)
(* (scripts/sync_agent_stop_conditions.py); the open-question update       *)
(* check, for every history of the registry (scripts/check_oq_updates.py); *)
(* and the gates together, as MCRepoGates composes them.                   *)
(***************************************************************************)
EXTENDS MCRepoGates, FeatureLifecycleProofs, SelectionProofs, FiniteSetTheorems

-----------------------------------------------------------------------------
(* Places in a file *)

LEMMA AtPlaces ==
    ASSUME NEW f \in Seq(Tokens), NEW token
    PROVE  /\ Len(f) \in Nat /\ DOMAIN f = 1 .. Len(f)
           /\ At(f, token) = {i \in 1 .. Len(f) : f[i] = token}
           /\ At(f, token) \in SUBSET Nat
           /\ IsFiniteSet(At(f, token))
<1>1. Len(f) \in Nat /\ DOMAIN f = 1 .. Len(f)
  BY LenProperties
<1>2. At(f, token) = {i \in 1 .. Len(f) : f[i] = token}
  BY <1>1 DEF At
<1>3. IsFiniteSet(1 .. Len(f)) /\ At(f, token) \subseteq 1 .. Len(f)
  BY <1>1, <1>2, FS_Interval
<1>4. IsFiniteSet(At(f, token))
  BY <1>3, FS_Subset
<1> QED BY <1>1, <1>2, <1>3, <1>4

LEMMA AtOne ==
    ASSUME NEW f \in Seq(Tokens), NEW token
    PROVE  Cardinality(At(f, token)) = 1 <=> \E i : At(f, token) = {i}
BY AtPlaces, FS_Singleton

LEMMA StopPlaces ==
    ASSUME NEW f \in Seq(Tokens)
    PROVE  /\ Stops(f) = {i \in 1 .. Len(f) : f[i] \in {"stop", "STOP"}}
           /\ Stops(f) \in SUBSET Nat
           /\ IsFiniteSet(Stops(f))
<1>1. \A token : /\ At(f, token) = {i \in 1 .. Len(f) : f[i] = token}
                 /\ At(f, token) \in SUBSET Nat /\ IsFiniteSet(At(f, token))
  BY AtPlaces
<1>2. IsFiniteSet(Stops(f))
  BY <1>1, FS_Union DEF Stops
<1> QED BY <1>1, <1>2 DEF Stops

LEMMA AtMostOne ==
    ASSUME NEW f \in Seq(Tokens)
    PROVE  Cardinality(Stops(f)) <= 1 <=> \A i, j \in Stops(f) : i = j
<1> DEFINE A == Stops(f)
<1>1. IsFiniteSet(A) /\ Cardinality(A) \in Nat
  BY StopPlaces, FS_CardinalityType
<1> HIDE DEF A
<1>2. Cardinality(A) = 0 <=> A = {}
  BY <1>1, FS_EmptySet
<1>3. Cardinality(A) = 1 <=> \E i : A = {i}
  BY <1>1, FS_Singleton
<1>4. Cardinality(A) <= 1 <=> Cardinality(A) = 0 \/ Cardinality(A) = 1
  BY <1>1
<1>5. (\A i, j \in A : i = j) <=> (A = {} \/ \E i : A = {i})
  <2>1. ASSUME \A i, j \in A : i = j, NEW x \in A
        PROVE  A = {x}
    BY <2>1
  <2> QED BY <2>1
<1> QED BY <1>2, <1>3, <1>4, <1>5 DEF A

LEMMA AtIs ==
    ASSUME NEW f \in Seq(Tokens), NEW token, NEW i \in 1 .. Len(f),
           \A k \in 1 .. Len(f) : f[k] = token <=> k = i
    PROVE  At(f, token) = {i}
BY AtPlaces

LEMMA AtGives ==
    ASSUME NEW f \in Seq(Tokens), NEW token, NEW i, At(f, token) = {i}
    PROVE  i \in 1 .. Len(f) /\ \A k \in 1 .. Len(f) : f[k] = token <=> k = i
BY AtPlaces

LEMMA FirstIs ==
    ASSUME NEW f \in Seq(Tokens), NEW token, NEW i, At(f, token) = {i}
    PROVE  First(f, token) = i /\ i \in 1 .. Len(f) /\ f[i] = token
<1>1. i \in 1 .. Len(f) /\ f[i] = token /\ {i} \in SUBSET Nat
  BY AtPlaces
<1>2. Min({i}) = i
  BY <1>1, MinIs
<1> QED BY <1>1, <1>2 DEF First

LEMMA FirstIsLeast ==
    ASSUME NEW f \in Seq(Tokens), NEW token, At(f, token) # {}
    PROVE  /\ First(f, token) \in 1 .. Len(f) /\ f[First(f, token)] = token
           /\ \A j \in At(f, token) : First(f, token) <= j
<1>1. First(f, token) \in At(f, token) /\ \A j \in At(f, token) : First(f, token) <= j
  BY AtPlaces, MinIsLeast DEF First
<1> QED BY <1>1, AtPlaces

LEMMA FirstStop ==
    ASSUME NEW f \in Seq(Tokens), Stops(f) # {}
    PROVE  /\ Min(Stops(f)) \in 1 .. Len(f) /\ f[Min(Stops(f))] \in {"stop", "STOP"}
           /\ \A k \in 1 .. Len(f) : f[k] \in {"stop", "STOP"} => Min(Stops(f)) <= k
<1>1. Min(Stops(f)) \in Stops(f) /\ \A j \in Stops(f) : Min(Stops(f)) <= j
  BY StopPlaces, MinIsLeast
<1> QED BY <1>1, StopPlaces

LEMMA FirstMarkers ==
    ASSUME NEW f \in Seq(Tokens), InOrder(f)
    PROVE  \E p, e : /\ At(f, "begin") = {p} /\ First(f, "begin") = p
                     /\ At(f, "end") = {e} /\ First(f, "end") = e
<1>1. PICK p, e : At(f, "begin") = {p} /\ At(f, "end") = {e}
  BY AtOne DEF InOrder, OneMarkerEach
<1>2. First(f, "begin") = p
  BY <1>1, FirstIs
<1>3. First(f, "end") = e
  BY <1>1, FirstIs
<1> QED BY <1>1, <1>2, <1>3

LEMMA NextH2Is ==
    ASSUME NEW f \in Seq(Tokens), NEW i \in 1 .. Len(f)
    PROVE  /\ NextH2(f, i) \in i + 1 .. Len(f) + 1
           /\ \A j \in i + 1 .. NextH2(f, i) - 1 : f[j] \notin H2
           /\ NextH2(f, i) <= Len(f) => f[NextH2(f, i)] \in H2
<1>1. Len(f) \in Nat /\ DOMAIN f = 1 .. Len(f)
  BY LenProperties
<1> DEFINE A == {j \in DOMAIN f : j > i /\ f[j] \in H2} \union {Len(f) + 1}
<1>2. A \in SUBSET Nat /\ A # {} /\ Len(f) + 1 \in A
  BY <1>1
<1>3. Min(A) \in A /\ \A x \in A : Min(A) <= x
  <2> HIDE DEF A
  <2> QED BY <1>2, MinIsLeast
<1>4. NextH2(f, i) = Min(A)
  BY DEF NextH2
<1>5. Min(A) \in i + 1 .. Len(f) + 1
  BY <1>1, <1>3
<1>6. ASSUME NEW j \in i + 1 .. Min(A) - 1
      PROVE  f[j] \notin H2
  <2>1. j \in DOMAIN f /\ j > i /\ j < Min(A)
    BY <1>1, <1>5
  <2>2. j \notin A
    <3> HIDE DEF A
    <3> QED BY <1>1, <1>3, <1>5, <2>1
  <2> QED BY <2>1, <2>2
<1>7. Min(A) <= Len(f) => f[Min(A)] \in H2
  BY <1>1, <1>3
<1> QED BY <1>4, <1>5, <1>6, <1>7

LEMMA Pieces ==
    ASSUME NEW f \in Seq(Tokens), NEW i \in 1 .. Len(f) + 1
    PROVE  /\ Before(f, i) \in Seq(Tokens) /\ From(f, i) \in Seq(Tokens)
           /\ Len(Before(f, i)) = i - 1 /\ Len(From(f, i)) = Len(f) + 1 - i
           /\ \A k \in 1 .. i - 1 : Before(f, i)[k] = f[k]
           /\ \A k \in 1 .. Len(f) + 1 - i : From(f, i)[k] = f[i + k - 1]
<1>1. Len(f) \in Nat /\ \A k \in 1 .. Len(f) : f[k] \in Tokens
  BY LenProperties
<1>2. /\ 1 \in Int /\ i - 1 \in Int /\ \A k \in 1 .. i - 1 : f[k] \in Tokens
      /\ i \in Int /\ Len(f) \in Int /\ \A k \in i .. Len(f) : f[k] \in Tokens
  BY <1>1
<1>3. /\ Before(f, i) \in Seq(Tokens)
      /\ Len(Before(f, i)) = IF 1 <= i - 1 THEN (i - 1) - 1 + 1 ELSE 0
      /\ \A k \in 1 .. (i - 1) - 1 + 1 : Before(f, i)[k] = f[1 + k - 1]
  BY <1>2, SubSeqProperties DEF Before
<1>4. /\ From(f, i) \in Seq(Tokens)
      /\ Len(From(f, i)) = IF i <= Len(f) THEN Len(f) - i + 1 ELSE 0
      /\ \A k \in 1 .. Len(f) - i + 1 : From(f, i)[k] = f[i + k - 1]
  BY <1>2, SubSeqProperties DEF From
<1> QED BY <1>1, <1>3, <1>4

\* g is f with mid in the place of what lies from p up to q.
IsSplice(g, f, p, mid, q) ==
    /\ g \in Seq(Tokens)
    /\ Len(g) = (p - 1) + Len(mid) + (Len(f) + 1 - q)
    /\ \A k \in 1 .. p - 1 : g[k] = f[k]
    /\ \A k \in p .. p - 1 + Len(mid) : g[k] = mid[k - p + 1]
    /\ \A k \in p + Len(mid) .. Len(g) : g[k] = f[k - (p + Len(mid)) + q]

LEMMA Splice ==
    ASSUME NEW f \in Seq(Tokens), NEW p \in 1 .. Len(f) + 1, NEW q \in 1 .. Len(f) + 1,
           NEW mid \in Seq(Tokens)
    PROVE  IsSplice(Before(f, p) \o mid \o From(f, q), f, p, mid, q)
<1>1. PICK a, b : a = Before(f, p) /\ b = From(f, q)
  OBVIOUS
<1>2. /\ a \in Seq(Tokens) /\ Len(a) = p - 1 /\ \A k \in 1 .. p - 1 : a[k] = f[k]
      /\ b \in Seq(Tokens) /\ Len(b) = Len(f) + 1 - q
      /\ \A k \in 1 .. Len(f) + 1 - q : b[k] = f[q + k - 1]
  BY <1>1, Pieces
<1>3. Len(f) \in Nat /\ Len(mid) \in Nat
  BY LenProperties
<1>4. PICK c : c = a \o mid
  OBVIOUS
<1>5. /\ c \in Seq(Tokens) /\ Len(c) = (p - 1) + Len(mid)
      /\ \A k \in 1 .. (p - 1) + Len(mid) :
            c[k] = IF k <= p - 1 THEN a[k] ELSE mid[k - (p - 1)]
  BY <1>2, <1>4, ConcatProperties
<1>6. PICK g : g = c \o b
  OBVIOUS
<1>7. /\ g \in Seq(Tokens) /\ Len(g) = Len(c) + Len(b)
      /\ \A k \in 1 .. Len(c) + Len(b) :
            g[k] = IF k <= Len(c) THEN c[k] ELSE b[k - Len(c)]
  BY <1>2, <1>5, <1>6, ConcatProperties
<1>8. Len(g) = (p - 1) + Len(mid) + (Len(f) + 1 - q)
  BY <1>2, <1>5, <1>7
<1>9. ASSUME NEW k \in 1 .. p - 1
      PROVE  g[k] = f[k]
  <2>1. k \in 1 .. Len(c) + Len(b) /\ k <= Len(c) /\ k \in 1 .. (p - 1) + Len(mid)
    BY <1>2, <1>3, <1>5
  <2>2. g[k] = c[k] /\ c[k] = a[k]
    BY <1>5, <1>7, <2>1
  <2> QED BY <1>2, <2>2
<1>10. ASSUME NEW k \in p .. p - 1 + Len(mid)
       PROVE  g[k] = mid[k - p + 1]
  <2>1. /\ k \in 1 .. Len(c) + Len(b) /\ k <= Len(c)
        /\ k \in 1 .. (p - 1) + Len(mid) /\ ~(k <= p - 1) /\ k - (p - 1) = k - p + 1
    BY <1>2, <1>3, <1>5
  <2>2. g[k] = c[k] /\ c[k] = mid[k - (p - 1)]
    BY <1>5, <1>7, <2>1
  <2> QED BY <2>1, <2>2
<1>11. ASSUME NEW k \in p + Len(mid) .. Len(g)
       PROVE  g[k] = f[k - (p + Len(mid)) + q]
  <2>1. g[k] = b[k - Len(c)]
    BY <1>2, <1>3, <1>5, <1>7
  <2>2. k - Len(c) \in 1 .. Len(f) + 1 - q /\ q + (k - Len(c)) - 1 = k - (p + Len(mid)) + q
    BY <1>2, <1>3, <1>5, <1>7
  <2> QED BY <1>2, <2>1, <2>2
<1>12. IsSplice(g, f, p, mid, q)
  BY <1>7, <1>8, <1>9, <1>10, <1>11 DEF IsSplice
<1> QED BY <1>1, <1>4, <1>6, <1>12

-----------------------------------------------------------------------------
(* The generated block *)

LEMMA BlockIs ==
    ASSUME NEW policy \in Policies
    PROVE  /\ Block(policy) \in Seq(Tokens) /\ Len(Block(policy)) = 3
           /\ Block(policy)[1] = "begin" /\ Block(policy)[2] = policy
           /\ Block(policy)[3] = "end"
           /\ policy \notin H2 \union {"begin", "end", Broken}
BY SyncAssumption DEF Block, Tokens

\* g is f with the block of a policy in the place of what lies from p up to q.
HasBlock(g, f, p, policy, q) ==
    /\ g \in Seq(Tokens)
    /\ Len(g) = p + 2 + (Len(f) + 1 - q)
    /\ \A k \in 1 .. p - 1 : g[k] = f[k]
    /\ g[p] = "begin" /\ g[p + 1] = policy /\ g[p + 2] = "end"
    /\ \A k \in p + 3 .. Len(g) : g[k] = f[k - (p + 3) + q]

LEMMA BlockSplice ==
    ASSUME NEW f \in Seq(Tokens), NEW p \in 1 .. Len(f) + 1, NEW q \in 1 .. Len(f) + 1,
           NEW policy \in Policies
    PROVE  HasBlock(Before(f, p) \o Block(policy) \o From(f, q), f, p, policy, q)
<1>1. PICK mid, g : mid = Block(policy) /\ g = Before(f, p) \o mid \o From(f, q)
  OBVIOUS
<1>2. mid \in Seq(Tokens) /\ Len(mid) = 3 /\ mid[1] = "begin" /\ mid[2] = policy /\ mid[3] = "end"
  BY <1>1, BlockIs
<1>3. IsSplice(g, f, p, mid, q)
  BY <1>1, <1>2, Splice
<1>4. Len(f) \in Nat
  BY LenProperties
<1>5. g[p] = "begin" /\ g[p + 1] = policy /\ g[p + 2] = "end"
  <2>1. \A k \in p .. p + 2 : g[k] = mid[k - p + 1]
    BY <1>2, <1>3 DEF IsSplice
  <2>2. g[p] = mid[1] /\ g[p + 1] = mid[2] /\ g[p + 2] = mid[3]
    BY <2>1
  <2> QED BY <1>2, <2>2
<1>6. HasBlock(g, f, p, policy, q)
  <2>1. g \in Seq(Tokens) /\ Len(g) = p + 2 + (Len(f) + 1 - q)
    BY <1>2, <1>3, <1>4 DEF IsSplice
  <2> QED BY <1>2, <1>3, <1>5, <2>1 DEF IsSplice, HasBlock
<1> QED BY <1>1, <1>6

\* The same behind a new stop heading.
HasSection(g, f, p, policy) ==
    /\ g \in Seq(Tokens)
    /\ Len(g) = Len(f) + 4
    /\ \A k \in 1 .. p - 1 : g[k] = f[k]
    /\ g[p] = "stop" /\ g[p + 1] = "begin" /\ g[p + 2] = policy /\ g[p + 3] = "end"
    /\ \A k \in p + 4 .. Len(g) : g[k] = f[k - 4]

LEMMA SectionSplice ==
    ASSUME NEW f \in Seq(Tokens), NEW p \in 1 .. Len(f) + 1, NEW policy \in Policies
    PROVE  HasSection(Before(f, p) \o <<"stop">> \o Block(policy) \o From(f, p), f, p, policy)
<1>0. PICK g : g = Before(f, p) \o <<"stop">> \o Block(policy) \o From(f, p)
  OBVIOUS
<1>1. PICK a, b, c : a = Before(f, p) /\ b = Block(policy) /\ c = From(f, p)
  OBVIOUS
<1>2. /\ a \in Seq(Tokens) /\ b \in Seq(Tokens) /\ <<"stop">> \in Seq(Tokens)
      /\ Len(b) = 3 /\ b[1] = "begin" /\ b[2] = policy /\ b[3] = "end"
  <2>1. a \in Seq(Tokens)
    BY <1>1, Pieces
  <2>2. b \in Seq(Tokens) /\ Len(b) = 3 /\ b[1] = "begin" /\ b[2] = policy /\ b[3] = "end"
    BY <1>1, BlockIs
  <2>3. <<"stop">> \in Seq(Tokens)
    BY DEF Tokens, H2
  <2> QED BY <2>1, <2>2, <2>3
<1>3. PICK mid : mid = <<"stop">> \o b
  OBVIOUS
<1>4. /\ mid \in Seq(Tokens) /\ Len(mid) = 4
      /\ mid[1] = "stop" /\ mid[2] = "begin" /\ mid[3] = policy /\ mid[4] = "end"
  <2>1. Len(<<"stop">>) = 1 /\ <<"stop">>[1] = "stop"
    OBVIOUS
  <2>2. /\ mid \in Seq(Tokens) /\ Len(mid) = 4
        /\ \A i \in 1 .. 4 : mid[i] = IF i <= 1 THEN <<"stop">>[i] ELSE b[i - 1]
    <3>1. PICK h : h = <<"stop">>
      OBVIOUS
    <3>2. /\ mid \in Seq(Tokens) /\ Len(mid) = Len(h) + Len(b)
          /\ \A i \in 1 .. Len(h) + Len(b) : mid[i] = IF i <= Len(h) THEN h[i] ELSE b[i - Len(h)]
      BY <1>2, <1>3, <3>1, ConcatProperties
    <3> QED BY <1>2, <2>1, <3>1, <3>2
  <2>3. mid[1] = "stop" /\ mid[2] = b[1] /\ mid[3] = b[2] /\ mid[4] = b[3]
    BY <2>1, <2>2
  <2> QED BY <1>2, <2>2, <2>3
<1>5. a \o <<"stop">> \o b = a \o mid
  BY <1>2, <1>3, ConcatAssociative
<1>6. IsSplice(g, f, p, mid, p)
  BY <1>0, <1>1, <1>4, <1>5, Splice
<1>7. Len(f) \in Nat
  BY LenProperties
<1>8. g[p] = "stop" /\ g[p + 1] = "begin" /\ g[p + 2] = policy /\ g[p + 3] = "end"
  <2>1. \A k \in p .. p - 1 + 4 : g[k] = mid[k - p + 1]
    BY <1>4, <1>6 DEF IsSplice
  <2>2. /\ p \in p .. p - 1 + 4 /\ p - p + 1 = 1
        /\ p + 1 \in p .. p - 1 + 4 /\ (p + 1) - p + 1 = 2
        /\ p + 2 \in p .. p - 1 + 4 /\ (p + 2) - p + 1 = 3
        /\ p + 3 \in p .. p - 1 + 4 /\ (p + 3) - p + 1 = 4
    BY <1>7
  <2>3. /\ g[p] = mid[p - p + 1] /\ g[p + 1] = mid[(p + 1) - p + 1]
        /\ g[p + 2] = mid[(p + 2) - p + 1] /\ g[p + 3] = mid[(p + 3) - p + 1]
    BY <2>1, <2>2
  <2> QED BY <1>4, <2>2, <2>3
<1>9. g \in Seq(Tokens) /\ Len(g) = Len(f) + 4
  BY <1>4, <1>6, <1>7 DEF IsSplice
<1>10. ASSUME NEW k \in p + 4 .. Len(g)
       PROVE  g[k] = f[k - 4]
  <2>1. g[k] = f[k - (p + 4) + p]
    BY <1>4, <1>6 DEF IsSplice
  <2>2. k - (p + 4) + p = k - 4
    BY <1>9, <1>7
  <2> QED BY <2>1, <2>2
<1>11. \A k \in 1 .. p - 1 : g[k] = f[k]
  BY <1>6 DEF IsSplice
<1>12. HasSection(g, f, p, policy)
  BY <1>8, <1>9, <1>10, <1>11 DEF HasSection
<1> QED BY <1>0, <1>12

\* A stop heading before what lies at p.
HasHeading(g, f, p) ==
    /\ g \in Seq(Tokens)
    /\ Len(g) = Len(f) + 1
    /\ \A k \in 1 .. p - 1 : g[k] = f[k]
    /\ g[p] = "stop"
    /\ \A k \in p + 1 .. Len(g) : g[k] = f[k - 1]

LEMMA HeadingSplice ==
    ASSUME NEW f \in Seq(Tokens), NEW p \in 1 .. Len(f) + 1
    PROVE  HasHeading(Before(f, p) \o <<"stop">> \o From(f, p), f, p)
<1>0. PICK g : g = Before(f, p) \o <<"stop">> \o From(f, p)
  OBVIOUS
<1>1. PICK mid : mid = <<"stop">>
  OBVIOUS
<1>2. mid \in Seq(Tokens) /\ Len(mid) = 1 /\ mid[1] = "stop"
  BY <1>1 DEF Tokens, H2
<1>3. IsSplice(g, f, p, mid, p)
  BY <1>0, <1>1, <1>2, Splice
<1>4. Len(f) \in Nat
  BY LenProperties
<1>5. g[p] = "stop"
  <2>1. \A k \in p .. p : g[k] = mid[k - p + 1]
    BY <1>2, <1>3 DEF IsSplice
  <2>2. p \in Nat /\ p \in p .. p /\ p - p + 1 = 1
    BY <1>4
  <2>3. g[p] = mid[p - p + 1]
    BY <2>1, <2>2
  <2> QED BY <1>2, <2>2, <2>3
<1>6. g \in Seq(Tokens) /\ Len(g) = Len(f) + 1
  BY <1>2, <1>3, <1>4 DEF IsSplice
<1>7. ASSUME NEW k \in p + 1 .. Len(g)
      PROVE  g[k] = f[k - 1]
  <2>1. g[k] = f[k - (p + 1) + p] /\ k - (p + 1) + p = k - 1
    BY <1>2, <1>3, <1>4, <1>6 DEF IsSplice
  <2> QED BY <2>1
<1>8. \A k \in 1 .. p - 1 : g[k] = f[k]
  BY <1>3 DEF IsSplice
<1>9. HasHeading(g, f, p)
  BY <1>5, <1>6, <1>7, <1>8 DEF HasHeading
<1> QED BY <1>0, <1>9

-----------------------------------------------------------------------------
(* What a rewrite makes of a regular file *)

\* One stop heading at s, one block at b, and no heading between them.
Clean(g, policy, s, b) ==
    /\ g \in Seq(Tokens)
    /\ At(g, "stop") = {s} /\ At(g, "STOP") = {}
    /\ At(g, "begin") = {b} /\ At(g, "end") = {b + 2}
    /\ s < b /\ g[b + 1] = policy
    /\ \A j \in s + 1 .. b - 1 : g[j] \notin H2

\* b lies in the section under the heading at s.
LEMMA InSection ==
    ASSUME NEW f \in Seq(Tokens), NEW s \in 1 .. Len(f), NEW b \in s .. Len(f) + 1,
           \A j \in s + 1 .. b - 1 : f[j] \notin H2
    PROVE  b \in s .. NextH2(f, s)
<1>1. /\ NextH2(f, s) \in s + 1 .. Len(f) + 1 /\ Len(f) \in Nat
      /\ NextH2(f, s) <= Len(f) => f[NextH2(f, s)] \in H2
  BY NextH2Is, LenProperties
<1>2. ~(NextH2(f, s) < b)
  BY <1>1
<1> QED BY <1>1, <1>2

LEMMA SubSeqOne ==
    ASSUME NEW f \in Seq(Tokens), NEW m \in 1 .. Len(f)
    PROVE  SubSeq(f, m, m) = <<f[m]>>
<1>1. PICK h : h = SubSeq(f, m, m)
  OBVIOUS
<1>2. m \in Int /\ \A i \in m .. m : f[i] \in Tokens
  BY LenProperties
<1>3. /\ h \in Seq(Tokens)
      /\ Len(h) = IF m <= m THEN m - m + 1 ELSE 0
      /\ \A i \in 1 .. m - m + 1 : h[i] = f[m + i - 1]
  BY <1>1, <1>2, SubSeqProperties
<1>4. h \in Seq(Tokens) /\ Len(h) = 1 /\ h[1] = f[m]
  BY <1>2, <1>3
<1>5. h = <<f[m]>>
  BY <1>4
<1> QED BY <1>1, <1>5

LEMMA CleanIsRegular ==
    ASSUME NEW policy \in Policies, NEW g, NEW s, NEW b, Clean(g, policy, s, b)
    PROVE  Regular(g) /\ BlockErrors(g, policy) = {}
<1>1. /\ g \in Seq(Tokens) /\ At(g, "stop") = {s} /\ At(g, "begin") = {b}
      /\ At(g, "end") = {b + 2} /\ s < b /\ g[b + 1] = policy
      /\ \A j \in s + 1 .. b - 1 : g[j] \notin H2
  BY DEF Clean
<1>2. /\ First(g, "stop") = s /\ s \in 1 .. Len(g)
      /\ First(g, "begin") = b /\ b \in 1 .. Len(g)
      /\ First(g, "end") = b + 2 /\ b + 2 \in 1 .. Len(g) /\ Len(g) \in Nat
  <2>1. First(g, "stop") = s /\ s \in 1 .. Len(g)
    BY <1>1, FirstIs
  <2>2. First(g, "begin") = b /\ b \in 1 .. Len(g)
    BY <1>1, FirstIs
  <2>3. First(g, "end") = b + 2 /\ b + 2 \in 1 .. Len(g)
    <3>1. PICK e : e = b + 2 /\ At(g, "end") = {e} /\ g \in Seq(Tokens)
      BY <1>1
    <3>2. First(g, "end") = e /\ e \in 1 .. Len(g)
      BY <3>1, FirstIs
    <3> QED BY <3>1, <3>2
  <2> QED BY <1>1, <2>1, <2>2, <2>3, LenProperties
<1>3. Stops(g) = {s} /\ Cardinality(Stops(g)) = 1
  BY <1>1, FS_Singleton DEF Clean, Stops
<1>4. InOrder(g)
  <2>1. OneMarkerEach(g)
    BY <1>1, AtOne DEF OneMarkerEach
  <2> QED BY <1>2, <2>1 DEF InOrder
<1>5. b \in s .. NextH2(g, s)
  BY <1>1, <1>2, InSection
<1>6. Regular(g)
  <2>1. g[s] = "stop"
    BY <1>1, FirstIs
  <2> QED BY <1>1, <1>2, <1>3, <1>4, <1>5, <2>1 DEF Regular, InOrder
<1>7. SubSeq(g, b + 1, (b + 2) - 1) = <<policy>>
  <2>1. PICK m : m = b + 1 /\ m \in 1 .. Len(g) /\ (b + 2) - 1 = m
    BY <1>2
  <2> QED BY <1>1, <2>1, SubSeqOne
<1>8. BlockErrors(g, policy) = {}
  BY <1>2, <1>3, <1>4, <1>7 DEF BlockErrors
<1> QED BY <1>6, <1>8

\* A file that was cut short: every place up to n is as it was, and what may
\* follow stands for text or for the heading that was cut.
LEMMA TornShape ==
    ASSUME NEW g \in Seq(Tokens), NEW torn \in TornWrites(g)
    PROVE  /\ torn \in Seq(Tokens)
           /\ \E n \in 0 .. Len(g) :
                /\ Len(torn) \in n .. n + 1 /\ \A k \in 1 .. n : torn[k] = g[k]
                /\ Len(torn) = n + 1 =>
                     \/ torn[n + 1] = "x"
                     \/ torn[n + 1] = "h2" /\ n < Len(g) /\ g[n + 1] \in H2
<1>1. Len(g) \in Nat /\ \A k \in 1 .. Len(g) : g[k] \in Tokens
  BY LenProperties
<1>2. \A n \in 0 .. Len(g) : /\ SubSeq(g, 1, n) \in Seq(Tokens)
                             /\ Len(SubSeq(g, 1, n)) = n
                             /\ \A k \in 1 .. n : SubSeq(g, 1, n)[k] = g[k]
  <2>1. SUFFICES ASSUME NEW n \in 0 .. Len(g)
                 PROVE  /\ SubSeq(g, 1, n) \in Seq(Tokens)
                        /\ Len(SubSeq(g, 1, n)) = n
                        /\ \A k \in 1 .. n : SubSeq(g, 1, n)[k] = g[k]
    OBVIOUS
  <2>2. 1 \in Int /\ n \in Int /\ \A k \in 1 .. n : g[k] \in Tokens
    BY <1>1
  <2>3. /\ SubSeq(g, 1, n) \in Seq(Tokens)
        /\ Len(SubSeq(g, 1, n)) = IF 1 <= n THEN n - 1 + 1 ELSE 0
        /\ \A k \in 1 .. n - 1 + 1 : SubSeq(g, 1, n)[k] = g[1 + k - 1]
    BY <2>2, SubSeqProperties
  <2> QED BY <1>1, <2>3
<1>3. "x" \in Tokens /\ "h2" \in Tokens
  BY DEF Tokens, H2
<1>4. \/ \E n \in 0 .. Len(g) : torn = SubSeq(g, 1, n)
      \/ \E n \in 0 .. Len(g) - 1 : torn = Append(SubSeq(g, 1, n), "x")
      \/ \E n \in 0 .. Len(g) - 1 : torn = Append(SubSeq(g, 1, n), "h2") /\ g[n + 1] \in H2
  BY DEF TornWrites
<1>5. CASE \E n \in 0 .. Len(g) : torn = SubSeq(g, 1, n)
  <2>1. PICK n \in 0 .. Len(g) : torn = SubSeq(g, 1, n)
    BY <1>5
  <2>2. torn \in Seq(Tokens) /\ Len(torn) = n /\ \A k \in 1 .. n : torn[k] = g[k]
    BY <1>2, <2>1
  <2>3. Len(torn) \in n .. n + 1 /\ Len(torn) # n + 1
    BY <2>2
  <2> QED BY <2>2, <2>3
<1>6. ASSUME NEW n \in 0 .. Len(g) - 1, NEW x \in Tokens, torn = Append(SubSeq(g, 1, n), x)
      PROVE  /\ torn \in Seq(Tokens) /\ n \in 0 .. Len(g) /\ n < Len(g)
             /\ Len(torn) = n + 1 /\ Len(torn) \in n .. n + 1
             /\ \A k \in 1 .. n : torn[k] = g[k]
             /\ torn[n + 1] = x
  <2>1. PICK h : h = SubSeq(g, 1, n)
    OBVIOUS
  <2>2. n \in 0 .. Len(g) /\ n < Len(g)
    BY <1>1
  <2>3. h \in Seq(Tokens) /\ Len(h) = n /\ \A k \in 1 .. n : h[k] = g[k]
    BY <1>2, <2>1, <2>2
  <2>4. /\ torn \in Seq(Tokens) /\ Len(torn) = Len(h) + 1
        /\ \A k \in 1 .. Len(h) : torn[k] = h[k]
        /\ torn[Len(h) + 1] = x
    BY <1>6, <2>1, <2>3, AppendProperties
  <2> QED BY <2>2, <2>3, <2>4
<1>7. CASE \E n \in 0 .. Len(g) - 1 : torn = Append(SubSeq(g, 1, n), "x")
  <2>1. PICK n \in 0 .. Len(g) - 1 : torn = Append(SubSeq(g, 1, n), "x")
    BY <1>7
  <2> QED BY <1>3, <1>6, <2>1
<1>8. CASE \E n \in 0 .. Len(g) - 1 : torn = Append(SubSeq(g, 1, n), "h2") /\ g[n + 1] \in H2
  <2>1. PICK n \in 0 .. Len(g) - 1 : torn = Append(SubSeq(g, 1, n), "h2") /\ g[n + 1] \in H2
    BY <1>8
  <2> QED BY <1>3, <1>6, <2>1
<1> QED BY <1>4, <1>5, <1>7, <1>8

LEMMA TornIsRegular ==
    ASSUME NEW policy \in Policies, NEW g, NEW s, NEW b, Clean(g, policy, s, b),
           NEW torn \in TornWrites(g)
    PROVE  Regular(torn)
<1>1. /\ g \in Seq(Tokens) /\ At(g, "stop") = {s} /\ At(g, "STOP") = {}
      /\ At(g, "begin") = {b} /\ At(g, "end") = {b + 2} /\ s < b
      /\ \A j \in s + 1 .. b - 1 : g[j] \notin H2
  BY DEF Clean
<1>2. Len(g) \in Nat /\ s \in 1 .. Len(g) /\ b \in 1 .. Len(g)
  BY <1>1, AtPlaces
<1>3. torn \in Seq(Tokens) /\ Len(torn) \in Nat
  BY <1>1, TornShape, LenProperties
<1>4. PICK n \in 0 .. Len(g) :
        /\ Len(torn) \in n .. n + 1 /\ \A k \in 1 .. n : torn[k] = g[k]
        /\ Len(torn) = n + 1 =>
             \/ torn[n + 1] = "x"
             \/ torn[n + 1] = "h2" /\ n < Len(g) /\ g[n + 1] \in H2
  BY <1>1, TornShape
<1>5. \A token \in {"stop", "STOP", "begin", "end"} : At(torn, token) = {k \in At(g, token) : k <= n}
  <2>1. SUFFICES ASSUME NEW token \in {"stop", "STOP", "begin", "end"}
                 PROVE  At(torn, token) = {k \in At(g, token) : k <= n}
    OBVIOUS
  <2>2. /\ At(torn, token) = {k \in 1 .. Len(torn) : torn[k] = token}
        /\ At(g, token) = {k \in 1 .. Len(g) : g[k] = token}
    BY <1>1, <1>3, AtPlaces
  <2>3. \A k \in 1 .. Len(torn) : torn[k] = token => k <= n
    BY <1>3, <1>4
  <2> QED BY <1>2, <1>3, <1>4, <2>2, <2>3
<1>6. At(torn, "STOP") = {} /\ Stops(torn) = At(torn, "stop") /\ Cardinality(Stops(torn)) <= 1
  <2>1. At(torn, "STOP") = {} /\ \A i, j \in At(torn, "stop") : i = j
    BY <1>1, <1>5
  <2>2. Stops(torn) = At(torn, "stop")
    BY <2>1 DEF Stops
  <2> QED BY <1>3, <2>1, <2>2, AtMostOne
<1>7. b <= n => /\ At(torn, "stop") = {s} /\ At(torn, "begin") = {b}
                /\ b \in s .. NextH2(torn, s)
  <2>1. SUFFICES ASSUME b <= n
                 PROVE  /\ At(torn, "stop") = {s} /\ At(torn, "begin") = {b}
                        /\ b \in s .. NextH2(torn, s)
    OBVIOUS
  <2>2. At(torn, "stop") = {s} /\ At(torn, "begin") = {b}
    BY <1>1, <1>2, <1>5, <2>1
  <2>3. s \in 1 .. Len(torn) /\ b \in s .. Len(torn) + 1
    BY <1>1, <1>2, <1>3, <1>4, <2>1
  <2>4. \A j \in s + 1 .. b - 1 : torn[j] \notin H2
    BY <1>1, <1>2, <1>4, <2>1
  <2> QED BY <1>3, <2>2, <2>3, <2>4, InSection
<1>8. CASE b + 2 <= n
  <2>1. At(torn, "end") = {b + 2} /\ b <= n
    BY <1>1, <1>2, <1>5, <1>8
  <2>2. OneMarkerEach(torn)
    BY <1>3, <1>7, <2>1, AtOne DEF OneMarkerEach
  <2>3. First(torn, "begin") = b
    BY <1>3, <1>7, <2>1, FirstIs
  <2>4. First(torn, "end") = b + 2
    <3>1. PICK e : e = b + 2 /\ At(torn, "end") = {e}
      BY <2>1
    <3>2. First(torn, "end") = e
      BY <1>3, <3>1, FirstIs
    <3> QED BY <3>1, <3>2
  <2>5. InOrder(torn)
    BY <1>2, <2>2, <2>3, <2>4 DEF InOrder
  <2>6. torn[s] = "stop"
    BY <1>3, <1>7, <2>1, AtPlaces
  <2> QED BY <1>6, <1>7, <2>1, <2>2, <2>3, <2>5, <2>6 DEF Regular
<1>9. CASE ~(b + 2 <= n)
  <2>1. At(torn, "end") = {}
    BY <1>1, <1>2, <1>5, <1>9
  <2>2. ~OneMarkerEach(torn)
    BY <1>3, <2>1, AtOne DEF OneMarkerEach
  <2>3. \A m \in At(torn, "begin") \union At(torn, "end") :
           \E i \in At(torn, "stop") : m \in i .. NextH2(torn, i)
    <3>1. SUFFICES ASSUME NEW m \in At(torn, "begin")
                   PROVE  \E i \in At(torn, "stop") : m \in i .. NextH2(torn, i)
      BY <2>1
    <3>2. m = b /\ b <= n
      BY <1>1, <1>5
    <3> QED BY <1>7, <3>2
  <2> QED BY <1>6, <2>2, <2>3 DEF Regular
<1> QED BY <1>8, <1>9

\* One pair of markers, in order: the block takes their place, and a stop
\* heading comes before it unless one stands there already.
Spliced(f, policy, p, e, u) ==
    /\ First(f, "begin") = p /\ First(f, "end") = e
    /\ p \in 1 .. Len(f) /\ e \in 1 .. Len(f) /\ p < e
    /\ HasBlock(u, f, p, policy, e + 1)
    /\ At(u, "begin") = {p} /\ At(u, "end") = {p + 2}
    /\ At(u, "stop") # {} => ReplaceBlock(f, policy) = u
    /\ At(u, "stop") = {} =>
         /\ HasHeading(ReplaceBlock(f, policy), u, p)
         /\ At(ReplaceBlock(f, policy), "stop") = {p}
         /\ At(ReplaceBlock(f, policy), "begin") = {p + 1}
         /\ At(ReplaceBlock(f, policy), "end") = {p + 3}

LEMMA InOrderIsSpliced ==
    ASSUME NEW f \in Seq(Tokens), NEW policy \in Policies, InOrder(f)
    PROVE  \E p, e, u : Spliced(f, policy, p, e, u)
<1>1. PICK p, e : At(f, "begin") = {p} /\ At(f, "end") = {e}
  BY AtOne DEF InOrder, OneMarkerEach
<1>2. First(f, "begin") = p /\ p \in 1 .. Len(f) /\ First(f, "end") = e /\ e \in 1 .. Len(f)
  BY <1>1, FirstIs
<1>3. p < e
  BY <1>2 DEF InOrder
<1>4. PICK u : u = Before(f, p) \o Block(policy) \o From(f, e + 1)
  OBVIOUS
<1>5. Len(f) \in Nat /\ e + 1 \in 1 .. Len(f) + 1 /\ p \in 1 .. Len(f) + 1
  BY <1>2, LenProperties
<1>6. HasBlock(u, f, p, policy, e + 1)
  <2>1. PICK q : q = e + 1 /\ q \in 1 .. Len(f) + 1
    BY <1>5
  <2> QED BY <1>4, <1>5, <2>1, BlockSplice
<1>7. /\ u \in Seq(Tokens) /\ Len(u) = p + 2 + (Len(f) - e)
      /\ \A k \in 1 .. p - 1 : u[k] = f[k]
      /\ u[p] = "begin" /\ u[p + 1] = policy /\ u[p + 2] = "end"
  BY <1>2, <1>5, <1>6 DEF HasBlock
<1>8. ASSUME NEW k \in p + 3 .. Len(u)
      PROVE  k - (p + 2) + e \in e + 1 .. Len(f) /\ u[k] = f[k - (p + 2) + e]
  <2>1. u[k] = f[k - (p + 3) + (e + 1)]
    BY <1>6 DEF HasBlock
  <2>2. k - (p + 3) + (e + 1) = k - (p + 2) + e /\ k - (p + 2) + e \in e + 1 .. Len(f)
    BY <1>2, <1>5, <1>7
  <2> QED BY <2>1, <2>2
<1>9. policy \notin {"stop", "begin", "end"} /\ policy \notin H2
  BY BlockIs DEF H2
<1>10. \A token : /\ At(u, token) = {k \in 1 .. Len(u) : u[k] = token}
                  /\ At(f, token) = {k \in 1 .. Len(f) : f[k] = token}
  BY <1>7, AtPlaces
<1>11. \A k \in 1 .. Len(f) : f[k] \in {"begin", "end"} => k \in {p, e}
  <2>1. ASSUME NEW k \in 1 .. Len(f)
        PROVE  (f[k] = "begin" <=> k = p) /\ (f[k] = "end" <=> k = e)
    BY <1>1, AtPlaces
  <2> QED BY <2>1
<1>14. p \in 1 .. Len(u) /\ p + 2 \in 1 .. Len(u) /\ Len(u) \in Nat
  BY <1>2, <1>5, <1>7
<1>15. ASSUME NEW k \in 1 .. Len(u), u[k] \in {"begin", "end"}
       PROVE  k \in {p, p + 2}
  <2>1. CASE k < p
    <3>1. f[k] \in {"begin", "end"} /\ k \in 1 .. Len(f)
      BY <1>2, <1>5, <1>7, <1>15, <2>1
    <3>2. k \in {p, e}
      BY <1>11, <3>1
    <3> QED BY <1>2, <1>3, <2>1, <3>2
  <2>2. CASE k = p + 1
    BY <1>7, <1>9, <1>15, <2>2
  <2>3. CASE k >= p + 3
    <3>1. f[k - (p + 2) + e] \in {"begin", "end"} /\ k - (p + 2) + e \in e + 1 .. Len(f)
      BY <1>8, <1>14, <1>15, <2>3
    <3>2. PICK i : i = k - (p + 2) + e
      OBVIOUS
    <3>3. i \in 1 .. Len(f) /\ i > e /\ f[i] \in {"begin", "end"}
      BY <1>2, <1>5, <3>1, <3>2
    <3>4. i \in {p, e}
      BY <1>11, <3>3
    <3> QED BY <1>2, <1>3, <3>3, <3>4
  <2> QED BY <1>2, <2>1, <2>2, <2>3
<1>16. \A k \in 1 .. Len(u) : (u[k] = "begin" <=> k = p) /\ (u[k] = "end" <=> k = p + 2)
  BY <1>2, <1>7, <1>15
<1>17. At(u, "begin") = {p}
  BY <1>7, <1>14, <1>16, AtIs
<1>18. At(u, "end") = {p + 2}
  <2>1. PICK q : q = p + 2
    OBVIOUS
  <2>2. At(u, "end") = {q}
    BY <1>7, <1>14, <1>16, <2>1, AtIs
  <2> QED BY <2>1, <2>2
<1>12. ASSUME At(u, "stop") = {}
       PROVE  /\ HasHeading(ReplaceBlock(f, policy), u, p)
              /\ At(ReplaceBlock(f, policy), "stop") = {p}
              /\ At(ReplaceBlock(f, policy), "begin") = {p + 1}
              /\ At(ReplaceBlock(f, policy), "end") = {p + 3}
  <2>1. ReplaceBlock(f, policy) = Before(u, p) \o <<"stop">> \o From(u, p)
    BY <1>2, <1>4, <1>12 DEF ReplaceBlock, InOrder
  <2>2. PICK g : g = Before(u, p) \o <<"stop">> \o From(u, p)
    OBVIOUS
  <2>3. p \in 1 .. Len(u) + 1
    BY <1>14
  <2>4. HasHeading(g, u, p)
    BY <1>7, <2>2, <2>3, HeadingSplice
  <2>5. g \in Seq(Tokens) /\ Len(g) = Len(u) + 1 /\ g[p] = "stop"
    BY <2>4 DEF HasHeading
  <2>6. \A k \in 1 .. p - 1 : g[k] = u[k] /\ k \in 1 .. Len(u)
    BY <1>14, <2>4 DEF HasHeading
  <2>7. \A k \in p + 1 .. Len(g) : g[k] = u[k - 1] /\ k - 1 \in 1 .. Len(u)
    BY <1>14, <2>4 DEF HasHeading
  <2>8. p \in 1 .. Len(g) /\ p + 1 \in 1 .. Len(g) /\ p + 3 \in 1 .. Len(g) /\ Len(g) \in Nat
    BY <1>14, <2>5
  <2>9. \A k \in 1 .. Len(u) : u[k] # "stop"
    BY <1>10, <1>12
  <2>10. \A k \in 1 .. Len(g) : /\ g[k] = "stop" <=> k = p
                                /\ g[k] = "begin" <=> k = p + 1
                                /\ g[k] = "end" <=> k = p + 3
    <3>1. SUFFICES ASSUME NEW k \in 1 .. Len(g)
                   PROVE  /\ g[k] = "stop" <=> k = p
                          /\ g[k] = "begin" <=> k = p + 1
                          /\ g[k] = "end" <=> k = p + 3
      OBVIOUS
    <3>2. CASE k < p
      <4>1. g[k] = u[k] /\ k \in 1 .. Len(u) /\ k \notin {p, p + 2}
        BY <1>2, <2>6, <2>8, <3>2
      <4> QED BY <1>2, <1>16, <2>9, <3>2, <4>1
    <3>3. CASE k = p
      BY <1>2, <2>5, <3>3
    <3>4. CASE k > p
      <4>1. g[k] = u[k - 1] /\ k - 1 \in 1 .. Len(u)
        BY <1>2, <2>7, <2>8, <3>4
      <4>2. (u[k - 1] = "begin" <=> k - 1 = p) /\ (u[k - 1] = "end" <=> k - 1 = p + 2)
        BY <1>16, <4>1
      <4>3. u[k - 1] # "stop"
        BY <2>9, <4>1
      <4> QED BY <1>2, <2>8, <3>4, <4>1, <4>2, <4>3
    <3> QED BY <1>2, <2>8, <3>2, <3>3, <3>4
  <2>11. PICK b, d : b = p + 1 /\ d = p + 3
    OBVIOUS
  <2>12. At(g, "stop") = {p} /\ At(g, "begin") = {b} /\ At(g, "end") = {d}
    <3>1. At(g, "stop") = {p}
      BY <2>5, <2>8, <2>10, AtIs
    <3>2. At(g, "begin") = {b}
      BY <2>5, <2>8, <2>10, <2>11, AtIs
    <3>3. At(g, "end") = {d}
      BY <2>5, <2>8, <2>10, <2>11, AtIs
    <3> QED BY <3>1, <3>2, <3>3
  <2> QED BY <2>1, <2>2, <2>4, <2>11, <2>12
<1>13. At(u, "stop") # {} => ReplaceBlock(f, policy) = u
  BY <1>2, <1>4 DEF ReplaceBlock, InOrder
<1>19. Spliced(f, policy, p, e, u)
  BY <1>2, <1>3, <1>6, <1>12, <1>13, <1>17, <1>18 DEF Spliced
<1> QED BY <1>19

LEMMA SpliceIsClean ==
    ASSUME NEW f \in Seq(Tokens), NEW policy \in Policies, Regular(f), OneMarkerEach(f)
    PROVE  \E s, b : Clean(ReplaceBlock(f, policy), policy, s, b)
<1>1. InOrder(f)
  BY DEF Regular
<1>2. PICK p, e, u : Spliced(f, policy, p, e, u)
  BY <1>1, InOrderIsSpliced
<1>3. /\ First(f, "begin") = p /\ First(f, "end") = e
      /\ p \in 1 .. Len(f) /\ e \in 1 .. Len(f) /\ p < e
      /\ At(u, "begin") = {p} /\ At(u, "end") = {p + 2}
      /\ At(u, "stop") # {} => ReplaceBlock(f, policy) = u
  BY <1>2 DEF Spliced
<1>4. /\ \A i \in Stops(f) : i \in p .. e \/ (f[i] = "stop" /\ p \in i .. NextH2(f, i))
      /\ \A i, j \in Stops(f) : i = j
  BY <1>3, AtMostOne DEF Regular, InOrder
<1>5. Len(f) \in Nat
  BY LenProperties
<1>6. HasBlock(u, f, p, policy, e + 1)
  BY <1>2 DEF Spliced
<1>7. /\ u \in Seq(Tokens) /\ Len(u) = p + 2 + (Len(f) - e)
      /\ \A k \in 1 .. p - 1 : u[k] = f[k]
      /\ u[p] = "begin" /\ u[p + 1] = policy /\ u[p + 2] = "end"
  BY <1>3, <1>5, <1>6 DEF HasBlock
<1>8. ASSUME NEW k \in p + 3 .. Len(u)
      PROVE  k - (p + 2) + e \in e + 1 .. Len(f) /\ u[k] = f[k - (p + 2) + e]
  <2>1. u[k] = f[k - (p + 3) + (e + 1)]
    BY <1>6 DEF HasBlock
  <2>2. k - (p + 3) + (e + 1) = k - (p + 2) + e /\ k - (p + 2) + e \in e + 1 .. Len(f)
    BY <1>3, <1>5, <1>7
  <2> QED BY <2>1, <2>2
<1>9. policy \notin {"stop", "STOP", "begin", "end"}
  BY BlockIs DEF H2
<1>10. \A token : /\ At(u, token) = {k \in 1 .. Len(u) : u[k] = token}
                  /\ At(f, token) = {k \in 1 .. Len(f) : f[k] = token}
  BY <1>7, AtPlaces
<1>11. \A k \in 1 .. Len(u) : u[k] # "STOP"
  <2>1. SUFFICES ASSUME NEW k \in 1 .. Len(u), u[k] = "STOP" PROVE FALSE
    OBVIOUS
  <2>2. k \notin {p, p + 1, p + 2}
    BY <1>7, <1>9, <2>1
  <2>3. CASE k < p
    <3>1. k \in 1 .. Len(f) /\ f[k] = "STOP"
      BY <1>3, <1>5, <1>7, <2>1, <2>3
    <3>2. k \in Stops(f)
      BY <3>1, StopPlaces
    <3> QED BY <1>3, <1>4, <2>3, <3>1, <3>2
  <2>4. CASE k >= p + 3
    <3>1. PICK i : i = k - (p + 2) + e /\ i \in e + 1 .. Len(f) /\ f[i] = "STOP"
      BY <1>3, <1>5, <1>7, <1>8, <2>1, <2>4
    <3>2. i \in Stops(f) /\ i > e
      BY <1>3, <3>1, StopPlaces
    <3> QED BY <1>3, <1>4, <3>1, <3>2
  <2> QED BY <1>3, <2>2, <2>3, <2>4
<1>14. At(u, "STOP") = {}
  BY <1>10, <1>11
<1>12. CASE At(u, "stop") = {}
  <2>1. PICK g : g = ReplaceBlock(f, policy)
    OBVIOUS
  <2>2. /\ HasHeading(g, u, p) /\ At(g, "stop") = {p}
        /\ At(g, "begin") = {p + 1} /\ At(g, "end") = {p + 3}
    BY <1>2, <1>12, <2>1 DEF Spliced
  <2>3. PICK b : b = p + 1 /\ b + 1 = p + 2 /\ b + 2 = p + 3 /\ p < b
    BY <1>3
  <2>4. g \in Seq(Tokens) /\ g[p + 2] = u[p + 1]
    <3>1. p + 2 \in p + 1 .. Len(g) /\ (p + 2) - 1 = p + 1
      BY <1>3, <1>5, <1>7, <2>2 DEF HasHeading
    <3> QED BY <2>2, <3>1 DEF HasHeading
  <2>5. \A j \in p + 1 .. b - 1 : g[j] \notin H2
    BY <1>3, <2>3
  <2>7. At(g, "STOP") = {}
    <3>1. SUFFICES ASSUME NEW k \in 1 .. Len(g), g[k] = "STOP" PROVE FALSE
      BY <2>4, AtPlaces
    <3>2. CASE k < p
      <4>1. k \in 1 .. Len(u) /\ u[k] = "STOP"
        BY <1>3, <1>5, <1>7, <2>2, <3>1, <3>2 DEF HasHeading
      <4> QED BY <1>11, <4>1
    <3>3. CASE k = p
      BY <2>2, <3>1, <3>3 DEF HasHeading
    <3>4. CASE k > p
      <4>1. k - 1 \in 1 .. Len(u) /\ u[k - 1] = "STOP"
        BY <1>3, <1>5, <1>7, <2>2, <3>1, <3>4 DEF HasHeading
      <4> QED BY <1>11, <4>1
    <3> QED BY <1>3, <3>2, <3>3, <3>4
  <2>6. Clean(g, policy, p, b)
    BY <1>7, <2>2, <2>3, <2>4, <2>5, <2>7 DEF Clean
  <2> QED BY <2>1, <2>6
<1>13. CASE At(u, "stop") # {}
  <2>1. ReplaceBlock(f, policy) = u
    BY <1>3, <1>13
  <2>2. ASSUME NEW k \in At(u, "stop")
        PROVE  /\ k < p /\ k \in At(f, "stop")
               /\ \A j \in k + 1 .. p - 1 : u[j] \notin H2
    <3>1. k \in 1 .. Len(u) /\ u[k] = "stop" /\ k \notin {p, p + 1, p + 2}
      BY <1>7, <1>9, <1>10, <2>2
    <3>2. CASE k < p
      <4>1. k \in At(f, "stop") /\ k \in 1 .. Len(f)
        BY <1>3, <1>5, <1>7, <1>10, <3>1, <3>2
      <4>5. k \in Stops(f)
        BY <4>1 DEF Stops
      <4>2. p \in k .. NextH2(f, k)
        BY <1>3, <1>4, <3>2, <4>1, <4>5
      <4>3. \A j \in k + 1 .. NextH2(f, k) - 1 : f[j] \notin H2
        BY <4>1, NextH2Is
      <4>4. ASSUME NEW j \in k + 1 .. p - 1
            PROVE  u[j] \notin H2
        <5>1. NextH2(f, k) \in k + 1 .. Len(f) + 1
          BY <4>1, NextH2Is
        <5>2. j \in k + 1 .. NextH2(f, k) - 1 /\ j \in 1 .. p - 1
          BY <1>3, <4>1, <4>2, <5>1
        <5> QED BY <1>7, <4>3, <5>2
      <4> QED BY <3>2, <4>1, <4>4
    <3>3. CASE k >= p + 3
      <4>1. PICK i : i = k - (p + 2) + e /\ i \in e + 1 .. Len(f) /\ f[i] = "stop"
        BY <1>8, <3>1, <3>3, <1>3, <1>5, <1>7
      <4>2. i \in Stops(f)
        BY <1>3, <4>1, StopPlaces
      <4>3. p \in i .. NextH2(f, i) \/ i \in p .. e
        BY <1>4, <4>2
      <4> QED BY <1>3, <1>4, <1>5, <4>1, <4>3
    <3> QED BY <1>3, <3>1, <3>2, <3>3
  <2>3. \A i, j \in At(f, "stop") : i = j
    BY <1>4 DEF Stops
  <2>4. PICK s : At(u, "stop") = {s}
    BY <1>13, <2>2, <2>3
  <2>5. s < p /\ \A j \in s + 1 .. p - 1 : u[j] \notin H2
    BY <2>2, <2>4
  <2>6. Clean(u, policy, s, p)
    BY <1>7, <1>3, <1>14, <2>4, <2>5 DEF Clean
  <2> QED BY <2>1, <2>6
<1> QED BY <1>12, <1>13

\* No such pair, but a stop heading: the block takes the place of its section,
\* and with it of every stray marker.
LEMMA SectionIsClean ==
    ASSUME NEW f \in Seq(Tokens), NEW policy \in Policies, Regular(f), ~OneMarkerEach(f),
           Stops(f) # {}
    PROVE  \E s, b : Clean(ReplaceBlock(f, policy), policy, s, b)
<1>1. PICK s : s = Min(Stops(f))
  OBVIOUS
<1>0. At(f, "STOP") = {} /\ Stops(f) = At(f, "stop")
  BY DEF Regular, Stops
<1>2. s \in 1 .. Len(f) /\ f[s] = "stop" /\ Len(f) \in Nat
  <2>1. s \in Stops(f)
    BY <1>1, StopPlaces, MinIsLeast
  <2> QED BY <1>0, <2>1, AtPlaces
<1>3. \A token : At(f, token) = {k \in 1 .. Len(f) : f[k] = token}
  BY AtPlaces
<1>4. s \in At(f, "stop") /\ \A i \in At(f, "stop") : i = s
  BY <1>0, <1>2, <1>3, AtMostOne DEF Regular
<1>5. PICK n : n = NextH2(f, s)
  OBVIOUS
<1>6. n \in s + 1 .. Len(f) + 1 /\ (n <= Len(f) => f[n] \in H2)
  BY <1>2, <1>5, NextH2Is
<1>7. ASSUME NEW k \in 1 .. Len(f), f[k] \in {"begin", "end"}
      PROVE  k \in s + 1 .. n - 1
  <2>1. k \in At(f, "begin") \union At(f, "end")
    BY <1>3, <1>7
  <2>2. k \in s .. n
    BY <1>4, <1>5, <2>1 DEF Regular
  <2>3. k # s
    BY <1>2, <1>7
  <2>4. k # n
    BY <1>6, <1>7 DEF H2
  <2> QED BY <1>2, <1>6, <2>2, <2>3, <2>4
<1>8. PICK p, g : p = s + 1 /\ g = Before(f, p) \o Block(policy) \o From(f, n)
  OBVIOUS
<1>9. p \in 1 .. Len(f) + 1 /\ n \in 1 .. Len(f) + 1
  BY <1>2, <1>6, <1>8
<1>10. HasBlock(g, f, p, policy, n)
  BY <1>8, <1>9, BlockSplice
<1>11. ReplaceBlock(f, policy) = g
  BY <1>1, <1>5, <1>8 DEF ReplaceBlock
<1>12. /\ g \in Seq(Tokens) /\ Len(g) = p + 2 + (Len(f) + 1 - n)
       /\ \A k \in 1 .. p - 1 : g[k] = f[k]
       /\ g[p] = "begin" /\ g[p + 1] = policy /\ g[p + 2] = "end"
  BY <1>10 DEF HasBlock
<1>13. ASSUME NEW k \in p + 3 .. Len(g)
       PROVE  \E i \in n .. Len(f) : g[k] = f[i]
  <2>1. g[k] = f[k - (p + 3) + n]
    BY <1>10 DEF HasBlock
  <2>2. k - (p + 3) + n \in n .. Len(f)
    BY <1>2, <1>6, <1>8, <1>12
  <2> QED BY <2>1, <2>2
<1>14. policy \notin {"stop", "STOP", "begin", "end"}
  BY BlockIs DEF H2
<1>15. \A k \in 1 .. Len(f) : (f[k] = "stop" => k = s) /\ f[k] # "STOP"
  BY <1>0, <1>3, <1>4
<1>16. ASSUME NEW k \in 1 .. Len(g)
       PROVE  /\ g[k] # "STOP"
              /\ g[k] = "stop" <=> k = s
              /\ g[k] = "begin" <=> k = p
              /\ g[k] = "end" <=> k = p + 2
  <2>1. CASE k < p
    <3>1. k \in 1 .. Len(f) /\ g[k] = f[k] /\ k \notin s + 1 .. n - 1
      BY <1>2, <1>8, <1>12, <2>1
    <3>2. g[k] \notin {"begin", "end"}
      BY <1>7, <3>1
    <3> QED BY <1>2, <1>8, <1>15, <2>1, <3>1, <3>2
  <2>2. CASE k \in {p, p + 1, p + 2}
    <3>1. p \in Nat /\ s < p
      BY <1>2, <1>8
    <3>2. \/ k = p /\ g[k] = "begin"
          \/ k = p + 1 /\ g[k] = policy
          \/ k = p + 2 /\ g[k] = "end"
      BY <1>12, <2>2
    <3> QED BY <1>2, <1>14, <3>1, <3>2
  <2>3. CASE k >= p + 3
    <3>0. k \in p + 3 .. Len(g)
      BY <1>2, <1>6, <1>8, <1>12, <2>3
    <3>1. PICK i \in n .. Len(f) : g[k] = f[i]
      BY <1>13, <3>0
    <3>2. i \in 1 .. Len(f) /\ i > s /\ i \notin s + 1 .. n - 1
      BY <1>2, <1>6
    <3>3. f[i] \notin {"stop", "STOP", "begin", "end"}
      BY <1>2, <1>7, <1>15, <3>2
    <3> QED BY <1>2, <1>8, <2>3, <3>1, <3>3
  <2> QED BY <1>2, <1>8, <2>1, <2>2, <2>3
<1>17. PICK d : d = p + 2
  OBVIOUS
<1>18. s \in 1 .. Len(g) /\ p \in 1 .. Len(g) /\ d \in 1 .. Len(g)
  BY <1>2, <1>6, <1>8, <1>12, <1>17
<1>19. At(g, "stop") = {s} /\ At(g, "STOP") = {}
  <2>1. At(g, "stop") = {s}
    BY <1>12, <1>16, <1>18, AtIs
  <2>2. At(g, "STOP") = {}
    BY <1>12, <1>16, AtPlaces
  <2> QED BY <2>1, <2>2
<1>20. At(g, "begin") = {p}
  BY <1>12, <1>16, <1>18, AtIs
<1>21. At(g, "end") = {d}
  BY <1>12, <1>16, <1>17, <1>18, AtIs
<1>22. s < p /\ \A j \in s + 1 .. p - 1 : g[j] \notin H2
  BY <1>2, <1>8
<1>23. Clean(g, policy, s, p)
  BY <1>12, <1>17, <1>19, <1>20, <1>21, <1>22 DEF Clean
<1> QED BY <1>11, <1>23

\* Where a section of its own goes: before the escalation, or at the end.
NewPlace(f) == Min(At(f, "esc") \union {Len(f) + 1})

LEMMA NewPlaceIs ==
    ASSUME NEW f \in Seq(Tokens)
    PROVE  /\ NewPlace(f) \in 1 .. Len(f) + 1
           /\ NewPlace(f) <= Len(f) => f[NewPlace(f)] = "esc"
<1>1. PICK p : p = NewPlace(f)
  OBVIOUS
<1>2. /\ Len(f) \in Nat /\ At(f, "esc") \in SUBSET Nat
      /\ At(f, "esc") = {k \in 1 .. Len(f) : f[k] = "esc"}
  BY AtPlaces
<1>3. PICK A : A = At(f, "esc") \union {Len(f) + 1}
  OBVIOUS
<1>4. A \in SUBSET Nat /\ A # {}
  BY <1>2, <1>3
<1>5. p \in A
  BY <1>1, <1>3, <1>4, MinIsLeast DEF NewPlace
<1> QED BY <1>1, <1>2, <1>3, <1>5

\* Neither: a section of its own.
LEMMA NewSectionIsClean ==
    ASSUME NEW f \in Seq(Tokens), NEW policy \in Policies, Regular(f), ~OneMarkerEach(f),
           Stops(f) = {}
    PROVE  \E s, b : Clean(ReplaceBlock(f, policy), policy, s, b)
<1>1. PICK p : p = NewPlace(f)
  OBVIOUS
<1>2. p \in 1 .. Len(f) + 1 /\ Len(f) \in Nat
  BY <1>1, NewPlaceIs, LenProperties
<1>3. PICK g : g = Before(f, p) \o <<"stop">> \o Block(policy) \o From(f, p)
  OBVIOUS
<1>4. ReplaceBlock(f, policy) = g
  BY <1>1, <1>3 DEF ReplaceBlock, NewPlace
<1>5. HasSection(g, f, p, policy)
  BY <1>2, <1>3, SectionSplice
<1>6. /\ g \in Seq(Tokens) /\ Len(g) = Len(f) + 4
      /\ \A k \in 1 .. p - 1 : g[k] = f[k]
      /\ g[p] = "stop" /\ g[p + 1] = "begin" /\ g[p + 2] = policy /\ g[p + 3] = "end"
      /\ \A k \in p + 4 .. Len(g) : g[k] = f[k - 4]
  BY <1>5 DEF HasSection
<1>7. \A k \in 1 .. Len(f) : f[k] \notin {"stop", "STOP", "begin", "end"}
  <2>1. At(f, "stop") = {} /\ At(f, "STOP") = {} /\ At(f, "begin") \union At(f, "end") = {}
    BY DEF Regular, Stops
  <2>2. \A token : At(f, token) = {k \in 1 .. Len(f) : f[k] = token}
    BY AtPlaces
  <2> QED BY <2>1, <2>2
<1>8. policy \notin {"stop", "STOP", "begin", "end"}
  BY BlockIs DEF H2
<1>9. PICK b, d : b = p + 1 /\ d = p + 3
  OBVIOUS
<1>10. ASSUME NEW k \in 1 .. Len(g)
       PROVE  /\ g[k] # "STOP"
              /\ g[k] = "stop" <=> k = p
              /\ g[k] = "begin" <=> k = b
              /\ g[k] = "end" <=> k = d
  <2>1. CASE k < p
    <3>1. k \in 1 .. Len(f) /\ g[k] = f[k]
      BY <1>2, <1>6, <2>1
    <3>2. g[k] \notin {"stop", "STOP", "begin", "end"}
      BY <1>7, <3>1
    <3> QED BY <1>2, <1>9, <2>1, <3>2
  <2>2. CASE k \in {p, p + 1, p + 2, p + 3}
    BY <1>2, <1>6, <1>8, <1>9, <2>2
  <2>3. CASE k >= p + 4
    <3>1. k - 4 \in 1 .. Len(f) /\ g[k] = f[k - 4]
      BY <1>2, <1>6, <2>3
    <3>2. g[k] \notin {"stop", "STOP", "begin", "end"}
      BY <1>7, <3>1
    <3> QED BY <1>2, <1>9, <2>3, <3>2
  <2> QED BY <1>2, <2>1, <2>2, <2>3
<1>11. p \in 1 .. Len(g) /\ b \in 1 .. Len(g) /\ d \in 1 .. Len(g)
  BY <1>2, <1>6, <1>9
<1>12. At(g, "stop") = {p} /\ At(g, "STOP") = {}
  <2>1. At(g, "stop") = {p}
    BY <1>6, <1>10, <1>11, AtIs
  <2>2. At(g, "STOP") = {}
    BY <1>6, <1>10, AtPlaces
  <2> QED BY <2>1, <2>2
<1>13. At(g, "begin") = {b}
  BY <1>6, <1>10, <1>11, AtIs
<1>14. At(g, "end") = {d}
  BY <1>6, <1>10, <1>11, AtIs
<1>15. /\ p < b /\ b + 2 = d /\ b + 1 = p + 2
       /\ \A j \in p + 1 .. b - 1 : g[j] \notin H2
  BY <1>2, <1>9
<1>16. Clean(g, policy, p, b)
  BY <1>6, <1>12, <1>13, <1>14, <1>15 DEF Clean
<1> QED BY <1>4, <1>16

LEMMA ReplaceIsClean ==
    ASSUME NEW f \in Seq(Tokens), NEW policy \in Policies, Regular(f)
    PROVE  \E s, b : Clean(ReplaceBlock(f, policy), policy, s, b)
BY SpliceIsClean, SectionIsClean, NewSectionIsClean

LEMMA ReplaceType ==
    ASSUME NEW f \in Seq(Tokens), NEW policy \in Policies
    PROVE  ReplaceBlock(f, policy) \in Seq(Tokens)
<1>1. Len(f) \in Nat
  BY LenProperties
<1>2. CASE OneMarkerEach(f)
  <2>1. PICK p, e : At(f, "begin") = {p} /\ At(f, "end") = {e}
    BY <1>2, AtOne DEF OneMarkerEach
  <2>2. First(f, "begin") = p /\ p \in 1 .. Len(f)
    BY <2>1, FirstIs
  <2>3. First(f, "end") = e /\ e \in 1 .. Len(f)
    BY <2>1, FirstIs
  <2>4. PICK q, u : q = e + 1 /\ u = Before(f, p) \o Block(policy) \o From(f, q)
    OBVIOUS
  <2>5. q \in 1 .. Len(f) + 1 /\ p \in 1 .. Len(f) + 1
    BY <1>1, <2>2, <2>3, <2>4
  <2>6. HasBlock(u, f, p, policy, q)
    BY <2>4, <2>5, BlockSplice
  <2>7. u \in Seq(Tokens) /\ p \in 1 .. Len(u) + 1
    BY <1>1, <2>2, <2>3, <2>5, <2>4, <2>6 DEF HasBlock
  <2>8. PICK g : g = Before(u, p) \o <<"stop">> \o From(u, p)
    OBVIOUS
  <2>9. g \in Seq(Tokens)
    BY <2>7, <2>8, HeadingSplice DEF HasHeading
  <2>10. ReplaceBlock(f, policy) \in {u, g}
    BY <1>2, <2>2, <2>3, <2>4, <2>8 DEF ReplaceBlock
  <2> QED BY <2>7, <2>9, <2>10
<1>3. CASE ~OneMarkerEach(f) /\ Stops(f) # {}
  <2>1. PICK s, n : s = Min(Stops(f)) /\ n = NextH2(f, s)
    OBVIOUS
  <2>2. s \in 1 .. Len(f)
    BY <1>3, <2>1, FirstStop
  <2>3. n \in s + 1 .. Len(f) + 1
    BY <2>1, <2>2, NextH2Is
  <2>4. PICK p, g : p = s + 1 /\ g = Before(f, p) \o Block(policy) \o From(f, n)
    OBVIOUS
  <2>5. p \in 1 .. Len(f) + 1 /\ n \in 1 .. Len(f) + 1
    BY <1>1, <2>2, <2>3, <2>4
  <2>6. g \in Seq(Tokens)
    BY <2>4, <2>5, BlockSplice DEF HasBlock
  <2>7. ReplaceBlock(f, policy) = g
    BY <1>3, <2>1, <2>4 DEF ReplaceBlock
  <2> QED BY <2>6, <2>7
<1>4. CASE ~OneMarkerEach(f) /\ Stops(f) = {}
  <2>1. PICK p, g : p = NewPlace(f) /\ g = Before(f, p) \o <<"stop">> \o Block(policy) \o From(f, p)
    OBVIOUS
  <2>2. p \in 1 .. Len(f) + 1
    BY <2>1, NewPlaceIs
  <2>3. g \in Seq(Tokens)
    BY <2>1, <2>2, SectionSplice DEF HasSection
  <2>4. ReplaceBlock(f, policy) = g
    BY <1>4, <2>1 DEF ReplaceBlock, NewPlace
  <2> QED BY <2>3, <2>4
<1> QED BY <1>2, <1>3, <1>4

-----------------------------------------------------------------------------
(* The text of the role *)

LEMMA BeforeSame ==
    ASSUME NEW f \in Seq(Tokens), NEW g \in Seq(Tokens),
           NEW i \in 1 .. Len(f) + 1, i <= Len(g) + 1,
           \A k \in 1 .. i - 1 : g[k] = f[k]
    PROVE  Before(g, i) = Before(f, i)
<1>1. PICK a, b : a = Before(f, i) /\ b = Before(g, i)
  OBVIOUS
<1>2. Len(f) \in Nat /\ Len(g) \in Nat /\ i \in 1 .. Len(g) + 1
  BY LenProperties
<1>3. a \in Seq(Tokens) /\ Len(a) = i - 1 /\ \A k \in 1 .. i - 1 : a[k] = f[k]
  BY <1>1, Pieces
<1>4. b \in Seq(Tokens) /\ Len(b) = i - 1 /\ \A k \in 1 .. i - 1 : b[k] = g[k]
  BY <1>1, <1>2, Pieces
<1>5. a = b
  BY <1>3, <1>4, SeqEqual
<1> QED BY <1>1, <1>5

LEMMA FromSame ==
    ASSUME NEW f \in Seq(Tokens), NEW g \in Seq(Tokens),
           NEW i \in 1 .. Len(f) + 1, NEW j \in 1 .. Len(g) + 1,
           Len(g) - j = Len(f) - i,
           \A k \in j .. Len(g) : g[k] = f[k - j + i]
    PROVE  From(g, j) = From(f, i)
<1>1. PICK a, b : a = From(f, i) /\ b = From(g, j)
  OBVIOUS
<1>2. Len(f) \in Nat /\ Len(g) \in Nat
  BY LenProperties
<1>3. /\ a \in Seq(Tokens) /\ Len(a) = Len(f) + 1 - i
      /\ \A k \in 1 .. Len(f) + 1 - i : a[k] = f[i + k - 1]
  BY <1>1, Pieces
<1>4. /\ b \in Seq(Tokens) /\ Len(b) = Len(g) + 1 - j
      /\ \A k \in 1 .. Len(g) + 1 - j : b[k] = g[j + k - 1]
  BY <1>1, Pieces
<1>5. Len(a) = Len(b)
  BY <1>2, <1>3, <1>4
<1>6. ASSUME NEW k \in 1 .. Len(a)
      PROVE  a[k] = b[k]
  <2>1. k \in 1 .. Len(g) + 1 - j /\ k \in 1 .. Len(f) + 1 - i
    BY <1>2, <1>3
  <2>2. PICK m : m = j + k - 1
    OBVIOUS
  <2>3. m \in j .. Len(g) /\ m - j + i = i + k - 1
    BY <1>2, <2>1, <2>2
  <2>4. g[m] = f[i + k - 1]
    BY <2>3
  <2> QED BY <1>3, <1>4, <2>1, <2>2, <2>4
<1>7. a = b
  BY <1>3, <1>4, <1>5, <1>6, SeqEqual
<1> QED BY <1>1, <1>7

LEMMA BeforeNext ==
    ASSUME NEW f \in Seq(Tokens), NEW i \in 1 .. Len(f), NEW j, j = i + 1
    PROVE  Before(f, j) = Before(f, i) \o <<f[i]>>
<1>1. PICK a, b, x : a = Before(f, i) /\ b = Before(f, j) /\ x = f[i]
  OBVIOUS
<1>2. Len(f) \in Nat /\ i \in 1 .. Len(f) + 1 /\ j \in 1 .. Len(f) + 1 /\ x \in Tokens
  BY <1>1, LenProperties
<1>3. a \in Seq(Tokens) /\ Len(a) = i - 1 /\ \A k \in 1 .. i - 1 : a[k] = f[k]
  BY <1>1, <1>2, Pieces
<1>4. b \in Seq(Tokens) /\ Len(b) = j - 1 /\ \A k \in 1 .. j - 1 : b[k] = f[k]
  BY <1>1, <1>2, Pieces
<1>5. PICK c : c = Append(a, x)
  OBVIOUS
<1>6. /\ c \in Seq(Tokens) /\ Len(c) = Len(a) + 1
      /\ \A k \in 1 .. Len(a) : c[k] = a[k]
      /\ c[Len(a) + 1] = x
  BY <1>2, <1>3, <1>5, AppendProperties
<1>7. Len(c) = Len(b)
  BY <1>2, <1>3, <1>4, <1>6
<1>8. ASSUME NEW k \in 1 .. Len(b)
      PROVE  c[k] = b[k]
  <2>1. b[k] = f[k]
    BY <1>4
  <2>2. CASE k = i
    BY <1>1, <1>2, <1>3, <1>6, <2>1, <2>2
  <2>3. CASE k # i
    <3>1. k \in 1 .. i - 1
      BY <1>2, <1>4, <2>3
    <3> QED BY <1>3, <1>6, <2>1, <3>1
  <2> QED BY <2>2, <2>3
<1>9. b = c
  BY <1>4, <1>6, <1>7, <1>8, SeqEqual
<1>10. c = a \o <<x>>
  BY <1>2, <1>3, <1>5, AppendIsConcat
<1> QED BY <1>1, <1>9, <1>10

LEMMA Apart ==
    ASSUME NEW f \in Seq(Tokens), NEW i \in 1 .. Len(f) + 1
    PROVE  Before(f, i) \o From(f, i) = f
<1>1. PICK a, b : a = Before(f, i) /\ b = From(f, i)
  OBVIOUS
<1>0. PICK c : c = a \o b
  OBVIOUS
<1>2. Len(f) \in Nat
  BY LenProperties
<1>3. /\ a \in Seq(Tokens) /\ Len(a) = i - 1 /\ \A k \in 1 .. i - 1 : a[k] = f[k]
      /\ b \in Seq(Tokens) /\ Len(b) = Len(f) + 1 - i
      /\ \A k \in 1 .. Len(f) + 1 - i : b[k] = f[i + k - 1]
  BY <1>1, Pieces
<1>4. /\ c \in Seq(Tokens) /\ Len(c) = Len(a) + Len(b)
      /\ \A k \in 1 .. Len(a) + Len(b) : c[k] = IF k <= Len(a) THEN a[k] ELSE b[k - Len(a)]
  BY <1>0, <1>3, ConcatProperties
<1>5. Len(c) = Len(f)
  BY <1>2, <1>3, <1>4
<1>6. ASSUME NEW k \in 1 .. Len(f)
      PROVE  c[k] = f[k]
  <2>1. k \in 1 .. Len(a) + Len(b)
    BY <1>2, <1>3
  <2>2. CASE k <= i - 1
    BY <1>2, <1>3, <1>4, <2>1, <2>2
  <2>3. CASE k > i - 1
    <3>1. PICK m : m = k - (i - 1)
      OBVIOUS
    <3>2. m \in 1 .. Len(f) + 1 - i /\ i + m - 1 = k
      BY <1>2, <2>3, <3>1
    <3>3. b[m] = f[k]
      BY <1>3, <3>2
    <3>4. c[k] = b[m]
      BY <1>2, <1>3, <1>4, <2>1, <2>3, <3>1
    <3> QED BY <3>3, <3>4
  <2> QED BY <1>2, <2>2, <2>3
<1>7. c = f
  BY <1>4, <1>5, <1>6, SeqEqual
<1> QED BY <1>0, <1>1, <1>7

\* the text without the stop headings
NoStop(f) == Only(f, Tokens \ {"stop", "STOP"})

LEMMA NoStopConcat ==
    ASSUME NEW f \in Seq(Tokens), NEW g \in Seq(Tokens)
    PROVE  NoStop(f \o g) = NoStop(f) \o NoStop(g)
BY OnlyConcat DEF NoStop

LEMMA NoStopType ==
    ASSUME NEW f \in Seq(Tokens)
    PROVE  NoStop(f) \in Seq(Tokens)
BY OnlyType DEF NoStop

\* A stop heading at i is no text of the role.
LEMMA HeadingIsNoText ==
    ASSUME NEW f \in Seq(Tokens), NEW i \in 1 .. Len(f), f[i] \in {"stop", "STOP"}, NEW j, j = i + 1
    PROVE  NoStop(Before(f, j)) = NoStop(Before(f, i))
<1>1. PICK a, h : a = Before(f, i) /\ h = <<f[i]>>
  OBVIOUS
<1>2. i \in 1 .. Len(f) + 1
  BY LenProperties
<1>3. a \in Seq(Tokens)
  BY <1>1, <1>2, Pieces
<1>4. h \in Seq(Tokens)
  BY <1>1, LenProperties
<1>5. NoStop(h) = <<>>
  BY <1>1, OnlyOne DEF NoStop
<1>6. NoStop(a \o h) = NoStop(a) \o <<>>
  BY <1>3, <1>4, <1>5, NoStopConcat
<1>7. NoStop(a) \o <<>> = NoStop(a)
  BY <1>3, NoStopType, ConcatEmptySeq
<1> QED BY <1>1, <1>6, <1>7, BeforeNext

LEMMA InOrderIs ==
    ASSUME NEW f \in Seq(Tokens), NEW b, NEW d, At(f, "begin") = {b}, At(f, "end") = {d},
           b < d
    PROVE  InOrder(f) /\ First(f, "begin") = b /\ First(f, "end") = d
<1>1. First(f, "begin") = b
  BY FirstIs
<1>2. First(f, "end") = d
  BY FirstIs
<1>3. Cardinality(At(f, "begin")) = 1
  BY AtOne
<1>4. Cardinality(At(f, "end")) = 1
  BY AtOne
<1> QED BY <1>1, <1>2, <1>3, <1>4 DEF InOrder, OneMarkerEach

LEMMA RoleTextInOrder ==
    ASSUME NEW f \in Seq(Tokens), InOrder(f), NEW b, b = First(f, "begin"),
           NEW d, d = First(f, "end") + 1
    PROVE  RoleText(f) = NoStop(Before(f, b)) \o NoStop(From(f, d))
<1>1. b \in 1 .. Len(f) + 1 /\ d \in 1 .. Len(f) + 1
  <2>1. PICK p, e : At(f, "begin") = {p} /\ At(f, "end") = {e}
    BY AtOne DEF InOrder, OneMarkerEach
  <2>2. b = p /\ p \in 1 .. Len(f) /\ d = e + 1 /\ e \in 1 .. Len(f) /\ Len(f) \in Nat
    BY <2>1, FirstIs, LenProperties
  <2> QED BY <2>2
<1>2. Before(f, b) \in Seq(Tokens) /\ From(f, d) \in Seq(Tokens)
  BY <1>1, Pieces
<1>3. RoleText(f) = NoStop(Before(f, b) \o From(f, d))
  BY DEF RoleText, NoStop
<1> QED BY <1>2, <1>3, NoStopConcat

\* A file whose first stop section is a block: the rest is the role's.
LEMMA RoleTextOfSection ==
    ASSUME NEW g \in Seq(Tokens), NEW s \in 1 .. Len(g), NEW policy \in Policies,
           s + 4 <= Len(g) + 1, \A k \in 1 .. s - 1 : g[k] \notin {"stop", "STOP"},
           g[s] \in {"stop", "STOP"}, g[s + 1] = "begin", g[s + 2] = policy, g[s + 3] = "end",
           s + 4 <= Len(g) => g[s + 4] \in H2,
           NEW n, n = s + 4
    PROVE  RoleText(g) = NoStop(Before(g, s)) \o NoStop(From(g, n))
<1>1. Len(g) \in Nat /\ s \in Nat /\ n \in 1 .. Len(g) + 1 /\ s \in 1 .. Len(g) + 1
  BY LenProperties
<1>2. Before(g, s) \in Seq(Tokens) /\ From(g, n) \in Seq(Tokens)
  BY <1>1, Pieces
<1>3. \A token : At(g, token) = {k \in 1 .. Len(g) : g[k] = token}
  BY AtPlaces
<1>4. CASE InOrder(g)
  <2>1. PICK p, e : /\ At(g, "begin") = {p} /\ First(g, "begin") = p
                    /\ At(g, "end") = {e} /\ First(g, "end") = e
    BY <1>4, FirstMarkers
  <2>3. PICK j, k : j = s + 1 /\ k = s + 3
    OBVIOUS
  <2>4. j \in At(g, "begin") /\ k \in At(g, "end")
    <3>1. j \in 1 .. Len(g) /\ k \in 1 .. Len(g) /\ g[j] = "begin" /\ g[k] = "end"
      BY <1>1, <2>3
    <3> QED BY <1>3, <3>1
  <2>5. j = First(g, "begin") /\ n = First(g, "end") + 1
    <3>1. p = j /\ e = k /\ n = k + 1
      BY <1>1, <2>1, <2>3, <2>4
    <3> QED BY <2>1, <3>1
  <2>6. RoleText(g) = NoStop(Before(g, j)) \o NoStop(From(g, n))
    BY <1>4, <2>5, RoleTextInOrder
  <2> QED BY <2>3, <2>6, HeadingIsNoText
<1>5. CASE ~InOrder(g)
  <2>1. Stops(g) # {}
    BY <1>1, StopPlaces
  <2>2. Min(Stops(g)) = s
    <3>1. PICK i : i = Min(Stops(g))
      OBVIOUS
    <3>2. i \in 1 .. Len(g) /\ g[i] \in {"stop", "STOP"} /\ i <= s
      BY <2>1, <3>1, FirstStop
    <3> QED BY <1>1, <3>1, <3>2
  <2>3. NextH2(g, s) = n
    <3>1. PICK m : m = NextH2(g, s)
      OBVIOUS
    <3>2. /\ m \in s + 1 .. Len(g) + 1
          /\ \A j \in s + 1 .. m - 1 : g[j] \notin H2
          /\ m <= Len(g) => g[m] \in H2
      BY <3>1, NextH2Is
    <3>3. policy \notin H2 /\ "begin" \notin H2 /\ "end" \notin H2
      BY BlockIs DEF H2
    <3>4. m \notin {s + 1, s + 2, s + 3}
      <4>1. m <= Len(g) => m # s + 1 /\ m # s + 2 /\ m # s + 3
        BY <3>2, <3>3
      <4> QED BY <1>1, <3>2, <4>1
    <3>5. m >= n
      BY <1>1, <3>2, <3>4
    <3>6. ~(m > n)
      <4>1. SUFFICES ASSUME m > n PROVE FALSE
        OBVIOUS
      <4>2. n \in s + 1 .. m - 1 /\ n <= Len(g)
        BY <1>1, <3>2, <4>1
      <4> QED BY <3>2, <4>2
    <3> QED BY <1>1, <3>1, <3>2, <3>5, <3>6
  <2>4. RoleText(g) = NoStop(Before(g, s) \o From(g, n))
    BY <1>5, <2>1, <2>2, <2>3 DEF RoleText, NoStop
  <2> QED BY <1>2, <2>4, NoStopConcat
<1> QED BY <1>4, <1>5

\* The block takes the place of the markers and of what is between them.
LEMMA SpliceKeepsText ==
    ASSUME NEW f \in Seq(Tokens), NEW policy \in Policies, InOrder(f)
    PROVE  RoleText(ReplaceBlock(f, policy)) = RoleText(f)
<1>1. PICK p, e, u : Spliced(f, policy, p, e, u)
  BY InOrderIsSpliced
<1>2. PICK q, r : q = e + 1 /\ r = p + 3
  OBVIOUS
<1>3. /\ First(f, "begin") = p /\ First(f, "end") = e
      /\ p \in 1 .. Len(f) /\ e \in 1 .. Len(f) /\ p < e /\ Len(f) \in Nat
      /\ HasBlock(u, f, p, policy, q)
      /\ At(u, "begin") = {p} /\ At(u, "end") = {p + 2}
  BY <1>1, <1>2, LenProperties DEF Spliced
<1>4. /\ u \in Seq(Tokens) /\ Len(u) = p + 2 + (Len(f) + 1 - q)
      /\ \A k \in 1 .. p - 1 : u[k] = f[k]
      /\ \A k \in p + 3 .. Len(u) : u[k] = f[k - (p + 3) + q]
  BY <1>3 DEF HasBlock
<1>5. /\ p \in 1 .. Len(f) + 1 /\ q \in 1 .. Len(f) + 1
      /\ p \in 1 .. Len(u) + 1 /\ r \in 1 .. Len(u) + 1
      /\ Len(u) - r = Len(f) - q /\ p <= Len(u) + 1 /\ Len(u) \in Nat
  BY <1>2, <1>3, <1>4
<1>6. Before(u, p) = Before(f, p)
  BY <1>4, <1>5, BeforeSame
<1>7. From(u, r) = From(f, q)
  BY <1>2, <1>4, <1>5, FromSame
<1>8. RoleText(f) = NoStop(Before(f, p)) \o NoStop(From(f, q))
  BY <1>2, <1>3, RoleTextInOrder
<1>9. CASE At(u, "stop") # {}
  <2>1. ReplaceBlock(f, policy) = u
    BY <1>1, <1>9 DEF Spliced
  <2>2. PICK d : d = p + 2 /\ At(u, "end") = {d} /\ At(u, "begin") = {p}
    BY <1>3
  <2>3. p < d /\ u \in Seq(Tokens)
    BY <1>3, <1>4, <2>2
  <2>4. InOrder(u) /\ First(u, "begin") = p /\ First(u, "end") = d
    BY <2>2, <2>3, InOrderIs
  <2>5. r = First(u, "end") + 1 /\ p = First(u, "begin")
    BY <1>2, <1>3, <2>2, <2>4
  <2>6. RoleText(u) = NoStop(Before(u, p)) \o NoStop(From(u, r))
    BY <1>4, <2>4, <2>5, RoleTextInOrder
  <2> QED BY <1>6, <1>7, <1>8, <2>1, <2>6
<1>10. CASE At(u, "stop") = {}
  <2>1. PICK g, b, d, n : g = ReplaceBlock(f, policy) /\ b = p + 1 /\ d = p + 3 /\ n = p + 4
    OBVIOUS
  <2>2. HasHeading(g, u, p) /\ At(g, "begin") = {b} /\ At(g, "end") = {d}
    BY <1>1, <1>10, <2>1 DEF Spliced
  <2>3. /\ g \in Seq(Tokens) /\ Len(g) = Len(u) + 1 /\ g[p] = "stop"
        /\ \A k \in 1 .. p - 1 : g[k] = u[k]
        /\ \A k \in p + 1 .. Len(g) : g[k] = u[k - 1]
    BY <2>2 DEF HasHeading
  <2>4. b < d
    BY <1>3, <2>1
  <2>5. InOrder(g) /\ First(g, "begin") = b /\ First(g, "end") = d
    BY <2>2, <2>3, <2>4, InOrderIs
  <2>6. b = First(g, "begin") /\ n = First(g, "end") + 1
    BY <1>3, <2>1, <2>5
  <2>7. RoleText(g) = NoStop(Before(g, b)) \o NoStop(From(g, n))
    BY <2>3, <2>5, <2>6, RoleTextInOrder
  <2>8. p \in 1 .. Len(g) /\ n \in 1 .. Len(g) + 1 /\ Len(g) - n = Len(u) - r /\ p <= Len(g) + 1
    BY <1>2, <1>3, <1>5, <2>1, <2>3
  <2>9. NoStop(Before(g, b)) = NoStop(Before(g, p))
    BY <2>1, <2>3, <2>8, HeadingIsNoText
  <2>10. Before(g, p) = Before(u, p)
    BY <1>4, <1>5, <2>3, <2>8, BeforeSame
  <2>11. ASSUME NEW k \in n .. Len(g)
         PROVE  g[k] = u[k - n + r]
    <3>1. k \in p + 1 .. Len(g) /\ k - n + r = k - 1
      BY <1>2, <1>3, <1>5, <2>1, <2>3
    <3> QED BY <2>3, <3>1
  <2>12. From(g, n) = From(u, r)
    BY <1>4, <1>5, <2>3, <2>8, <2>11, FromSame
  <2> QED BY <1>6, <1>7, <1>8, <2>1, <2>7, <2>9, <2>10, <2>12
<1> QED BY <1>9, <1>10

\* A stop section without markers: its body gives way to the block.
LEMMA SectionKeepsText ==
    ASSUME NEW f \in Seq(Tokens), NEW policy \in Policies, ~OneMarkerEach(f),
           Stops(f) # {}
    PROVE  RoleText(ReplaceBlock(f, policy)) = RoleText(f)
<1>1. PICK s, n : s = Min(Stops(f)) /\ n = NextH2(f, s)
  OBVIOUS
<1>2. /\ s \in 1 .. Len(f) /\ f[s] \in {"stop", "STOP"} /\ Len(f) \in Nat
      /\ \A k \in 1 .. Len(f) : f[k] \in {"stop", "STOP"} => s <= k
  BY <1>1, FirstStop, LenProperties
<1>3. \A k \in 1 .. s - 1 : f[k] \notin {"stop", "STOP"}
  BY <1>2
<1>4. n \in s + 1 .. Len(f) + 1 /\ (n <= Len(f) => f[n] \in H2)
  BY <1>1, <1>2, NextH2Is
<1>5. PICK p, g : p = s + 1 /\ g = Before(f, p) \o Block(policy) \o From(f, n)
  OBVIOUS
<1>6. /\ p \in 1 .. Len(f) + 1 /\ n \in 1 .. Len(f) + 1 /\ s \in 1 .. Len(f) + 1
  BY <1>2, <1>4, <1>5
<1>7. HasBlock(g, f, p, policy, n)
  BY <1>5, <1>6, BlockSplice
<1>8. ReplaceBlock(f, policy) = g
  BY <1>1, <1>5 DEF ReplaceBlock
<1>9. /\ g \in Seq(Tokens) /\ Len(g) = p + 2 + (Len(f) + 1 - n)
      /\ \A k \in 1 .. p - 1 : g[k] = f[k]
      /\ g[p] = "begin" /\ g[p + 1] = policy /\ g[p + 2] = "end"
      /\ \A k \in p + 3 .. Len(g) : g[k] = f[k - (p + 3) + n]
  BY <1>7 DEF HasBlock
<1>10. PICK m : m = s + 4
  OBVIOUS
<1>11. /\ s \in 1 .. Len(g) /\ s + 4 <= Len(g) + 1 /\ m \in 1 .. Len(g) + 1
       /\ Len(g) - m = Len(f) - n /\ s <= Len(g) + 1 /\ Len(g) \in Nat
  <2>1. p = s + 1 /\ Len(g) = p + 2 + (Len(f) + 1 - n)
    BY <1>5, <1>9
  <2> QED BY <1>2, <1>4, <1>10, <2>1
<1>12. /\ \A k \in 1 .. s - 1 : g[k] = f[k] /\ g[k] \notin {"stop", "STOP"}
       /\ g[s] \in {"stop", "STOP"} /\ g[s + 1] = "begin" /\ g[s + 2] = policy /\ g[s + 3] = "end"
  <2>1. p + 1 = s + 2 /\ p + 2 = s + 3 /\ p - 1 = s /\ s \in 1 .. p - 1
        /\ 1 .. s - 1 \subseteq 1 .. p - 1
    BY <1>2, <1>5
  <2>2. g[s] \in {"stop", "STOP"}
    BY <1>2, <1>9, <2>1
  <2>3. g[s + 1] = "begin" /\ g[s + 2] = policy /\ g[s + 3] = "end"
    BY <1>5, <1>9, <2>1
  <2> QED BY <1>3, <1>9, <2>1, <2>2, <2>3
<1>13. ASSUME NEW k \in m .. Len(g)
       PROVE  g[k] = f[k - m + n]
  <2>1. k \in p + 3 .. Len(g) /\ k - (p + 3) + n = k - m + n
    BY <1>2, <1>5, <1>10, <1>11
  <2> QED BY <1>9, <2>1
<1>14. s + 4 <= Len(g) => g[s + 4] \in H2
  <2>1. SUFFICES ASSUME m <= Len(g) PROVE g[m] \in H2
    BY <1>10
  <2>2. m \in m .. Len(g) /\ m - m + n = n /\ n <= Len(f)
    BY <1>2, <1>4, <1>10, <1>11, <2>1
  <2>3. g[m] = f[m - m + n]
    BY <1>13, <2>2
  <2> QED BY <1>4, <2>2, <2>3
<1>15. RoleText(g) = NoStop(Before(g, s)) \o NoStop(From(g, m))
  BY <1>9, <1>10, <1>11, <1>12, <1>14, RoleTextOfSection
<1>16. Before(g, s) = Before(f, s)
  BY <1>6, <1>9, <1>11, <1>12, BeforeSame
<1>17. From(g, m) = From(f, n)
  BY <1>6, <1>9, <1>11, <1>13, FromSame
<1>18. RoleText(f) = NoStop(Before(f, s)) \o NoStop(From(f, n))
  <2>1. RoleText(f) = NoStop(Before(f, s) \o From(f, n))
    BY <1>1 DEF RoleText, NoStop, InOrder
  <2>2. Before(f, s) \in Seq(Tokens) /\ From(f, n) \in Seq(Tokens)
    BY <1>6, Pieces
  <2> QED BY <2>1, <2>2, NoStopConcat
<1> QED BY <1>8, <1>15, <1>16, <1>17, <1>18

\* Neither: all of the file is the role's, and stays.
LEMMA NewSectionKeepsText ==
    ASSUME NEW f \in Seq(Tokens), NEW policy \in Policies, ~OneMarkerEach(f),
           Stops(f) = {}
    PROVE  RoleText(ReplaceBlock(f, policy)) = RoleText(f)
<1>1. PICK p, g : p = NewPlace(f) /\ g = Before(f, p) \o <<"stop">> \o Block(policy) \o From(f, p)
  OBVIOUS
<1>2. p \in 1 .. Len(f) + 1 /\ Len(f) \in Nat /\ (p <= Len(f) => f[p] = "esc")
  BY <1>1, NewPlaceIs, LenProperties
<1>3. ReplaceBlock(f, policy) = g
  BY <1>1 DEF ReplaceBlock, NewPlace
<1>4. HasSection(g, f, p, policy)
  BY <1>1, <1>2, SectionSplice
<1>5. /\ g \in Seq(Tokens) /\ Len(g) = Len(f) + 4
      /\ \A k \in 1 .. p - 1 : g[k] = f[k]
      /\ g[p] = "stop" /\ g[p + 1] = "begin" /\ g[p + 2] = policy /\ g[p + 3] = "end"
      /\ \A k \in p + 4 .. Len(g) : g[k] = f[k - 4]
  BY <1>4 DEF HasSection
<1>6. PICK m : m = p + 4
  OBVIOUS
<1>7. /\ p \in 1 .. Len(g) /\ p + 4 <= Len(g) + 1 /\ m \in 1 .. Len(g) + 1
      /\ Len(g) - m = Len(f) - p /\ p <= Len(g) + 1 /\ Len(g) \in Nat
  BY <1>2, <1>5, <1>6
<1>8. \A k \in 1 .. p - 1 : g[k] \notin {"stop", "STOP"}
  <2>1. \A k \in 1 .. Len(f) : f[k] \notin {"stop", "STOP"}
    BY StopPlaces
  <2>2. 1 .. p - 1 \subseteq 1 .. Len(f)
    BY <1>2
  <2> QED BY <1>5, <2>1, <2>2
<1>9. ASSUME NEW k \in m .. Len(g)
      PROVE  g[k] = f[k - m + p]
  <2>1. k \in p + 4 .. Len(g) /\ k - 4 = k - m + p
    BY <1>2, <1>6, <1>7
  <2> QED BY <1>5, <2>1
<1>10. p + 4 <= Len(g) => g[p + 4] \in H2
  <2>1. SUFFICES ASSUME m <= Len(g) PROVE g[m] \in H2
    BY <1>6
  <2>2. m \in m .. Len(g) /\ m - m + p = p /\ p <= Len(f)
    BY <1>2, <1>6, <1>7, <2>1
  <2>3. g[m] = f[m - m + p]
    BY <1>9, <2>2
  <2> QED BY <1>2, <2>2, <2>3 DEF H2
<1>11. RoleText(g) = NoStop(Before(g, p)) \o NoStop(From(g, m))
  BY <1>5, <1>6, <1>7, <1>8, <1>10, RoleTextOfSection
<1>12. Before(g, p) = Before(f, p)
  BY <1>2, <1>5, <1>7, BeforeSame
<1>13. From(g, m) = From(f, p)
  BY <1>2, <1>5, <1>7, <1>9, FromSame
<1>14. NoStop(Before(f, p)) \o NoStop(From(f, p)) = NoStop(f)
  <2>1. Before(f, p) \in Seq(Tokens) /\ From(f, p) \in Seq(Tokens)
    BY <1>2, Pieces
  <2>2. Before(f, p) \o From(f, p) = f
    BY <1>2, Apart
  <2> QED BY <2>1, <2>2, NoStopConcat
<1>15. RoleText(f) = NoStop(f)
  BY DEF RoleText, NoStop, InOrder
<1> QED BY <1>3, <1>11, <1>12, <1>13, <1>14, <1>15

LEMMA ReplaceKeepsText ==
    ASSUME NEW f \in Seq(Tokens), NEW policy \in Policies,
           OneMarkerEach(f) => InOrder(f)
    PROVE  RoleText(ReplaceBlock(f, policy)) = RoleText(f)
BY SpliceKeepsText, SectionKeepsText, NewSectionKeepsText

-----------------------------------------------------------------------------
(* The sync *)

LEMMA SyncStates ==
    ASSUME SyncTypeOK
    PROVE  /\ sync.pc \in {"idle", "running", "done"}
           /\ sync.pc # "idle" => sync.policy \in Policies
           /\ sync.pc = "running" =>
                /\ sync.todo \in Seq(Agents)
                /\ sync = [pc |-> "running", policy |-> sync.policy, todo |-> sync.todo]
           /\ \A a \in Agents : agentFiles[a] \in Seq(Tokens)
<1>1. \/ sync \in [pc : {"idle"}]
      \/ sync \in [pc : {"running"}, policy : Policies, todo : Seq(Agents)]
      \/ sync \in [pc : {"done"}, policy : Policies]
  BY DEF SyncTypeOK
<1>2. \A a \in Agents : agentFiles[a] \in Seq(Tokens)
  BY DEF SyncTypeOK
<1>3. CASE sync \in [pc : {"idle"}]
  BY <1>2, <1>3
<1>4. CASE sync \in [pc : {"running"}, policy : Policies, todo : Seq(Agents)]
  <2>1. PICK p \in Policies, t \in Seq(Agents) : sync = [pc |-> "running", policy |-> p, todo |-> t]
    BY <1>4
  <2>2. sync.pc = "running" /\ sync.policy = p /\ sync.todo = t
    BY <2>1
  <2> QED BY <1>2, <2>1, <2>2
<1>5. CASE sync \in [pc : {"done"}, policy : Policies]
  BY <1>2, <1>5
<1> QED BY <1>1, <1>3, <1>4, <1>5

\* The next file and those after it.
LEMMA NextFile ==
    ASSUME NEW todo \in Seq(Agents), todo # <<>>
    PROVE  /\ Head(todo) \in Agents /\ Tail(todo) \in Seq(Agents)
           /\ Range(todo) = {Head(todo)} \union Range(Tail(todo))
<1>1. PICK h, r : h = Head(todo) /\ r = Tail(todo)
  OBVIOUS
<1>2. /\ h \in Agents /\ r \in Seq(Agents) /\ Len(r) = Len(todo) - 1
      /\ \A i \in 1 .. Len(r) : r[i] = todo[i + 1]
      /\ Len(todo) \in Nat /\ Len(todo) >= 1 /\ h = todo[1]
      /\ DOMAIN todo = 1 .. Len(todo) /\ DOMAIN r = 1 .. Len(r)
  BY <1>1, HeadTailProperties, LenProperties, EmptySeq
<1>3. Range(todo) \subseteq {h} \union Range(r)
  <2>1. SUFFICES ASSUME NEW i \in 1 .. Len(todo)
                 PROVE  todo[i] \in {h} \union Range(r)
    BY <1>2 DEF Range
  <2>2. Len(todo) \in Nat /\ Len(r) = Len(todo) - 1
    BY <1>2
  <2>3. CASE i = 1
    BY <1>2, <2>3
  <2>4. CASE i # 1
    <3>1. PICK j : j = i - 1
      OBVIOUS
    <3>2. j \in 1 .. Len(r) /\ j + 1 = i
      BY <2>2, <2>4, <3>1
    <3>3. r[j] = todo[i]
      BY <1>2, <3>2
    <3> QED BY <1>2, <3>2, <3>3 DEF Range
  <2> QED BY <2>3, <2>4
<1>4. {h} \union Range(r) \subseteq Range(todo)
  <2>1. \A j \in 1 .. Len(r) : j + 1 \in 1 .. Len(todo)
    BY <1>2
  <2> QED BY <1>2, <2>1 DEF Range
<1> QED BY <1>1, <1>2, <1>3, <1>4

LEMMA AgentPathsAreAgents ==
    AgentPaths \in Seq(Agents) /\ Range(AgentPaths) = Agents
BY SyncAssumption DEF Agents

LEMMA RepairInit == SyncInit => RepairInv
<1> SUFFICES ASSUME SyncInit PROVE RepairInv
  OBVIOUS
<1>1. agentFiles \in [Agents -> Seq(Tokens)] /\ original = agentFiles /\ sync = AtRest
  BY SyncAssumption DEF SyncInit
<1>2. SyncTypeOK
  BY <1>1, SyncAssumption DEF SyncInit, SyncTypeOK, AtRest
<1> QED BY <1>1, <1>2 DEF RepairInv, AtRest

LEMMA RepairStart ==
    ASSUME RepairInv, SyncStart PROVE RepairInv'
<1>1. SyncTypeOK
  BY DEF RepairInv
<1>2. UNCHANGED <<agentsMd, agentFiles, original, policyEdits, syncFailures>>
  BY DEF SyncStart
<1>3. CASE agentsMd = Broken
  <2>1. sync' = [pc |-> "idle"]
    BY <1>3 DEF SyncStart, AtRest
  <2>2. SyncTypeOK'
    BY <1>1, <1>2, <2>1 DEF SyncTypeOK
  <2> QED BY <1>2, <2>1, <2>2 DEF RepairInv
<1>4. CASE agentsMd # Broken
  <2>1. sync' = [pc |-> "running", policy |-> agentsMd, todo |-> AgentPaths]
    BY <1>4 DEF SyncStart
  <2>2. agentsMd \in Policies
    BY <1>1, <1>4 DEF SyncTypeOK
  <2>3. SyncTypeOK'
    BY <1>1, <1>2, <2>1, <2>2, AgentPathsAreAgents DEF SyncTypeOK
  <2>4. ToDo' = Agents
    BY <2>1, AgentPathsAreAgents DEF ToDo
  <2> QED BY <1>2, <2>3, <2>4 DEF RepairInv
<1> QED BY <1>3, <1>4

\* The file at hand becomes one without errors, the others are as they were.
LEMMA RepairFile ==
    ASSUME RepairInv, SyncFile PROVE RepairInv'
<1>1. SyncTypeOK /\ sync.pc = "running" /\ sync.todo # <<>>
  BY DEF RepairInv, SyncFile
<1>2. PICK h, r, p : h = Head(sync.todo) /\ r = Tail(sync.todo) /\ p = sync.policy
  OBVIOUS
<1>3. /\ p \in Policies /\ sync.todo \in Seq(Agents) /\ h \in Agents /\ r \in Seq(Agents)
      /\ Range(sync.todo) = {h} \union Range(r)
      /\ sync = [pc |-> "running", policy |-> p, todo |-> sync.todo]
  BY <1>1, <1>2, SyncStates, NextFile
<1>4. PICK new : new = ReplaceBlock(agentFiles[h], p)
  OBVIOUS
<1>5. /\ agentFiles' = [agentFiles EXCEPT ![h] = new]
      /\ sync' = [pc |-> "running", policy |-> p, todo |-> r]
      /\ UNCHANGED <<agentsMd, original, policyEdits, syncFailures>>
  <2>1. /\ agentFiles' = [agentFiles EXCEPT ![h] = new]
        /\ UNCHANGED <<agentsMd, original, policyEdits, syncFailures>>
    BY <1>2, <1>4 DEF SyncFile
  <2>2. sync' = [sync EXCEPT !.todo = Tail(@)]
    BY DEF SyncFile
  <2>3. sync' = [pc |-> "running", policy |-> p, todo |-> r]
    <3>1. PICK t : t = sync.todo /\ sync = [pc |-> "running", policy |-> p, todo |-> t]
      BY <1>3
    <3>2. sync' = [sync EXCEPT !.todo = r]
      BY <1>2, <2>2
    <3> QED BY <3>1, <3>2
  <2> QED BY <2>1, <2>3
<1>6. agentFiles \in [Agents -> Seq(Tokens)] /\ agentFiles[h] \in Seq(Tokens)
  BY <1>1, <1>3 DEF SyncTypeOK
<1>7. new \in Seq(Tokens)
  BY <1>3, <1>4, <1>6, ReplaceType
<1>8. agentFiles' \in [Agents -> Seq(Tokens)]
  BY <1>5, <1>6, <1>7
<1>9. sync' \in [pc : {"running"}, policy : Policies, todo : Seq(Agents)]
  BY <1>3, <1>5
<1>10. SyncTypeOK'
  BY <1>1, <1>5, <1>8, <1>9 DEF SyncTypeOK
<1>11. Regular(original[h]) => Regular(new) /\ BlockErrors(new, p) = {}
  <2>1. SUFFICES ASSUME Regular(original[h])
                 PROVE  Regular(new) /\ BlockErrors(new, p) = {}
    OBVIOUS
  <2>2. Regular(agentFiles[h])
    BY <1>3, <2>1 DEF RepairInv
  <2>3. PICK s, b : Clean(new, p, s, b)
    BY <1>3, <1>4, <1>6, <2>2, ReplaceIsClean
  <2> QED BY <1>3, <2>3, CleanIsRegular
<1>12. ToDo = {h} \union Range(r) /\ ToDo' = Range(r)
  BY <1>1, <1>3, <1>5 DEF ToDo
<1>13. ASSUME NEW a \in Agents, Regular(original[a])
       PROVE  /\ Regular(agentFiles'[a])
              /\ a \notin ToDo' => BlockErrors(agentFiles'[a], p) = {}
  <2>1. CASE a = h
    BY <1>5, <1>6, <1>11, <1>13, <2>1
  <2>2. CASE a # h
    <3>1. agentFiles'[a] = agentFiles[a]
      BY <1>5, <1>6, <2>2
    <3>2. a \notin ToDo' => a \notin ToDo
      BY <1>12, <2>2
    <3> QED BY <1>1, <1>2, <1>13, <3>1, <3>2 DEF RepairInv
  <2> QED BY <2>1, <2>2
<1>14. original' = original /\ sync'.policy = p
  BY <1>5
<1> QED BY <1>10, <1>13, <1>14 DEF RepairInv

LEMMA RepairFinish ==
    ASSUME RepairInv, SyncFinish PROVE RepairInv'
<1>1. SyncTypeOK /\ sync.pc = "running" /\ sync.todo = <<>> /\ sync.policy \in Policies
  BY SyncStates DEF RepairInv, SyncFinish
<1>2. /\ sync' = [pc |-> "done", policy |-> sync.policy]
      /\ UNCHANGED <<agentsMd, agentFiles, original, policyEdits, syncFailures>>
  BY DEF SyncFinish
<1>3. SyncTypeOK'
  BY <1>1, <1>2 DEF SyncTypeOK
<1>4. ToDo = {} /\ ToDo' = {} /\ sync'.policy = sync.policy
  BY <1>1, <1>2 DEF ToDo, Range
<1> QED BY <1>1, <1>2, <1>3, <1>4 DEF RepairInv

\* A sync that fails inside a file leaves it regular: what was cut off is put
\* right by the next sync.
LEMMA RepairFail ==
    ASSUME RepairInv, SyncFail PROVE RepairInv'
<1>1. SyncTypeOK /\ sync.pc = "running"
  BY DEF RepairInv, SyncFail
<1>2. /\ sync' = [pc |-> "idle"] /\ UNCHANGED <<agentsMd, original, policyEdits>>
      /\ syncFailures' = syncFailures + 1 /\ syncFailures < MaxSyncFailures
  BY DEF SyncFail, AtRest
<1>3. syncFailures' \in 0 .. MaxSyncFailures
  BY <1>1, <1>2, SyncAssumption DEF SyncTypeOK
<1>4. CASE UNCHANGED agentFiles
  <2>1. SyncTypeOK'
    BY <1>1, <1>2, <1>3, <1>4 DEF SyncTypeOK
  <2> QED BY <1>2, <1>4, <2>1 DEF RepairInv
<1>5. CASE /\ sync.todo # <<>>
           /\ \E torn \in TornWrites(ReplaceBlock(agentFiles[Head(sync.todo)], sync.policy)) :
                 agentFiles' = [agentFiles EXCEPT ![Head(sync.todo)] = torn]
  <2>1. PICK h, p : h = Head(sync.todo) /\ p = sync.policy
    OBVIOUS
  <2>2. h \in Agents /\ p \in Policies
    BY <1>1, <1>5, <2>1, SyncStates, NextFile
  <2>3. PICK new : new = ReplaceBlock(agentFiles[h], p)
    OBVIOUS
  <2>4. PICK torn \in TornWrites(new) : agentFiles' = [agentFiles EXCEPT ![h] = torn]
    BY <1>5, <2>1, <2>3
  <2>5. agentFiles \in [Agents -> Seq(Tokens)] /\ agentFiles[h] \in Seq(Tokens)
    BY <1>1, <2>2 DEF SyncTypeOK
  <2>6. torn \in Seq(Tokens)
    BY <2>2, <2>3, <2>5, ReplaceType, TornShape
  <2>7. agentFiles' \in [Agents -> Seq(Tokens)]
    BY <2>4, <2>5, <2>6
  <2>8. SyncTypeOK'
    BY <1>1, <1>2, <1>3, <2>7 DEF SyncTypeOK
  <2>9. ASSUME NEW a \in Agents, Regular(original[a])
        PROVE  Regular(agentFiles'[a])
    <3>1. Regular(agentFiles[a])
      BY <2>9 DEF RepairInv
    <3>2. CASE a = h
      <4>1. PICK s, b : Clean(new, p, s, b)
        BY <2>2, <2>3, <2>5, <3>1, <3>2, ReplaceIsClean
      <4>2. Regular(torn)
        BY <2>2, <4>1, TornIsRegular
      <4> QED BY <2>2, <2>4, <2>5, <3>2, <4>2
    <3>3. CASE a # h
      BY <2>4, <2>5, <3>1, <3>3
    <3> QED BY <3>2, <3>3
  <2> QED BY <1>2, <2>8, <2>9 DEF RepairInv
<1> QED BY <1>4, <1>5 DEF SyncFail

LEMMA RepairEdit ==
    ASSUME RepairInv, EditPolicy PROVE RepairInv'
<1>1. SyncTypeOK
  BY DEF RepairInv
<1>2. /\ UNCHANGED <<agentFiles, sync, original, syncFailures>>
      /\ agentsMd' \in Policies \union {Broken} /\ policyEdits' = policyEdits + 1
      /\ policyEdits < MaxPolicyEdits
  BY DEF EditPolicy
<1>3. policyEdits' \in 0 .. MaxPolicyEdits
  BY <1>1, <1>2, SyncAssumption DEF SyncTypeOK
<1>4. SyncTypeOK'
  BY <1>1, <1>2, <1>3 DEF SyncTypeOK
<1> QED BY <1>2, <1>4 DEF RepairInv, ToDo

LEMMA RepairStep == RepairInv /\ [SyncNext]_syncVars => RepairInv'
<1>1. ASSUME RepairInv, UNCHANGED syncVars PROVE RepairInv'
  BY <1>1 DEF RepairInv, SyncTypeOK, ToDo, syncVars
<1> QED BY <1>1, RepairStart, RepairFile, RepairFinish, RepairFail, RepairEdit DEF SyncNext

LEMMA RepairSuffices == RepairInv => SyncRepairs
<1> SUFFICES ASSUME RepairInv, sync.pc = "done", agentsMd = sync.policy
             PROVE  /\ \A a \in Agents :
                          Regular(original[a]) => BlockErrors(agentFiles[a], agentsMd) = {}
                    /\ Agents # {} /\ (\A a \in Agents : Regular(original[a]) /\ ~HandlingErrors(a))
                          => CheckPasses
  BY DEF SyncRepairs
<1>1. ToDo = {}
  BY DEF ToDo
<1>2. \A a \in Agents : Regular(original[a]) => BlockErrors(agentFiles[a], agentsMd) = {}
  BY <1>1 DEF RepairInv
<1>3. agentsMd # Broken
  BY SyncStates, SyncAssumption DEF RepairInv
<1> QED BY <1>2, <1>3 DEF CheckPasses

\* A sync that reaches its end leaves no error in the generated part of any
\* file that was regular at first, in whatever state earlier syncs ended.
THEOREM SyncRepairsHolds == SyncSpec => []SyncRepairs
<1>1. SyncSpec => []RepairInv
  BY RepairInit, RepairStep, PTL DEF SyncSpec
<1> QED BY <1>1, RepairSuffices, PTL

\* Only a write that ends changes a file without a failed sync.
LEMMA TextStep ==
    ASSUME SyncTypeOK, [SyncNext]_syncVars, syncFailures' = syncFailures,
           NEW a \in Agents, OneMarkerEach(agentFiles[a]) => InOrder(agentFiles[a])
    PROVE  RoleText(agentFiles'[a]) = RoleText(agentFiles[a])
<1>1. CASE SyncFile
  <2>1. sync.pc = "running" /\ sync.todo # <<>>
    BY <1>1 DEF SyncFile
  <2>2. PICK h, p : h = Head(sync.todo) /\ p = sync.policy
    OBVIOUS
  <2>3. h \in Agents /\ p \in Policies
    BY <2>1, <2>2, SyncStates, NextFile
  <2>4. PICK new : new = ReplaceBlock(agentFiles[h], p)
    OBVIOUS
  <2>5. agentFiles' = [agentFiles EXCEPT ![h] = new]
    BY <1>1, <2>2, <2>4 DEF SyncFile
  <2>6. agentFiles \in [Agents -> Seq(Tokens)]
    BY DEF SyncTypeOK
  <2>7. CASE a = h
    <3>1. RoleText(new) = RoleText(agentFiles[a])
      BY <2>3, <2>4, <2>6, <2>7, ReplaceKeepsText
    <3> QED BY <2>3, <2>5, <2>6, <2>7, <3>1
  <2>8. CASE a # h
    BY <2>5, <2>6, <2>8
  <2> QED BY <2>7, <2>8
<1>2. CASE SyncFail
  BY <1>2, SyncAssumption DEF SyncFail, SyncTypeOK
<1>3. CASE UNCHANGED agentFiles
  BY <1>3
<1> QED BY <1>1, <1>2, <1>3 DEF SyncNext, SyncStart, SyncFinish, EditPolicy, syncVars

\* A write that ends leaves the text of the role as it was, in every file
\* whose markers are not crossed.
THEOREM RoleTextIsKeptHolds == SyncSpec => RoleTextIsKept
<1>1. SyncSpec => []RepairInv
  BY RepairInit, RepairStep, PTL DEF SyncSpec
<1>2. RepairInv /\ [SyncNext]_syncVars => [KeepsRoleText]_syncVars
  BY TextStep DEF RepairInv, KeepsRoleText
<1> QED BY <1>1, <1>2, PTL DEF SyncSpec, RoleTextIsKept

-----------------------------------------------------------------------------
(* The open-question update check *)

\* What a diff keeps are the lines it keeps the places of.
LEMMA PickedLines ==
    ASSUME NEW f, NEW N \in Nat, NEW at \in SUBSET (1 .. N)
    PROVE  Range(Picked(f, at)) = Lines(f, at)
<1> DEFINE upTo(i) == {j \in at : j <= i}
           rank(i) == Cardinality(upTo(i))
           n == Cardinality(at)
           place(m) == CHOOSE i \in at : rank(i) = m
<1>1. IsFiniteSet(at) /\ n \in Nat
  <2>1. 1 \in Int /\ N \in Int
    OBVIOUS
  <2>2. IsFiniteSet(1 .. N)
    BY <2>1, FS_Interval
  <2> QED BY <2>2, FS_Subset, FS_CardinalityType
<1>2. \A i \in at : IsFiniteSet(upTo(i)) /\ rank(i) \in 1 .. n
  <2>1. SUFFICES ASSUME NEW i \in at
                 PROVE  IsFiniteSet(upTo(i)) /\ rank(i) \in 1 .. n
    OBVIOUS
  <2>2. upTo(i) \in SUBSET at /\ i \in upTo(i)
    OBVIOUS
  <2> HIDE DEF upTo
  <2>3. IsFiniteSet(upTo(i)) /\ rank(i) <= n /\ rank(i) \in Nat
    BY <1>1, <2>2, FS_Subset, FS_CardinalityType
  <2>4. rank(i) # 0
    BY <2>2, <2>3, FS_EmptySet
  <2> QED BY <1>1, <2>3, <2>4
<1>3. \A i, j \in at : i < j => rank(i) # rank(j)
  <2>1. SUFFICES ASSUME NEW i \in at, NEW j \in at, i < j
                 PROVE  rank(i) # rank(j)
    OBVIOUS
  <2>2. upTo(i) \in SUBSET upTo(j) /\ j \in upTo(j) /\ j \notin upTo(i)
    <3>1. \A k \in at : k \in Nat
      OBVIOUS
    <3>2. j <= j /\ ~(j <= i) /\ \A k \in at : k <= i => k <= j
      BY <2>1, <3>1
    <3> QED BY <3>2
  <2>3. IsFiniteSet(upTo(j))
    BY <1>2
  <2> HIDE DEF upTo
  <2> QED BY <2>2, <2>3, FS_Subset
<1>4. \A i, j \in at : rank(i) = rank(j) => i = j
  <2>1. \A i, j \in at : i < j \/ j < i \/ i = j
    OBVIOUS
  <2> HIDE DEF rank
  <2> QED BY <1>3, <2>1
<1>5. \A m \in 1 .. n : \E i \in at : rank(i) = m
  <2> DEFINE g == [i \in at |-> rank(i)]
  <2> HIDE DEF rank, n
  <2>1. g \in [at -> 1 .. n] /\ \A i, j \in at : g[i] = g[j] => i = j
    BY <1>2, <1>4
  <2> HIDE DEF g
  <2>2. g \in Injection(at, 1 .. n)
    BY <2>1 DEF Injection, IsInjective
  <2>3. IsFiniteSet(1 .. n) /\ Cardinality(1 .. n) = n
    BY <1>1, FS_Interval
  <2>4. g \in Surjection(at, 1 .. n)
    BY <2>2, <2>3, FS_Injection DEF n
  <2>5. \A m \in 1 .. n : \E i \in at : g[i] = m
    BY <2>4 DEF Surjection
  <2> QED BY <2>5 DEF g
<1>6. Picked(f, at) = [m \in 1 .. n |-> f[place(m)]]
  BY DEF Picked
<1> HIDE DEF rank, n
<1>7. \A m \in 1 .. n : place(m) \in at /\ rank(place(m)) = m
  BY <1>5
<1>8. \A i \in at : place(rank(i)) = i /\ rank(i) \in 1 .. n
  BY <1>2, <1>4, <1>7
<1> HIDE DEF place
<1>9. Range(Picked(f, at)) = {f[place(m)] : m \in 1 .. n}
  BY <1>6 DEF Range
<1> QED BY <1>7, <1>8, <1>9 DEF Lines

LEMMA RegistryIs ==
    ASSUME NEW f \in Registries
    PROVE  /\ \E N \in Nat : DOMAIN f = 1 .. N
           /\ Range(f) = Lines(f, DOMAIN f)
           /\ \A x, y \in Range(f) : IsRow(x) /\ IsRow(y) /\ x.id = y.id => x = y
<1>1. /\ f \in Seq(Range(f))
      /\ \A i, j \in DOMAIN f : IsRow(f[i]) /\ IsRow(f[j]) /\ f[i].id = f[j].id => i = j
  BY OqAssumption
<1>2. Len(f) \in Nat /\ DOMAIN f = 1 .. Len(f)
  BY <1>1, LenProperties
<1>3. Range(f) = Lines(f, DOMAIN f)
  BY DEF Range, Lines
<1>4. ASSUME NEW x \in Range(f), NEW y \in Range(f), IsRow(x), IsRow(y), x.id = y.id
      PROVE  x = y
  BY <1>1, <1>4 DEF Range
<1> QED BY <1>2, <1>3, <1>4

\* The one status of a question that has a row.
LEMMA StatusOfRow ==
    ASSUME NEW f \in Registries, NEW x \in Range(f), IsRow(x)
    PROVE  StatusOf(f, x.id) = {x.status}
BY RegistryIs DEF StatusOf

LEMMA DiffsSeeStatus ==
    ASSUME NEW old \in Registries, NEW new \in Registries, NEW diff \in Diffs(old, new)
    PROVE  /\ StatusChanges(diff) =
                {line.id : line \in {x \in Range(new) :
                   IsRow(x) /\ StatusOf(old, x.id) \notin {{}, StatusOf(new, x.id)}}}
           /\ diff.added \subseteq Range(new)
<1>1. PICK k1 \in SUBSET DOMAIN old, k2 \in SUBSET DOMAIN new :
          /\ diff = [removed |-> Lines(old, DOMAIN old \ k1), added |-> Lines(new, DOMAIN new \ k2)]
          /\ Picked(old, k1) = Picked(new, k2)
  BY DEF Diffs
<1>2. PICK M \in Nat, N \in Nat : DOMAIN old = 1 .. M /\ DOMAIN new = 1 .. N
  BY RegistryIs
<1>3. Lines(old, k1) = Lines(new, k2)
  <2>1. Range(Picked(old, k1)) = Lines(old, k1)
    BY <1>2, PickedLines
  <2>2. Range(Picked(new, k2)) = Lines(new, k2)
    BY <1>2, PickedLines
  <2> QED BY <1>1, <2>1, <2>2
<1>4. /\ diff.removed \subseteq Range(old) /\ diff.added \subseteq Range(new)
      /\ Range(old) = diff.removed \union Lines(old, k1)
      /\ Range(new) = diff.added \union Lines(old, k1)
  <2>1. Range(old) = Lines(old, DOMAIN old) /\ Range(new) = Lines(new, DOMAIN new)
    BY RegistryIs
  <2>2. diff.removed = Lines(old, DOMAIN old \ k1) /\ diff.added = Lines(new, DOMAIN new \ k2)
    BY <1>1
  <2>3. /\ Lines(old, DOMAIN old) = Lines(old, DOMAIN old \ k1) \union Lines(old, k1)
        /\ Lines(new, DOMAIN new) = Lines(new, DOMAIN new \ k2) \union Lines(new, k2)
    BY DEF Lines
  <2> QED BY <1>3, <2>1, <2>2, <2>3
<1>5. ASSUME NEW a \in diff.added, IsRow(a),
             NEW r \in diff.removed, IsRow(r), r.id = a.id, r.status # a.status
      PROVE  /\ a \in Range(new)
             /\ StatusOf(old, a.id) \notin {{}, StatusOf(new, a.id)}
  <2>1. a \in Range(new) /\ r \in Range(old)
    BY <1>4
  <2>2. StatusOf(new, a.id) = {a.status}
    BY <1>5, <2>1, StatusOfRow
  <2>3. StatusOf(old, r.id) = {r.status}
    BY <1>5, <2>1, StatusOfRow
  <2> QED BY <1>5, <2>1, <2>2, <2>3
<1>6. ASSUME NEW x \in Range(new), IsRow(x),
             StatusOf(old, x.id) \notin {{}, StatusOf(new, x.id)}
      PROVE  /\ x \in diff.added
             /\ \E r \in diff.removed : IsRow(r) /\ r.id = x.id /\ r.status # x.status
  <2>1. PICK r \in Range(old) : IsRow(r) /\ r.id = x.id
    BY <1>6 DEF StatusOf
  <2>2. StatusOf(new, x.id) = {x.status}
    BY <1>6, StatusOfRow
  <2>3. StatusOf(old, r.id) = {r.status}
    BY <2>1, StatusOfRow
  <2>4. r.status # x.status
    BY <1>6, <2>1, <2>2, <2>3
  <2>5. x \notin Lines(old, k1)
    <3>1. SUFFICES ASSUME x \in Range(old) PROVE FALSE
      BY <1>4
    <3>2. x = r
      BY <1>6, <2>1, <3>1, RegistryIs
    <3> QED BY <2>4, <3>2
  <2>6. r \notin Lines(old, k1)
    <3>1. SUFFICES ASSUME r \in Range(new) PROVE FALSE
      BY <1>4
    <3>2. x = r
      BY <1>6, <2>1, <3>1, RegistryIs
    <3> QED BY <2>4, <3>2
  <2> QED BY <1>4, <2>1, <2>4, <2>5, <2>6
<1> QED BY <1>4, <1>5, <1>6 DEF StatusChanges

\* What makes StatusChangesAreSeen inductive are the types.
OqInv == OqTypeOK /\ StatusChangesAreSeen

LEMMA OqHead ==
    ASSUME OqTypeOK
    PROVE  Compared[1] \in Registries /\ Compared[2] \in Registries
<1>1. /\ oqCommits \in Seq(Registries) /\ Len(oqCommits) \in Nat /\ Len(oqCommits) >= 1
      /\ oqTree \in Registries
  BY OqAssumption DEF OqTypeOK
<1>2. \A i \in 1 .. Len(oqCommits) : oqCommits[i] \in Registries
  BY <1>1, LenProperties
<1>3. Head0 \in Registries
  BY <1>1, <1>2 DEF Head0
<1>4. Len(oqCommits) > 1 => oqCommits[Len(oqCommits) - 1] \in Registries
  BY <1>1, <1>2
<1> QED BY <1>1, <1>3, <1>4 DEF Compared

LEMMA OqInvInit == OqInit => OqInv
<1> SUFFICES ASSUME OqInit PROVE OqInv
  OBVIOUS
<1>1. PICK f \in Registries : oqCommits = <<f>> /\ oqTree = f
  BY DEF OqInit
<1>2. oqCommits \in Seq(Registries) /\ Len(oqCommits) = 1
  BY <1>1
<1>3. oqCheck.done = FALSE
  BY DEF OqInit
<1>4. OqTypeOK
  <2>1. 1 \in 1 .. MaxCommits
    BY OqAssumption
  <2> QED BY <1>1, <1>2, <1>3, <2>1 DEF OqTypeOK
<1>5. StatusChangesAreSeen
  BY <1>3 DEF StatusChangesAreSeen
<1> QED BY <1>4, <1>5 DEF OqInv

LEMMA OqTypeStep == OqTypeOK /\ [OqNext]_oqVars => OqTypeOK'
<1> SUFFICES ASSUME OqTypeOK, [OqNext]_oqVars PROVE OqTypeOK'
  OBVIOUS
<1>1. CASE EditRegistry
  BY <1>1 DEF EditRegistry, OqTypeOK
<1>2. CASE CommitRegistry
  <2>1. /\ oqTree' = oqTree /\ oqCheck'.done = FALSE /\ Len(oqCommits) < MaxCommits
        /\ oqCommits' = Append(oqCommits, oqTree)
    BY <1>2 DEF CommitRegistry
  <2>2. oqCommits' \in Seq(Registries) /\ Len(oqCommits') = Len(oqCommits) + 1
    BY <2>1, AppendProperties DEF OqTypeOK
  <2>3. Len(oqCommits') \in 1 .. MaxCommits
    BY <2>1, <2>2, OqAssumption DEF OqTypeOK
  <2> QED BY <2>1, <2>2, <2>3 DEF OqTypeOK
<1>3. CASE CheckOq
  BY <1>3 DEF CheckOq, OqTypeOK
<1>4. CASE UNCHANGED oqVars
  BY <1>4 DEF OqTypeOK, oqVars
<1> QED BY <1>1, <1>2, <1>3, <1>4 DEF OqNext

LEMMA OqInvStep == OqInv /\ [OqNext]_oqVars => OqInv'
<1> SUFFICES ASSUME OqInv, [OqNext]_oqVars PROVE OqInv'
  OBVIOUS
<1>1. OqTypeOK /\ OqTypeOK'
  BY OqTypeStep DEF OqInv
<1>2. CASE EditRegistry \/ CommitRegistry
  <2>1. oqCheck'.done = FALSE
    BY <1>2 DEF EditRegistry, CommitRegistry
  <2> QED BY <1>1, <2>1 DEF OqInv, StatusChangesAreSeen
<1>3. CASE CheckOq
  <2>1. PICK old, new : old = Compared[1] /\ new = Compared[2]
    OBVIOUS
  <2>2. PICK diff \in Diffs(old, new) :
            oqCheck' = [done |-> TRUE, changes |-> StatusChanges(diff),
                        passed |-> \A id \in StatusChanges(diff) : HasEvidence(diff, id)]
    BY <1>3, <2>1 DEF CheckOq
  <2>3. Compared' = Compared
    BY <1>3 DEF CheckOq, Compared, Head0
  <2>4. old \in Registries /\ new \in Registries
    BY <1>1, <2>1, OqHead
  <2>5. /\ oqCheck'.done /\ oqCheck'.changes = StatusChanges(diff)
        /\ oqCheck'.passed = \A id \in StatusChanges(diff) : HasEvidence(diff, id)
    BY <2>2
  <2>6. /\ StatusChanges(diff) =
             {line.id : line \in {x \in Range(new) :
                IsRow(x) /\ StatusOf(old, x.id) \notin {{}, StatusOf(new, x.id)}}}
        /\ diff.added \subseteq Range(new)
    BY <2>4, DiffsSeeStatus
  <2>7. ASSUME oqCheck'.passed, NEW id \in StatusChanges(diff)
        PROVE  {Heading(id), Marker} \intersect Range(new) # {}
    BY <2>5, <2>6, <2>7 DEF HasEvidence
  <2> QED BY <1>1, <2>1, <2>3, <2>5, <2>6, <2>7 DEF OqInv, StatusChangesAreSeen
<1>4. CASE UNCHANGED oqVars
  BY <1>1, <1>4 DEF OqInv, StatusChangesAreSeen, Compared, Head0, oqVars
<1> QED BY <1>2, <1>3, <1>4 DEF OqNext

\* Whatever lines git keeps, the check finds the questions whose status has
\* changed, and passes them only with evidence (scripts/check_oq_updates.py).
THEOREM StatusChangesAlwaysSeen == OqSpec => []StatusChangesAreSeen
<1>1. OqSpec => []OqInv
  BY OqInvInit, OqInvStep, PTL DEF OqSpec
<1>2. OqInv => StatusChangesAreSeen
  BY DEF OqInv
<1> QED BY <1>1, <1>2, PTL

-----------------------------------------------------------------------------
(* The gates together *)

\* The parts share no state: the one that moves keeps its invariant.
THEOREM RepoInvariant == Spec => []RepoInv
<1>1. Init => RepoInv
  <2>1. OqInit => OqTypeOK
    BY OqInvInit DEF OqInv
  <2> QED BY <2>1, RepairInit, FeatureInvInit DEF Init, RepoInv
<1>2. RepoInv /\ [Next]_<<gate, syncVars, featureVars, oqVars>> => RepoInv'
  <2> SUFFICES ASSUME RepoInv, [Next]_<<gate, syncVars, featureVars, oqVars>>
               PROVE  RepoInv'
    OBVIOUS
  <2>1. gate' = gate /\ [SyncNext]_syncVars /\ [FeatureNext]_featureVars
        /\ (gate = "questions" => [OqNext]_oqVars)
    BY DEF Next
  <2>2. gate = "policy" => RepairInv'
    BY <2>1, RepairStep DEF RepoInv
  <2>3. gate = "feature" => FeatureInv'
    BY <2>1, FeatureInvStep DEF RepoInv
  <2>4. gate = "questions" => OqTypeOK'
    BY <2>1, OqTypeStep DEF RepoInv
  <2> QED BY <2>1, <2>2, <2>3, <2>4 DEF RepoInv
<1> QED BY <1>1, <1>2, PTL DEF Spec
=============================================================================
