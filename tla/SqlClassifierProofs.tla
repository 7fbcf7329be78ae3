------------------------ MODULE SqlClassifierProofs ------------------------
(***************************************************************************)
(* What classify_batch returns, for every batch of tokens                  *)
(* (scripts/db/sql_classification.py).                                     *)
(*                                                                         *)
(* The class of a statement, and of a batch, is the greatest of a set of   *)
(* classes: of the order of the statements, of their number and of where   *)
(* they were divided it depends only through that set.                     *)
(***************************************************************************)
EXTENDS SqlClassifier, SelectionProofs, FiniteSetTheorems

-----------------------------------------------------------------------------
(* The order of the classes *)

LEMMA ClassNames ==
    Classes = {"read", "mutation", "ddl", "procedure_exec", "unknown", "privileged"}
BY DEF Classes, Rank

LEMMA Ranks ==
    /\ Rank["read"] = 0 /\ Rank["mutation"] = 2 /\ Rank["ddl"] = 2
    /\ Rank["procedure_exec"] = 2 /\ Rank["unknown"] = 3 /\ Rank["privileged"] = 4
    /\ TieBreak["read"] = 0 /\ TieBreak["mutation"] = 0 /\ TieBreak["ddl"] = 1
    /\ TieBreak["procedure_exec"] = 2 /\ TieBreak["unknown"] = 0 /\ TieBreak["privileged"] = 0
BY DEF Rank, TieBreak

\* Rank and tie-break together put the classes in one order.
Order == [read |-> 0, mutation |-> 1, ddl |-> 2, procedure_exec |-> 3,
          unknown |-> 4, privileged |-> 5]

LEMMA Orders ==
    /\ Order["read"] = 0 /\ Order["mutation"] = 1 /\ Order["ddl"] = 2
    /\ Order["procedure_exec"] = 3 /\ Order["unknown"] = 4 /\ Order["privileged"] = 5
BY DEF Order

LEMMA SaferIsLater ==
    ASSUME NEW a \in Classes, NEW b \in Classes
    PROVE  /\ Safer(a, b) = IF Order[b] > Order[a] THEN b ELSE a
           /\ Safer(a, b) \in Classes
           /\ Order[a] \in 0 .. 5
           /\ Order[a] = Order[b] => a = b
<1>1. Order[a] \in 0 .. 5 /\ (Order[a] = Order[b] => a = b)
  BY ClassNames, Orders
<1>2. (\/ Rank[b] > Rank[a]
       \/ Rank[b] = Rank[a] /\ TieBreak[b] > TieBreak[a]) <=> Order[b] > Order[a]
  BY ClassNames, Ranks, Orders
<1> QED BY <1>1, <1>2 DEF Safer

\* In whichever order two classes are met, the same one is kept.
THEOREM SaferCommutes ==
    ASSUME NEW a \in Classes, NEW b \in Classes
    PROVE  Safer(a, b) = Safer(b, a)
<1>1. Safer(a, b) = IF Order[b] > Order[a] THEN b ELSE a
  BY SaferIsLater
<1>2. Safer(b, a) = IF Order[a] > Order[b] THEN a ELSE b
  BY SaferIsLater
<1>3. Order[a] \in 0 .. 5 /\ Order[b] \in 0 .. 5 /\ (Order[a] = Order[b] => a = b)
  BY SaferIsLater
<1> QED BY <1>1, <1>2, <1>3

\* Folding parts first gives the same class: joining two batches cannot hide
\* what either of them holds.
THEOREM SaferAssociates ==
    ASSUME NEW a \in Classes, NEW b \in Classes, NEW c \in Classes
    PROVE  Safer(Safer(a, b), c) = Safer(a, Safer(b, c))
<1> DEFINE later(x, y) == IF Order[y] > Order[x] THEN y ELSE x
<1>1. \A x, y \in Classes : Safer(x, y) = later(x, y) /\ later(x, y) \in Classes
  BY SaferIsLater
<1>2. \A x \in Classes : Order[x] \in 0 .. 5
  BY SaferIsLater
<1>3. later(later(a, b), c) = later(a, later(b, c))
  BY <1>2
<1> QED BY <1>1, <1>3

\* What is kept is as hazardous as both: no statement lowers the rank of a batch.
THEOREM SaferNeverLowers ==
    ASSUME NEW a \in Classes, NEW b \in Classes
    PROVE  /\ Rank[Safer(a, b)] >= Rank[a]
           /\ Rank[Safer(a, b)] >= Rank[b]
           /\ Safer(a, b) \in {a, b}
BY ClassNames, Ranks DEF Safer
-----------------------------------------------------------------------------
(* The greatest class *)

Greatest(C, w) == w \in C /\ \A c \in C : Order[c] <= Order[w]

LEMMA OneGreatest ==
    ASSUME NEW C \in SUBSET Classes, NEW v, NEW w, Greatest(C, v), Greatest(C, w)
    PROVE  v = w
<1>1. v \in Classes /\ w \in Classes /\ Order[v] <= Order[w] /\ Order[w] <= Order[v]
  BY DEF Greatest
<1>2. Order[v] \in 0 .. 5 /\ Order[w] \in 0 .. 5
  BY <1>1, SaferIsLater
<1>3. Order[v] = Order[w]
  BY <1>1, <1>2
<1> QED BY <1>1, <1>3, SaferIsLater

LEMMA GreatestOfMore ==
    ASSUME NEW C \in SUBSET Classes, NEW D \in SUBSET C, NEW v, NEW w,
           Greatest(D, v), Greatest(C, w)
    PROVE  Order[v] <= Order[w] /\ Rank[v] <= Rank[w]
<1>1. v \in Classes /\ w \in Classes /\ Order[v] <= Order[w]
  BY DEF Greatest
<1> QED BY <1>1, ClassNames, Ranks, Orders

\* The values worst[0], ..., worst[Len(s)] behind Worst(base, s).
WorstSteps(base, s, f) ==
    /\ f \in [0 .. Len(s) -> Classes]
    /\ f[0] = base
    /\ \A n \in 1 .. Len(s) : f[n] = Safer(f[n - 1], s[n])
    /\ Worst(base, s) = f[Len(s)]

LEMMA WorstUnfold ==
    ASSUME NEW base \in Classes, NEW s \in Seq(Classes)
    PROVE  \E f : WorstSteps(base, s, f)
<1> DEFINE value(f) == [n \in 0 .. Len(s) |-> IF n = 0 THEN base ELSE Safer(f[n - 1], s[n])]
           worst == CHOOSE f : f = value(f)
<1>1. Len(s) \in Nat /\ \A n \in 1 .. Len(s) : s[n] \in Classes
  BY LenProperties
<1>2. \A a \in Classes, n \in 1 .. Len(s) : Safer(a, s[n]) \in Classes
  BY <1>1, SaferIsLater
<1> HIDE DEF Classes
<1>3. PICK f \in [0 .. Len(s) -> Classes] :
          f[0] = base /\ \A n \in 1 .. Len(s) : f[n] = Safer(f[n - 1], s[n])
  <2>1. PICK step : step = [n \in 1 .. Len(s) |-> [a \in Classes |-> Safer(a, s[n])]]
    OBVIOUS
  <2>2. \A n \in 1 .. Len(s) : step[n] = [a \in Classes |-> Safer(a, s[n])]
    BY <2>1
  <2>3. step \in [1 .. Len(s) -> [Classes -> Classes]]
    BY <1>2, <2>1
  <2>4. PICK f : Recursive(Len(s), Classes, base, step, f)
    BY <1>1, <2>3, LeftRecursion
  <2>5. f \in [0 .. Len(s) -> Classes] /\ f[0] = base
    BY <2>4 DEF Recursive
  <2>6. ASSUME NEW n \in 1 .. Len(s)
        PROVE  f[n] = Safer(f[n - 1], s[n])
    <3>1. f[n - 1] \in Classes /\ f[n] = step[n][f[n - 1]]
      BY <1>1, <2>4 DEF Recursive
    <3> QED BY <2>2, <3>1
  <2> QED BY <2>5, <2>6
<1>4. f = value(f)
  BY <1>1, <1>3
<1>5. worst = value(worst)
  <2> HIDE DEF value
  <2> QED BY <1>4
<1>6. Worst(base, s) = worst[Len(s)]
  BY DEF Worst
<1> HIDE DEF worst
<1>7. worst[0] = base /\ \A n \in 1 .. Len(s) : worst[n] = Safer(worst[n - 1], s[n])
  BY <1>1, <1>5
<1>8. \A n \in 0 .. Len(s) : worst[n] = f[n]
  <2> DEFINE T == {n \in 0 .. Len(s) : worst[n] = f[n]}
  <2>1. 0 \in T
    BY <1>1, <1>3, <1>7
  <2>2. ASSUME NEW n \in 0 .. Len(s), n \in T, n < Len(s)
        PROVE  n + 1 \in T
    <3>1. n + 1 \in 1 .. Len(s) /\ n + 1 \in 0 .. Len(s) /\ (n + 1) - 1 = n
      BY <1>1, <2>2
    <3>2. worst[n + 1] = Safer(worst[n], s[n + 1]) /\ f[n + 1] = Safer(f[n], s[n + 1])
      BY <1>3, <1>7, <3>1
    <3> QED BY <2>2, <3>1, <3>2
  <2> HIDE DEF T
  <2>3. \A n \in 0 .. Len(s) : n \in T
    BY <1>1, <2>1, <2>2, BoundedInduction
  <2> QED BY <2>3 DEF T
<1>9. WorstSteps(base, s, f)
  BY <1>1, <1>3, <1>6, <1>8 DEF WorstSteps
<1> QED BY <1>9

\* What _safer_class makes of a list is the greatest of its classes.
LEMMA WorstIsGreatest ==
    ASSUME NEW base \in Classes, NEW s \in Seq(Classes)
    PROVE  Greatest({base} \union Range(s), Worst(base, s))
<1>1. PICK f : WorstSteps(base, s, f)
  BY WorstUnfold
<1>2. Len(s) \in Nat /\ DOMAIN s = 1 .. Len(s) /\ \A n \in 1 .. Len(s) : s[n] \in Classes
  BY LenProperties
<1> DEFINE Seen(n) == {base} \union {s[i] : i \in 1 .. n}
           T == {n \in 0 .. Len(s) : Greatest(Seen(n), f[n])}
<1>3. 0 \in T
  <2>1. f[0] = base /\ Seen(0) = {base}
    BY <1>1 DEF WorstSteps
  <2>2. Order[base] <= Order[base]
    BY SaferIsLater
  <2> HIDE DEF Seen
  <2> QED BY <1>2, <2>1, <2>2 DEF Greatest
<1>4. ASSUME NEW n \in 0 .. Len(s), n \in T, n < Len(s)
      PROVE  n + 1 \in T
  <2>1. n + 1 \in 1 .. Len(s) /\ n + 1 \in 0 .. Len(s) /\ (n + 1) - 1 = n
    BY <1>2, <1>4
  <2>2. PICK a, x, b : a = f[n] /\ x = s[n + 1] /\ b = f[n + 1]
    OBVIOUS
  <2>3. b = Safer(a, x) /\ a \in Classes /\ x \in Classes
    BY <1>1, <1>2, <2>1, <2>2 DEF WorstSteps
  <2>4. Seen(n + 1) = Seen(n) \union {x} /\ Seen(n) \subseteq Classes
    BY <1>2, <1>4, <2>2
  <2>5. Greatest(Seen(n), a)
    BY <1>4, <2>2
  <2> HIDE DEF Seen
  <2>6. /\ b = IF Order[x] > Order[a] THEN x ELSE a
        /\ Order[a] \in 0 .. 5 /\ Order[x] \in 0 .. 5
        /\ \A c \in Seen(n) : Order[c] \in 0 .. 5
    BY <2>3, <2>4, SaferIsLater
  <2>7. Greatest(Seen(n) \union {x}, b)
    BY <2>5, <2>6 DEF Greatest
  <2> QED BY <2>1, <2>2, <2>4, <2>7
<1> HIDE DEF T
<1>5. Len(s) \in T
  <2>1. \A n \in 0 .. Len(s) : n \in T
    BY <1>2, <1>3, <1>4, BoundedInduction
  <2> QED BY <1>2, <2>1
<1>6. Seen(Len(s)) = {base} \union Range(s)
  BY <1>2 DEF Range
<1>7. Greatest(Seen(Len(s)), f[Len(s)])
  <2> HIDE DEF Seen
  <2> QED BY <1>5 DEF T
<1>8. Worst(base, s) = f[Len(s)]
  BY <1>1 DEF WorstSteps
<1> QED BY <1>6, <1>7, <1>8

-----------------------------------------------------------------------------
(* The class of a statement *)

LEMMA VerbClassType ==
    ASSUME NEW s, NEW i
    PROVE  VerbClass(s, i) \in Classes \ {"read"}
<1>1. PICK x : x = s[i]
  OBVIOUS
<1>2. CopyClass(s, i) \in {"privileged", "mutation"}
  BY DEF CopyClass
<1>3. CASE IsVerb(s, i)
  <2>1. \/ x \in Mutations \union {"BULK"}
        \/ x \in Definitions \union {"TRUNCATE", "RENAME"}
        \/ x = "COMMENT" \/ x = "COPY"
        \/ x \in Administration \/ x \in Executions \/ x \in UnknownStarts
    BY <1>1, <1>3 DEF IsVerb
  <2>2. VerbClass(s, i) \in {"mutation", "privileged", "ddl", "procedure_exec", "unknown"}
    BY <1>1, <1>2, <1>3, <2>1
       DEF VerbClass, Mutations, Definitions, Administration, Executions, UnknownStarts
  <2> QED BY <2>2, ClassNames
<1>4. CASE ~IsVerb(s, i)
  BY <1>4, ClassNames DEF VerbClass
<1> QED BY <1>3, <1>4

LEMMA DangerType ==
    ASSUME NEW s, NEW i
    PROVE  DangerAt(s, i) \in Classes
<1>1. PICK x : x = s[i]
  OBVIOUS
<1>2. \/ x = "INTO" \/ x \in {"TRUNCATE", "RENAME"} \/ x \in UnknownStarts
      \/ x \notin {"INTO", "TRUNCATE", "RENAME"} \union UnknownStarts
  OBVIOUS
<1>3. VerbClass(s, i) \in Classes
  BY VerbClassType
<1> QED BY <1>1, <1>2, <1>3, ClassNames DEF DangerAt, UnknownStarts

LEMMA FirstType ==
    ASSUME NEW s
    PROVE  FirstClass(s) \in Classes
<1>1. VerbClass(s, 1) \in Classes /\ VerbClass(s, CteFinal(s)) \in Classes
  BY VerbClassType
<1>2. SelectClass(s) \in Classes
  BY ClassNames DEF SelectClass
<1>3. FinalClass(s, CteFinal(s)) \in Classes
  BY <1>1, <1>2, ClassNames DEF FinalClass
<1> QED BY <1>1, <1>2, <1>3, ClassNames DEF FirstClass

LEMMA DangersAre ==
    ASSUME NEW S, NEW s \in Seq(S)
    PROVE  /\ Dangers(s) \in Seq(Classes)
           /\ Range(Dangers(s)) = {DangerAt(s, i) : i \in 1 .. Len(s)}
<1>1. Len(s) \in Nat /\ DOMAIN s = 1 .. Len(s)
  BY LenProperties
<1>2. \A i \in 1 .. Len(s) : DangerAt(s, i) \in Classes
  BY DangerType
<1>3. Dangers(s) = [i \in 1 .. Len(s) |-> DangerAt(s, i)]
  BY <1>1 DEF Dangers
<1>4. Dangers(s) \in Seq(Classes)
  BY <1>1, <1>2, <1>3, SeqDef
<1>5. Range(Dangers(s)) = {DangerAt(s, i) : i \in 1 .. Len(s)}
  BY <1>3 DEF Range
<1> QED BY <1>4, <1>5

\* the classes that the words of a statement have
ClassesIn(s) == {FirstClass(s)} \union {DangerAt(s, i) : i \in 1 .. Len(s)}

LEMMA StatementIsGreatest ==
    ASSUME NEW S, NEW s \in Seq(S), s # <<>>
    PROVE  ClassesIn(s) \in SUBSET Classes /\ Greatest(ClassesIn(s), StatementClass(s))
<1>1. /\ Dangers(s) \in Seq(Classes)
      /\ Range(Dangers(s)) = {DangerAt(s, i) : i \in 1 .. Len(s)}
  BY DangersAre
<1>2. FirstClass(s) \in Classes
  BY FirstType
<1>3. Greatest({FirstClass(s)} \union Range(Dangers(s)), Worst(FirstClass(s), Dangers(s)))
  BY <1>1, <1>2, WorstIsGreatest
<1>4. StatementClass(s) = Worst(FirstClass(s), Dangers(s))
  BY DEF StatementClass
<1>5. ClassesIn(s) \in SUBSET Classes
  BY <1>2, DangerType DEF ClassesIn
<1> QED BY <1>1, <1>3, <1>4, <1>5 DEF ClassesIn

LEMMA StatementType ==
    ASSUME NEW S, NEW s \in Seq(S)
    PROVE  StatementClass(s) \in Classes
<1>1. CASE s = <<>>
  BY <1>1, ClassNames DEF StatementClass
<1>2. CASE s # <<>>
  BY <1>2, StatementIsGreatest DEF Greatest
<1> QED BY <1>1, <1>2

-----------------------------------------------------------------------------
(* The class of a list of statements *)

\* what is passed over among the statements of R
PassedOver(t, R) ==
    /\ IsTransactionControl(t)
    /\ StatementClass(t) = "unknown"
    /\ \E u \in R : ~IsTransactionControl(u) /\ Rank[StatementClass(u)] >= Rank["mutation"]

\* the classes that count among the statements of R
Counted(R) == {"read"} \union {StatementClass(t) : t \in {u \in R : ~PassedOver(u, R)}}

LEMMA ClassIsGreatest ==
    ASSUME NEW S, NEW statements \in Seq(Seq(S))
    PROVE  /\ Counted(Range(statements)) \in SUBSET Classes
           /\ Greatest(Counted(Range(statements)), ClassOfStatements(statements))
<1> DEFINE R == Range(statements)
           wanted == {t \in R : ~Ignored(t, statements)}
           counted == Only(statements, wanted)
           classes == [i \in DOMAIN counted |-> StatementClass(counted[i])]
<1>1. \A t : Ignored(t, statements) <=> PassedOver(t, R)
  BY DEF Ignored, PassedOver, Range
<1>2. counted \in Seq(Seq(S)) /\ Range(counted) = R \intersect wanted
  <2> HIDE DEF wanted
  <2> QED BY OnlyType, OnlyRange
<1>3. wanted = {u \in R : ~PassedOver(u, R)}
  BY <1>1
<1>4. ClassOfStatements(statements) = Worst("read", classes)
  BY DEF ClassOfStatements
<1>5. Range(counted) = {u \in R : ~PassedOver(u, R)}
  BY <1>2, <1>3
<1> HIDE DEF counted, R
<1>6. Len(counted) \in Nat /\ DOMAIN counted = 1 .. Len(counted)
      /\ \A i \in 1 .. Len(counted) : counted[i] \in Seq(S)
  BY <1>2, LenProperties
<1>7. \A i \in 1 .. Len(counted) : StatementClass(counted[i]) \in Classes
  BY <1>6, StatementType
<1>8. classes \in Seq(Classes)
  BY <1>6, <1>7, SeqDef
<1>9. Range(classes) = {StatementClass(t) : t \in Range(counted)}
  BY DEF Range
<1>10. {"read"} \union Range(classes) = Counted(R)
  BY <1>5, <1>9 DEF Counted
<1>11. Range(classes) \subseteq Classes /\ "read" \in Classes
  BY <1>6, <1>7, ClassNames DEF Range
<1>12. Greatest({"read"} \union Range(classes), Worst("read", classes))
  <2> HIDE DEF classes
  <2> QED BY <1>8, <1>11, WorstIsGreatest
<1> HIDE DEF classes
<1> QED BY <1>4, <1>10, <1>11, <1>12 DEF R
-----------------------------------------------------------------------------
(* The statements of a batch *)

\* where a statement ends or one begins behind
Ends(s) == Cuts(s) \union {0, Len(s) + 1}

Neighbours(s, a, b) ==
    /\ a \in Ends(s) /\ b \in Ends(s) /\ a < b
    /\ \A c \in Ends(s) : ~(a < c /\ c < b)

IsStatement(s, t) ==
    t # <<>> /\ \E a, b \in Ends(s) : Neighbours(s, a, b) /\ t = SubSeq(s, a + 1, b - 1)

LEMMA EndsAre ==
    ASSUME NEW S, NEW s \in Seq(S)
    PROVE  /\ Len(s) \in Nat /\ DOMAIN s = 1 .. Len(s)
           /\ Cuts(s) \subseteq 1 .. Len(s)
           /\ Ends(s) \subseteq 0 .. Len(s) + 1
           /\ 0 \in Ends(s) /\ Len(s) + 1 \in Ends(s)
<1>1. Len(s) \in Nat /\ DOMAIN s = 1 .. Len(s)
  BY LenProperties
<1>2. Cuts(s) \subseteq 1 .. Len(s)
  BY <1>1 DEF Cuts
<1> QED BY <1>1, <1>2 DEF Ends

\* The list of the ends of s, in their order.
EndList(s, cuts) ==
    /\ cuts \in Seq(Nat) /\ Increasing(cuts) /\ Range(cuts) = Ends(s)
    /\ Len(cuts) \in Nat /\ DOMAIN cuts = 1 .. Len(cuts)

LEMMA EndListIs ==
    ASSUME NEW S, NEW s \in Seq(S), NEW cuts,
           cuts = Only([i \in 1 .. Len(s) + 2 |-> i - 1], Ends(s))
    PROVE  EndList(s, cuts)
<1>1. Len(s) \in Nat /\ Ends(s) \subseteq 0 .. Len(s) + 1
  BY EndsAre
<1>2. PICK places : places = [i \in 1 .. Len(s) + 2 |-> i - 1]
  OBVIOUS
<1>3. places \in Seq(Nat) /\ Len(places) = Len(s) + 2
  <2>1. Len(s) + 2 \in Nat /\ \A i \in 1 .. Len(s) + 2 : i - 1 \in Nat
    BY <1>1
  <2>2. places \in [1 .. Len(s) + 2 -> Nat]
    BY <1>2, <2>1
  <2> QED BY <2>1, <2>2, SeqDef, LenProperties
<1>4. Increasing(places)
  BY <1>1, <1>2, <1>3 DEF Increasing
<1>5. Range(places) = 0 .. Len(s) + 1
  <2>1. Range(places) = {i - 1 : i \in 1 .. Len(s) + 2}
    BY <1>2 DEF Range
  <2>2. \A k \in 0 .. Len(s) + 1 : k + 1 \in 1 .. Len(s) + 2 /\ (k + 1) - 1 = k
    BY <1>1
  <2>3. \A i \in 1 .. Len(s) + 2 : i - 1 \in 0 .. Len(s) + 1
    BY <1>1
  <2> QED BY <2>1, <2>2, <2>3
<1>6. cuts = Only(places, Ends(s))
  BY <1>2
<1>7. cuts \in Seq(Nat) /\ Range(cuts) = Range(places) \intersect Ends(s)
  <2>1. PICK ends : ends = Ends(s)
    OBVIOUS
  <2>2. Only(places, ends) \in Seq(Nat)
    BY <1>3, OnlyType
  <2>3. Range(Only(places, ends)) = Range(places) \intersect ends
    BY <1>3, OnlyRange
  <2> QED BY <1>6, <2>1, <2>2, <2>3
<1>8. Increasing(cuts)
  BY <1>3, <1>4, <1>6, OnlyIncreasing
<1> QED BY <1>1, <1>5, <1>7, <1>8, LenProperties DEF EndList

LEMMA NextInListIsNeighbour ==
    ASSUME NEW S, NEW s \in Seq(S), NEW cuts, EndList(s, cuts),
           NEW k \in 1 .. Len(cuts) - 1
    PROVE  Neighbours(s, cuts[k], cuts[k + 1])
<1>1. /\ \A i \in 1 .. Len(cuts) : cuts[i] \in Ends(s) /\ cuts[i] \in Nat
      /\ Len(cuts) \in Nat /\ Increasing(cuts)
  BY LenProperties DEF EndList, Range
<1>2. k \in 1 .. Len(cuts) /\ k + 1 \in 1 .. Len(cuts) /\ k < k + 1
  BY <1>1
<1>3. cuts[k] < cuts[k + 1]
  BY <1>1, <1>2 DEF Increasing
<1>4. ASSUME NEW c \in Ends(s), cuts[k] < c, c < cuts[k + 1]
      PROVE  FALSE
  <2>1. PICK j \in 1 .. Len(cuts) : cuts[j] = c
    BY DEF EndList, Range
  <2>2. j <= k \/ j >= k + 1
    BY <1>2
  <2>3. CASE j <= k
    <3>1. cuts[j] < cuts[k] \/ j = k
      BY <1>1, <1>2, <2>3 DEF Increasing
    <3> QED BY <1>1, <1>2, <1>4, <2>1, <3>1
  <2>4. CASE j >= k + 1
    <3>1. cuts[k + 1] < cuts[j] \/ j = k + 1
      BY <1>1, <1>2, <2>4 DEF Increasing
    <3> QED BY <1>1, <1>2, <1>4, <2>1, <3>1
  <2> QED BY <2>2, <2>3, <2>4
<1> QED BY <1>1, <1>2, <1>3, <1>4 DEF Neighbours

LEMMA NeighboursAreNextInList ==
    ASSUME NEW S, NEW s \in Seq(S), NEW cuts, EndList(s, cuts),
           NEW a, NEW b, Neighbours(s, a, b)
    PROVE  \E k \in 1 .. Len(cuts) - 1 : a = cuts[k] /\ b = cuts[k + 1]
<1>1. /\ \A i \in 1 .. Len(cuts) : cuts[i] \in Ends(s) /\ cuts[i] \in Nat
      /\ Len(cuts) \in Nat /\ Increasing(cuts)
  BY LenProperties DEF EndList, Range
<1>2. PICK p \in 1 .. Len(cuts), q \in 1 .. Len(cuts) : a = cuts[p] /\ b = cuts[q]
  BY DEF EndList, Range, Neighbours
<1>3. a < b
  BY DEF Neighbours
<1>4. p < q
  <2>1. SUFFICES ASSUME q <= p PROVE FALSE
    BY <1>1
  <2>2. q = p \/ cuts[q] < cuts[p]
    BY <1>1, <2>1 DEF Increasing
  <2> QED BY <1>1, <1>2, <1>3, <2>2
<1>5. p + 1 \in 1 .. Len(cuts)
  BY <1>1, <1>4
<1>6. p + 1 = q
  <2>1. SUFFICES ASSUME p + 1 < q PROVE FALSE
    BY <1>1, <1>4
  <2>2. cuts[p] < cuts[p + 1] /\ cuts[p + 1] < cuts[q]
    BY <1>1, <1>5, <2>1 DEF Increasing
  <2>3. cuts[p + 1] \in Ends(s)
    BY <1>1, <1>5
  <2> QED BY <1>2, <2>2, <2>3 DEF Neighbours
<1> QED BY <1>1, <1>2, <1>4, <1>6

\* The list Statements(s) holds what lies between neighbouring ends.
LEMMA StatementsAre ==
    ASSUME NEW S, NEW s \in Seq(S)
    PROVE  /\ Statements(s) \in Seq(Seq(S))
           /\ \A t \in Range(Statements(s)) : IsStatement(s, t)
           /\ \A t : IsStatement(s, t) => t \in Range(Statements(s))
<1>1. PICK cuts : cuts = Only([i \in 1 .. Len(s) + 2 |-> i - 1], Ends(s))
  OBVIOUS
<1>2. EndList(s, cuts)
  BY <1>1, EndListIs
<1>3. PICK between : between = [i \in 1 .. Len(cuts) - 1 |-> SubSeq(s, cuts[i] + 1, cuts[i + 1] - 1)]
  OBVIOUS
<1>4. Statements(s) = Only(between, Range(between) \ {<<>>})
  BY <1>1, <1>3 DEF Statements, Ends
<1>5. /\ Len(s) \in Nat /\ Ends(s) \subseteq 0 .. Len(s) + 1 /\ 0 \in Ends(s)
      /\ \A i \in 1 .. Len(s) : s[i] \in S
  BY EndsAre, LenProperties
<1>6. Len(cuts) \in Nat /\ Len(cuts) >= 1 /\ \A i \in 1 .. Len(cuts) : cuts[i] \in Ends(s)
  BY <1>2, <1>5 DEF EndList, Range
<1>7. \A a, b \in Ends(s) : SubSeq(s, a + 1, b - 1) \in Seq(S)
  <2>1. SUFFICES ASSUME NEW a \in Ends(s), NEW b \in Ends(s)
                 PROVE  SubSeq(s, a + 1, b - 1) \in Seq(S)
    OBVIOUS
  <2>2. /\ a + 1 \in Int /\ b - 1 \in Int
        /\ \A i \in a + 1 .. b - 1 : s[i] \in S
    BY <1>5
  <2> QED BY <2>2, SubSeqProperties
<1>8. between \in Seq(Seq(S)) /\ DOMAIN between = 1 .. Len(cuts) - 1
  <2>1. Len(cuts) - 1 \in Nat /\ \A i \in 1 .. Len(cuts) - 1 : i \in 1 .. Len(cuts) /\ i + 1 \in 1 .. Len(cuts)
    BY <1>6
  <2>2. \A i \in 1 .. Len(cuts) - 1 : SubSeq(s, cuts[i] + 1, cuts[i + 1] - 1) \in Seq(S)
    BY <1>6, <1>7, <2>1
  <2>3. between \in [1 .. Len(cuts) - 1 -> Seq(S)]
    BY <1>3, <2>2
  <2> QED BY <2>1, <2>3, SeqDef
<1>9. Statements(s) \in Seq(Seq(S)) /\ Range(Statements(s)) = Range(between) \ {<<>>}
  <2>1. PICK wanted : wanted = Range(between) \ {<<>>}
    OBVIOUS
  <2>2. Only(between, wanted) \in Seq(Seq(S))
    BY <1>8, OnlyType
  <2>3. Range(Only(between, wanted)) = Range(between) \intersect wanted
    BY <1>8, OnlyRange
  <2> QED BY <1>4, <2>1, <2>2, <2>3
<1>10. ASSUME NEW t \in Range(Statements(s))
       PROVE  IsStatement(s, t)
  <2>1. t # <<>> /\ t \in Range(between)
    BY <1>9
  <2>2. PICK k \in 1 .. Len(cuts) - 1 : t = between[k]
    BY <1>8, <2>1 DEF Range
  <2>3. t = SubSeq(s, cuts[k] + 1, cuts[k + 1] - 1)
    BY <1>3, <2>2
  <2>4. PICK a, b : a = cuts[k] /\ b = cuts[k + 1]
    OBVIOUS
  <2>5. Neighbours(s, a, b)
    BY <1>2, <2>4, NextInListIsNeighbour
  <2>6. t = SubSeq(s, a + 1, b - 1) /\ a \in Ends(s) /\ b \in Ends(s)
    BY <2>3, <2>4, <2>5 DEF Neighbours
  <2> QED BY <2>1, <2>5, <2>6 DEF IsStatement
<1>11. ASSUME NEW t, IsStatement(s, t)
       PROVE  t \in Range(Statements(s))
  <2>1. PICK a \in Ends(s), b \in Ends(s) : Neighbours(s, a, b) /\ t = SubSeq(s, a + 1, b - 1)
    BY <1>11 DEF IsStatement
  <2>2. PICK k \in 1 .. Len(cuts) - 1 : a = cuts[k] /\ b = cuts[k + 1]
    BY <1>2, <2>1, NeighboursAreNextInList
  <2>3. t = between[k]
    BY <1>3, <2>1, <2>2
  <2>4. t \in Range(between)
    BY <1>8, <2>3 DEF Range
  <2>5. t # <<>>
    BY <1>11 DEF IsStatement
  <2> QED BY <1>9, <2>4, <2>5
<1> QED BY <1>9, <1>10, <1>11

-----------------------------------------------------------------------------
(* Reading a batch *)

\* the tokens that are written
Written == UNION {Range(phrase) : phrase \in Phrases}

TokensType == tokens \in Seq(Written) /\ torn \in BOOLEAN

LEMMA TokensAlwaysTyped == Spec => []TokensType
<1>1. Init => TokensType
  BY EmptySeq DEF Init, TokensType
<1>2. TokensType /\ [Next]_vars => TokensType'
  <2> SUFFICES ASSUME TokensType, [Next]_vars PROVE TokensType'
    OBVIOUS
  <2>1. ASSUME NEW phrase \in Phrases, Write(phrase) PROVE TokensType'
    <3>1. phrase \in Seq(Written)
      BY TokenAssumption DEF Written
    <3>2. tokens \o phrase \in Seq(Written)
      BY <3>1, ConcatProperties DEF TokensType
    <3> QED BY <2>1, <3>2 DEF TokensType, Write
  <2>2. CASE Tear
    BY <2>2 DEF TokensType, Tear
  <2>3. CASE UNCHANGED vars
    BY <2>3 DEF TokensType, vars
  <2> QED BY <2>1, <2>2, <2>3 DEF Next
<1> QED BY <1>1, <1>2, PTL DEF Spec

LEMMA ReverseIs ==
    ASSUME NEW S, NEW s \in Seq(S)
    PROVE  Reverse(s) \in Seq(S) /\ Range(Reverse(s)) = Range(s)
<1>1. Len(s) \in Nat /\ DOMAIN s = 1 .. Len(s) /\ \A i \in 1 .. Len(s) : s[i] \in S
  BY LenProperties
<1>2. PICK r : r = Reverse(s)
  OBVIOUS
<1>3. r = [i \in 1 .. Len(s) |-> s[(Len(s) - i) + 1]]
  BY <1>2 DEF Reverse
<1>4. \A i \in 1 .. Len(s) : (Len(s) - i) + 1 \in 1 .. Len(s) /\ (Len(s) - ((Len(s) - i) + 1)) + 1 = i
  BY <1>1
<1>5. r \in [1 .. Len(s) -> S]
  BY <1>1, <1>3, <1>4
<1>6. r \in Seq(S)
  BY <1>1, <1>5, SeqDef
<1>7. Range(r) \subseteq Range(s)
  BY <1>1, <1>3, <1>4 DEF Range
<1>8. Range(s) \subseteq Range(r)
  <2>1. SUFFICES ASSUME NEW i \in 1 .. Len(s)
                 PROVE  s[i] \in Range(r)
    BY <1>1 DEF Range
  <2>2. PICK j : j = (Len(s) - i) + 1
    OBVIOUS
  <2>3. j \in 1 .. Len(s) /\ r[j] = s[i]
    BY <1>3, <1>4, <2>2
  <2> QED BY <1>3, <2>3 DEF Range
<1> QED BY <1>2, <1>6, <1>7, <1>8

\* The class of a list of statements is that of the set of them.
LEMMA ClassOfTheSet ==
    ASSUME NEW S, NEW a \in Seq(Seq(S)), NEW b \in Seq(Seq(S)), Range(a) = Range(b)
    PROVE  ClassOfStatements(a) = ClassOfStatements(b)
BY ClassIsGreatest, OneGreatest

\* "Statement ordering must not change authorization"
\* (docs/12-db-execution-safety-contract.md): the statements of a batch give
\* it the same class in the reverse order, whatever they are.
THEOREM OrderNeverMatters == Spec => []OrderDoesNotMatter
<1>1. TokensType => OrderDoesNotMatter
  <2> SUFFICES ASSUME TokensType
               PROVE  ClassOfStatements(Reverse(Statements(tokens))) = ClassOfStatements(Statements(tokens))
    BY DEF OrderDoesNotMatter
  <2>1. PICK st : st = Statements(tokens)
    OBVIOUS
  <2>2. st \in Seq(Seq(Written))
    BY <2>1, StatementsAre DEF TokensType
  <2>3. Reverse(st) \in Seq(Seq(Written)) /\ Range(Reverse(st)) = Range(st)
    BY <2>2, ReverseIs
  <2> QED BY <2>1, <2>2, <2>3, ClassOfTheSet
<1> QED BY <1>1, TokensAlwaysTyped, PTL
-----------------------------------------------------------------------------
(* What a read is *)

\* A token that is no cut lies in a statement.
LEMMA EveryTokenIsInAStatement ==
    ASSUME NEW S, NEW s \in Seq(S), NEW i \in 1 .. Len(s), i \notin Cuts(s)
    PROVE  \E t : IsStatement(s, t) /\ \E k \in 1 .. Len(t) : t[k] = s[i]
<1>1. /\ Len(s) \in Nat /\ Ends(s) \subseteq 0 .. Len(s) + 1
      /\ 0 \in Ends(s) /\ Len(s) + 1 \in Ends(s) /\ i \notin Ends(s)
      /\ \A j \in 1 .. Len(s) : s[j] \in S
  BY EndsAre, LenProperties DEF Ends
<1> DEFINE last(n, a) == a <= n /\ \A c \in Ends(s) : ~(a < c /\ c <= n)
           T == {n \in 0 .. Len(s) : \E a \in Ends(s) : last(n, a)}
<1>2. 0 \in T
  BY <1>1
<1>3. ASSUME NEW n \in 0 .. Len(s), n \in T, n < Len(s)
      PROVE  n + 1 \in T
  <2>1. PICK a \in Ends(s) : last(n, a)
    BY <1>3
  <2>2. CASE n + 1 \in Ends(s)
    BY <1>1, <1>3, <2>2
  <2>3. CASE n + 1 \notin Ends(s)
    BY <1>1, <1>3, <2>1, <2>3
  <2> QED BY <2>2, <2>3
<1> HIDE DEF T
<1>4. i - 1 \in T
  <2>1. \A n \in 0 .. Len(s) : n \in T
    BY <1>1, <1>2, <1>3, BoundedInduction
  <2> QED BY <1>1, <2>1
<1>5. PICK a \in Ends(s) : last(i - 1, a)
  BY <1>4 DEF T
<1> DEFINE B == {e \in Ends(s) : e > i}
<1>6. B \subseteq Nat /\ B # {}
  BY <1>1
<1>7. PICK b : b \in B /\ \A e \in B : b <= e
  <2> HIDE DEF B
  <2> QED BY <1>6, MinIsLeast
<1>8. Neighbours(s, a, b)
  BY <1>1, <1>5, <1>7 DEF Neighbours
<1>9. PICK t : t = SubSeq(s, a + 1, b - 1)
  OBVIOUS
<1>10. a + 1 \in 1 .. Len(s) /\ b - 1 \in 1 .. Len(s) /\ a + 1 <= i /\ i <= b - 1
       /\ i - a \in Nat
  BY <1>1, <1>5, <1>7
<1>11. Len(t) = ((b - 1) - (a + 1)) + 1 /\ \A k \in 1 .. Len(t) : t[k] = s[(a + 1) + k - 1]
  <2>1. PICK m, n : m = a + 1 /\ n = b - 1
    OBVIOUS
  <2>2. m \in Int /\ n \in Int /\ m <= n + 1 /\ \A j \in m .. n : s[j] \in S
    BY <1>1, <1>10, <2>1
  <2>3. t = SubSeq(s, m, n)
    BY <1>9, <2>1
  <2>4. Len(t) = (n - m) + 1 /\ \A k \in 1 .. (n - m) + 1 : t[k] = s[m + k - 1]
    BY <2>2, <2>3, SubSeqProperties
  <2> QED BY <2>1, <2>4
<1>12. i - a \in 1 .. Len(t) /\ (a + 1) + (i - a) - 1 = i
  <2>1. a \in Nat /\ b \in Nat /\ i \in Nat
    BY <1>1, <1>7
  <2>2. a < i /\ i < b
    BY <1>10, <2>1
  <2>3. Len(t) = (b - a) - 1
    BY <1>11, <2>1
  <2> QED BY <2>1, <2>2, <2>3
<1>13. t[i - a] = s[i]
  BY <1>11, <1>12
<1>14. t # <<>>
  BY <1>12
<1>15. a \in Ends(s) /\ b \in Ends(s)
  BY <1>8 DEF Neighbours
<1>16. IsStatement(s, t)
  BY <1>8, <1>9, <1>14, <1>15 DEF IsStatement
<1> QED BY <1>12, <1>13, <1>16

LEMMA OnlyReadIsLeast ==
    ASSUME NEW C \in SUBSET Classes, Greatest(C, "read")
    PROVE  \A c \in C : c = "read"
<1>1. SUFFICES ASSUME NEW c \in C PROVE c = "read"
  OBVIOUS
<1>2. c \in Classes /\ Order[c] <= Order["read"]
  BY DEF Greatest
<1> QED BY <1>2, ClassNames, Orders

\* If the class of a list is read, all its statements are read.
LEMMA ReadsAreRead ==
    ASSUME NEW S, NEW st \in Seq(Seq(S)), ClassOfStatements(st) = "read"
    PROVE  \A t \in Range(st) : StatementClass(t) = "read"
<1>1. PICK R : R = Range(st)
  OBVIOUS
<1>2. \A c \in Counted(R) : c = "read"
  BY <1>1, ClassIsGreatest, OnlyReadIsLeast
<1>3. \A u \in R : ~PassedOver(u, R) => StatementClass(u) = "read"
  BY <1>2 DEF Counted
<1>4. ASSUME NEW t \in R, PassedOver(t, R)
      PROVE  FALSE
  <2>1. PICK u \in R : ~IsTransactionControl(u) /\ Rank[StatementClass(u)] >= Rank["mutation"]
    BY <1>4 DEF PassedOver
  <2>2. StatementClass(u) = "read"
    BY <1>3, <2>1 DEF PassedOver
  <2> QED BY <2>1, <2>2, Ranks
<1> QED BY <1>1, <1>3, <1>4

LEMMA ReadStatement ==
    ASSUME NEW S, NEW t \in Seq(S), t # <<>>, StatementClass(t) = "read"
    PROVE  /\ t[1] \in {"SELECT", "WITH"}
           /\ \A k \in 1 .. Len(t) : t[k] \notin Dangerous
<1>1. \A c \in ClassesIn(t) : c = "read"
  BY StatementIsGreatest, OnlyReadIsLeast
<1>2. FirstClass(t) = "read" /\ \A k \in 1 .. Len(t) : DangerAt(t, k) = "read"
  BY <1>1 DEF ClassesIn
<1>3. t[1] \in {"SELECT", "WITH"}
  <2>1. VerbClass(t, 1) # "read"
    BY VerbClassType
  <2> QED BY <1>2, <2>1 DEF FirstClass
<1>4. ASSUME NEW k \in 1 .. Len(t), t[k] \in Dangerous
      PROVE  FALSE
  <2>1. DangerAt(t, k) = "read" /\ VerbClass(t, k) # "read"
    BY <1>2, VerbClassType
  <2>2. PICK x : x = t[k]
    OBVIOUS
  <2>3. \/ x = "INTO" \/ x \in {"TRUNCATE", "RENAME"}
        \/ x \in Mutations \union Definitions \union Executions \union Administration \union {"COPY"}
    BY <1>4, <2>2 DEF Dangerous
  <2>4. CASE x = "INTO"
    BY <2>1, <2>2, <2>4 DEF DangerAt, UnknownStarts
  <2>5. CASE x \in {"TRUNCATE", "RENAME"}
    BY <2>1, <2>2, <2>5 DEF DangerAt, UnknownStarts
  <2>6. CASE x \in Mutations \union Definitions \union Executions \union Administration \union {"COPY"}
    <3>1. x \notin {"INTO", "TRUNCATE", "RENAME"} \union UnknownStarts
      BY <2>6 DEF Mutations, Definitions, Executions, Administration, UnknownStarts
    <3>2. IsVerb(t, k)
      BY <2>2, <2>6 DEF IsVerb
    <3> QED BY <2>1, <2>2, <3>1, <3>2 DEF DangerAt, UnknownStarts
  <2> QED BY <2>3, <2>4, <2>5, <2>6
<1> QED BY <1>3, <1>4

\* What the guard lets through as a read is whole, starts each of its
\* statements with SELECT or WITH and holds no dangerous word (the table of
\* operation classes in docs/12-db-execution-safety-contract.md), for every
\* batch.
THEOREM ReadIsAlwaysPure == Spec => []ReadIsPure
<1>1. TokensType => ReadIsPure
  <2> SUFFICES ASSUME TokensType, BatchClass(tokens, torn) = "read"
               PROVE  /\ ~torn /\ Balanced(tokens) /\ tokens # <<>>
                      /\ \A i \in DOMAIN tokens : tokens[i] \notin Dangerous
                      /\ \A i \in DOMAIN Statements(tokens) :
                            Statements(tokens)[i][1] \in {"SELECT", "WITH"}
    BY DEF ReadIsPure
  <2>1. PICK s : s = tokens
    OBVIOUS
  <2>2. PICK st : st = Statements(s)
    OBVIOUS
  <2>3. s \in Seq(Written) /\ st \in Seq(Seq(Written))
    BY <2>1, <2>2, StatementsAre DEF TokensType
  <2>4. ~torn /\ Balanced(s) /\ st # <<>> /\ ClassOfStatements(st) = "read"
    BY <2>1, <2>2 DEF BatchClass
  <2>5. ASSUME NEW t \in Range(st)
        PROVE  /\ t \in Seq(Written) /\ IsStatement(s, t) /\ t[1] \in {"SELECT", "WITH"}
               /\ \A k \in 1 .. Len(t) : t[k] \notin Dangerous
    <3>1. IsStatement(s, t) /\ StatementClass(t) = "read"
      BY <2>2, <2>3, <2>4, StatementsAre, ReadsAreRead
    <3>2. t \in Seq(Written)
      BY <2>3, LenProperties DEF Range
    <3>3. t # <<>>
      BY <3>1 DEF IsStatement
    <3> QED BY <3>1, <3>2, <3>3, ReadStatement
  <2>6. ASSUME NEW i \in DOMAIN s
        PROVE  s[i] \notin Dangerous
    <3>1. CASE i \in Cuts(s)
      <4>1. s[i] \in {";", "GO"}
        BY <3>1 DEF Cuts, Separators
      <4> QED BY <4>1 DEF Dangerous, Mutations, Definitions, Executions, Administration
    <3>2. CASE i \notin Cuts(s)
      <4>1. i \in 1 .. Len(s)
        BY <2>3, LenProperties
      <4>2. PICK t : IsStatement(s, t) /\ \E k \in 1 .. Len(t) : t[k] = s[i]
        BY <2>3, <3>2, <4>1, EveryTokenIsInAStatement
      <4>3. t \in Range(st)
        BY <2>2, <2>3, <4>2, StatementsAre
      <4> QED BY <2>5, <4>2, <4>3
    <3> QED BY <3>1, <3>2
  <2>7. ASSUME NEW i \in DOMAIN st
        PROVE  st[i][1] \in {"SELECT", "WITH"}
    BY <2>5 DEF Range
  <2>8. s # <<>>
    <3>1. PICK i \in DOMAIN st : TRUE
      <4>1. Len(st) \in Nat /\ DOMAIN st = 1 .. Len(st) /\ Len(st) # 0
        BY <2>3, <2>4, EmptySeq, LenProperties
      <4>2. 1 \in DOMAIN st
        BY <4>1
      <4> QED BY <4>2
    <3>2. IsStatement(s, st[i])
      BY <2>5 DEF Range
    <3>3. PICK a \in Ends(s), b \in Ends(s) :
             Neighbours(s, a, b) /\ st[i] = SubSeq(s, a + 1, b - 1) /\ st[i] # <<>>
      BY <3>2 DEF IsStatement
    <3>4. Len(s) \in Nat /\ a \in 0 .. Len(s) + 1 /\ b \in 0 .. Len(s) + 1 /\ a < b
      BY <2>3, <3>3, EndsAre DEF Neighbours
    <3>5. s = <<>> => SubSeq(s, a + 1, b - 1) = <<>>
      <4>1. SUFFICES ASSUME s = <<>> PROVE SubSeq(s, a + 1, b - 1) = <<>>
        OBVIOUS
      <4>2. a + 1 = 1 /\ b - 1 = 0
        BY <3>4, <4>1, EmptySeq
      <4> QED BY <4>1, <4>2
    <3> QED BY <3>3, <3>5
  <2> QED BY <2>1, <2>2, <2>4, <2>6, <2>7, <2>8
<1> QED BY <1>1, TokensAlwaysTyped, PTL

-----------------------------------------------------------------------------
(* Two batches, one behind the other *)

Count(s, x, n) == Cardinality({i \in 1 .. n : s[i] = x})

LEMMA CountStep ==
    ASSUME NEW s, NEW x, NEW n \in Nat
    PROVE  /\ Count(s, x, n) \in Nat /\ Count(s, x, 0) = 0
           /\ Count(s, x, n + 1) = IF s[n + 1] = x THEN Count(s, x, n) + 1 ELSE Count(s, x, n)
<1> DEFINE found(m) == {i \in 1 .. m : s[i] = x}
<1>1. IsFiniteSet(1 .. n)
  BY FS_Interval
<1>2. IsFiniteSet(found(n))
  <2>1. found(n) \in SUBSET (1 .. n)
    OBVIOUS
  <2> QED BY <1>1, <2>1, FS_Subset
<1>3. found(0) = {}
  OBVIOUS
<1>4. n + 1 \notin found(n)
  OBVIOUS
<1>5. found(n + 1) = IF s[n + 1] = x THEN found(n) \union {n + 1} ELSE found(n)
  OBVIOUS
<1>6. Cardinality(found(n)) \in Nat
  BY <1>2, FS_CardinalityType
<1>7. \A m : Count(s, x, m) = Cardinality(found(m))
  BY DEF Count
<1> HIDE DEF found
<1>8. Cardinality(found(n) \union {n + 1}) = Cardinality(found(n)) + 1
  BY <1>2, <1>4, FS_AddElement
<1> QED BY <1>3, <1>5, <1>6, <1>7, <1>8, FS_EmptySet

LEMMA CountSame ==
    ASSUME NEW s, NEW u, NEW x, NEW n \in Nat, \A i \in 1 .. n : s[i] = u[i]
    PROVE  Count(s, x, n) = Count(u, x, n)
<1>1. {i \in 1 .. n : s[i] = x} = {i \in 1 .. n : u[i] = x}
  OBVIOUS
<1> QED BY <1>1 DEF Count

LEMMA CountBehind ==
    ASSUME NEW s, NEW v, NEW x, NEW m \in Nat, NEW N \in Nat,
           \A i \in 1 .. N : s[m + i] = v[i]
    PROVE  \A n \in 0 .. N : Count(s, x, m + n) = Count(s, x, m) + Count(v, x, n)
<1> DEFINE T == {n \in 0 .. N : Count(s, x, m + n) = Count(s, x, m) + Count(v, x, n)}
<1>1. 0 \in T
  <2>1. m + 0 = m /\ Count(v, x, 0) = 0 /\ Count(s, x, m) \in Nat
    BY CountStep
  <2> QED BY <2>1
<1>2. ASSUME NEW n \in 0 .. N, n \in T, n < N
      PROVE  n + 1 \in T
  <2>1. PICK k : k = m + n
    OBVIOUS
  <2>2. k \in Nat /\ n \in Nat /\ n + 1 \in 1 .. N /\ m + (n + 1) = k + 1
    BY <1>2, <2>1
  <2>3. /\ Count(s, x, k + 1) = IF s[k + 1] = x THEN Count(s, x, k) + 1 ELSE Count(s, x, k)
        /\ Count(s, x, k) \in Nat
    BY <2>2, CountStep
  <2>4. /\ Count(v, x, n + 1) = IF v[n + 1] = x THEN Count(v, x, n) + 1 ELSE Count(v, x, n)
        /\ Count(v, x, n) \in Nat
    BY <2>2, CountStep
  <2>5. s[k + 1] = v[n + 1]
    BY <2>2
  <2>6. Count(s, x, k) = Count(s, x, m) + Count(v, x, n) /\ Count(s, x, m) \in Nat
    BY <1>2, <2>1, CountStep
  <2>7. Count(s, x, k + 1) = Count(s, x, m) + Count(v, x, n + 1)
    BY <2>3, <2>4, <2>5, <2>6
  <2> QED BY <2>2, <2>7
<1> HIDE DEF T
<1>3. \A n \in 0 .. N : n \in T
  BY <1>1, <1>2, BoundedInduction
<1> QED BY <1>3 DEF T

\* s is u, a separator, and v.
Joined(S, s, u, v) ==
    /\ s \in Seq(S) /\ u \in Seq(S) /\ v \in Seq(S)
    /\ Len(s) = Len(u) + 1 + Len(v)
    /\ \A i \in 1 .. Len(u) : s[i] = u[i]
    /\ s[Len(u) + 1] \in Separators
    /\ \A i \in 1 .. Len(v) : s[(Len(u) + 1) + i] = v[i]

LEMMA JoinedCounts ==
    ASSUME NEW S, NEW s, NEW u, NEW v, Joined(S, s, u, v), NEW x \in {"(", ")"}
    PROVE  /\ \A i \in 0 .. Len(u) : Count(s, x, i) = Count(u, x, i)
           /\ Count(s, x, Len(u) + 1) = Count(u, x, Len(u))
           /\ \A i \in 0 .. Len(v) :
                Count(s, x, (Len(u) + 1) + i) = Count(u, x, Len(u)) + Count(v, x, i)
<1>1. Len(u) \in Nat /\ Len(v) \in Nat
  BY LenProperties DEF Joined
<1>2. \A i \in 0 .. Len(u) : Count(s, x, i) = Count(u, x, i)
  <2> SUFFICES ASSUME NEW i \in 0 .. Len(u) PROVE Count(s, x, i) = Count(u, x, i)
    OBVIOUS
  <2>1. i \in Nat /\ \A j \in 1 .. i : s[j] = u[j]
    BY <1>1 DEF Joined
  <2> QED BY <2>1, CountSame
<1>3. Count(s, x, Len(u) + 1) = Count(u, x, Len(u))
  <2>1. s[Len(u) + 1] # x
    BY DEF Joined, Separators
  <2>2. PICK n : n = Len(u)
    OBVIOUS
  <2>3. n \in Nat /\ s[n + 1] # x
    BY <1>1, <2>1, <2>2
  <2>4. Count(s, x, n + 1) = Count(s, x, n)
    BY <2>3, CountStep
  <2> QED BY <1>1, <1>2, <2>2, <2>4
<1>4. PICK m : m = Len(u) + 1
  OBVIOUS
<1>5. PICK N : N = Len(v)
  OBVIOUS
<1>6. \A i \in 0 .. N : Count(s, x, m + i) = Count(s, x, m) + Count(v, x, i)
  <2>1. m \in Nat /\ N \in Nat /\ \A i \in 1 .. N : s[m + i] = v[i]
    BY <1>1, <1>4, <1>5 DEF Joined
  <2> QED BY <2>1, CountBehind
<1> QED BY <1>2, <1>3, <1>4, <1>5, <1>6

\* How far the parentheses are open behind n tokens of s.
LEMMA Levels ==
    ASSUME NEW S, NEW s, NEW u, NEW v, Joined(S, s, u, v)
    PROVE  /\ \A i \in 0 .. Len(u) : Opened(s, i) = Opened(u, i) /\ Closed(s, i) = Closed(u, i)
           /\ Opened(s, Len(u) + 1) = Opened(u, Len(u)) /\ Closed(s, Len(u) + 1) = Closed(u, Len(u))
           /\ \A i \in 0 .. Len(v) :
                /\ Opened(s, (Len(u) + 1) + i) = Opened(u, Len(u)) + Opened(v, i)
                /\ Closed(s, (Len(u) + 1) + i) = Closed(u, Len(u)) + Closed(v, i)
<1>1. \A t, n : Opened(t, n) = Count(t, "(", n) /\ Closed(t, n) = Count(t, ")", n)
  BY DEF Opened, Closed, Count
<1> QED BY <1>1, JoinedCounts

LEMMA LevelType ==
    ASSUME NEW s, NEW n \in Nat
    PROVE  Opened(s, n) \in Nat /\ Closed(s, n) \in Nat /\ Opened(s, 0) = 0 /\ Closed(s, 0) = 0
<1>1. \A t, m : Opened(t, m) = Count(t, "(", m) /\ Closed(t, m) = Count(t, ")", m)
  BY DEF Opened, Closed, Count
<1> QED BY <1>1, CountStep

\* A batch that ends where another begins is balanced if both are.
LEMMA BalancedJoin ==
    ASSUME NEW S, NEW s, NEW u, NEW v, Joined(S, s, u, v), Balanced(u)
    PROVE  (Balanced(s) => Balanced(v)) /\ (Balanced(v) => Balanced(s))
<1> DEFINE L == Len(u) + 1
<1>1. /\ Len(u) \in Nat /\ Len(v) \in Nat /\ Len(s) = L + Len(v)
      /\ DOMAIN s = 1 .. Len(s) /\ DOMAIN u = 1 .. Len(u) /\ DOMAIN v = 1 .. Len(v)
  BY LenProperties DEF Joined
<1>2. /\ \A i \in 0 .. Len(u) : Opened(s, i) = Opened(u, i) /\ Closed(s, i) = Closed(u, i)
      /\ Opened(s, L) = Opened(u, Len(u)) /\ Closed(s, L) = Closed(u, Len(u))
      /\ \A i \in 0 .. Len(v) : /\ Opened(s, L + i) = Opened(u, Len(u)) + Opened(v, i)
                                /\ Closed(s, L + i) = Closed(u, Len(u)) + Closed(v, i)
  BY Levels
<1>3. Opened(u, Len(u)) = Closed(u, Len(u)) /\ \A i \in 1 .. Len(u) : Opened(u, i) >= Closed(u, i)
  BY <1>1 DEF Balanced
<1>4. /\ Opened(u, Len(u)) \in Nat /\ Closed(u, Len(u)) \in Nat
      /\ \A i \in 0 .. Len(v) : Opened(v, i) \in Nat /\ Closed(v, i) \in Nat
  BY <1>1, LevelType
<1>5. ASSUME Balanced(s) PROVE Balanced(v)
  <2>1. \A i \in 0 .. Len(v) : i # 0 => L + i \in 1 .. Len(s)
    BY <1>1
  <2>2. Opened(v, Len(v)) = Closed(v, Len(v))
    <3>1. Len(v) \in 0 .. Len(v)
      BY <1>1
    <3>2. Opened(s, L + Len(v)) = Closed(s, L + Len(v))
      BY <1>1, <1>5 DEF Balanced
    <3> QED BY <1>2, <1>3, <1>4, <3>1, <3>2
  <2>3. ASSUME NEW i \in 1 .. Len(v) PROVE Opened(v, i) >= Closed(v, i)
    <3>1. i \in 0 .. Len(v) /\ i # 0
      BY <1>1
    <3>2. Opened(s, L + i) >= Closed(s, L + i)
      BY <1>1, <1>5, <2>1, <3>1 DEF Balanced
    <3> QED BY <1>2, <1>3, <1>4, <3>1, <3>2
  <2> QED BY <1>1, <2>2, <2>3 DEF Balanced
<1>6. ASSUME Balanced(v) PROVE Balanced(s)
  <2>1. Opened(v, Len(v)) = Closed(v, Len(v)) /\ \A i \in 1 .. Len(v) : Opened(v, i) >= Closed(v, i)
    BY <1>1, <1>6 DEF Balanced
  <2>2. Opened(s, Len(s)) = Closed(s, Len(s))
    <3>1. Len(v) \in 0 .. Len(v)
      BY <1>1
    <3> QED BY <1>1, <1>2, <1>3, <2>1, <3>1
  <2>3. ASSUME NEW i \in 1 .. Len(s) PROVE Opened(s, i) >= Closed(s, i)
    <3>1. i \in 1 .. Len(u) \/ i = L \/ \E j \in 1 .. Len(v) : i = L + j
      <4>1. SUFFICES ASSUME i > L PROVE \E j \in 1 .. Len(v) : i = L + j
        BY <1>1
      <4>2. i - L \in 1 .. Len(v) /\ i = L + (i - L)
        BY <1>1, <4>1
      <4> QED BY <4>2
    <3>2. CASE i \in 1 .. Len(u)
      <4>1. i \in 0 .. Len(u)
        BY <3>2
      <4> QED BY <1>2, <1>3, <3>2, <4>1
    <3>3. CASE i = L
      BY <1>2, <1>3, <1>4, <3>3
    <3>4. CASE \E j \in 1 .. Len(v) : i = L + j
      <4>1. PICK j \in 1 .. Len(v) : i = L + j
        BY <3>4
      <4>2. j \in 0 .. Len(v) /\ Opened(v, j) >= Closed(v, j)
        BY <2>1
      <4> QED BY <1>2, <1>3, <1>4, <4>1, <4>2
    <3> QED BY <3>1, <3>2, <3>3, <3>4
  <2> QED BY <1>1, <2>2, <2>3 DEF Balanced
<1> QED BY <1>5, <1>6

\* Nothing that is appended makes up for a parenthesis of the first batch.
LEMMA BalancedBefore ==
    ASSUME NEW S, NEW s, NEW u, NEW v, Joined(S, s, u, v), Balanced(v), Balanced(s)
    PROVE  Balanced(u)
<1>1. /\ Len(u) \in Nat /\ Len(v) \in Nat /\ Len(s) = (Len(u) + 1) + Len(v)
      /\ DOMAIN s = 1 .. Len(s) /\ DOMAIN u = 1 .. Len(u)
  BY LenProperties DEF Joined
<1>2. /\ \A i \in 0 .. Len(u) : Opened(s, i) = Opened(u, i) /\ Closed(s, i) = Closed(u, i)
      /\ \A i \in 0 .. Len(v) : /\ Opened(s, (Len(u) + 1) + i) = Opened(u, Len(u)) + Opened(v, i)
                                /\ Closed(s, (Len(u) + 1) + i) = Closed(u, Len(u)) + Closed(v, i)
  BY Levels
<1>3. Opened(v, Len(v)) = Closed(v, Len(v)) /\ Opened(s, Len(s)) = Closed(s, Len(s))
  BY DEF Balanced
<1>4. Len(v) \in 0 .. Len(v)
  BY <1>1
<1>5. Opened(u, Len(u)) \in Nat /\ Closed(u, Len(u)) \in Nat /\ Opened(v, Len(v)) \in Nat
  BY <1>1, LevelType
<1>6. Opened(u, Len(u)) = Closed(u, Len(u))
  BY <1>1, <1>2, <1>3, <1>4, <1>5
<1>7. ASSUME NEW i \in 1 .. Len(u) PROVE Opened(u, i) >= Closed(u, i)
  <2>1. i \in 0 .. Len(u) /\ i \in DOMAIN s
    BY <1>1
  <2>2. Opened(s, i) >= Closed(s, i)
    BY <2>1 DEF Balanced
  <2> QED BY <1>2, <2>1, <2>2
<1> QED BY <1>1, <1>6, <1>7 DEF Balanced

LEMMA EndsOfJoin ==
    ASSUME NEW S, NEW s, NEW u, NEW v, Joined(S, s, u, v),
           Opened(u, Len(u)) = Closed(u, Len(u))
    PROVE  /\ \A c \in Ends(u) : c \in Ends(s)
           /\ \A c \in Ends(s) : c <= Len(u) + 1 => c \in Ends(u)
           /\ \A d \in Ends(v) : (Len(u) + 1) + d \in Ends(s)
           /\ \A d \in 0 .. Len(v) + 1 : (Len(u) + 1) + d \in Ends(s) => d \in Ends(v)
<1> DEFINE L == Len(u) + 1
<1>1. /\ Len(u) \in Nat /\ Len(v) \in Nat /\ Len(s) = L + Len(v)
      /\ DOMAIN s = 1 .. Len(s) /\ DOMAIN u = 1 .. Len(u) /\ DOMAIN v = 1 .. Len(v)
  BY LenProperties DEF Joined
<1>2. /\ \A i \in 1 .. Len(u) : Opened(s, i) = Opened(u, i) /\ Closed(s, i) = Closed(u, i)
      /\ Opened(s, L) = Closed(s, L)
      /\ \A i \in 1 .. Len(v) : /\ Opened(s, L + i) = Opened(u, Len(u)) + Opened(v, i)
                                /\ Closed(s, L + i) = Opened(u, Len(u)) + Closed(v, i)
      /\ Opened(u, Len(u)) \in Nat
      /\ \A i \in 1 .. Len(v) : Opened(v, i) \in Nat /\ Closed(v, i) \in Nat
  BY <1>1, Levels, LevelType
<1>3. /\ \A i \in 1 .. Len(u) : s[i] = u[i]
      /\ s[L] \in Separators
      /\ \A i \in 1 .. Len(v) : s[L + i] = v[i]
  BY DEF Joined
<1>4. \A i \in 1 .. Len(u) : i \in Cuts(s) <=> i \in Cuts(u)
  <2> SUFFICES ASSUME NEW i \in 1 .. Len(u) PROVE i \in Cuts(s) <=> i \in Cuts(u)
    OBVIOUS
  <2>1. i \in DOMAIN s /\ i \in DOMAIN u
    BY <1>1
  <2>2. s[i] = u[i] /\ Opened(s, i) = Opened(u, i) /\ Closed(s, i) = Closed(u, i)
    BY <1>2, <1>3
  <2> QED BY <2>1, <2>2 DEF Cuts
<1>5. L \in Cuts(s)
  BY <1>1, <1>2, <1>3 DEF Cuts
<1>6. \A i \in 1 .. Len(v) : L + i \in Cuts(s) <=> i \in Cuts(v)
  <2> SUFFICES ASSUME NEW i \in 1 .. Len(v) PROVE L + i \in Cuts(s) <=> i \in Cuts(v)
    OBVIOUS
  <2>1. L + i \in DOMAIN s /\ i \in DOMAIN v
    BY <1>1
  <2>2. s[L + i] = v[i]
    BY <1>3
  <2>3. Opened(s, L + i) = Closed(s, L + i) <=> Opened(v, i) = Closed(v, i)
    BY <1>2
  <2> QED BY <2>1, <2>2, <2>3 DEF Cuts
<1>7. /\ Cuts(s) \subseteq 1 .. Len(s) /\ Cuts(u) \subseteq 1 .. Len(u)
      /\ Cuts(v) \subseteq 1 .. Len(v)
  BY <1>1 DEF Cuts
<1>8. \A c \in Ends(u) : c \in Ends(s)
  BY <1>4, <1>5, <1>7 DEF Ends
<1>9. \A c \in Ends(s) : c <= L => c \in Ends(u)
  <2> SUFFICES ASSUME NEW c \in Ends(s), c <= L PROVE c \in Ends(u)
    OBVIOUS
  <2>1. c = 0 \/ c \in 1 .. Len(u) \/ c = L
    BY <1>1, <1>7 DEF Ends
  <2>2. CASE c \in 1 .. Len(u)
    <3>1. c \in Cuts(s)
      BY <1>1, <2>2 DEF Ends
    <3> QED BY <1>4, <2>2, <3>1 DEF Ends
  <2> QED BY <2>1, <2>2 DEF Ends
<1>10. \A d \in Ends(v) : L + d \in Ends(s)
  <2> SUFFICES ASSUME NEW d \in Ends(v) PROVE L + d \in Ends(s)
    OBVIOUS
  <2>1. d = 0 \/ d \in Cuts(v) \/ d = Len(v) + 1
    BY DEF Ends
  <2>2. CASE d \in Cuts(v)
    <3>1. d \in 1 .. Len(v)
      BY <1>7, <2>2
    <3>2. L + d \in Cuts(s)
      BY <1>6, <2>2, <3>1
    <3> QED BY <3>2 DEF Ends
  <2>3. CASE d = 0
    <3>1. L + d = L
      BY <1>1, <2>3
    <3> QED BY <1>5, <3>1 DEF Ends
  <2>4. CASE d = Len(v) + 1
    <3>1. L + d = Len(s) + 1
      BY <1>1, <2>4
    <3> QED BY <3>1 DEF Ends
  <2> QED BY <2>1, <2>2, <2>3, <2>4
<1>11. \A d \in 0 .. Len(v) + 1 : L + d \in Ends(s) => d \in Ends(v)
  <2> SUFFICES ASSUME NEW d \in 0 .. Len(v) + 1, L + d \in Ends(s) PROVE d \in Ends(v)
    OBVIOUS
  <2>1. d = 0 \/ d \in 1 .. Len(v) \/ d = Len(v) + 1
    BY <1>1
  <2>2. CASE d \in 1 .. Len(v)
    <3>1. L + d # 0 /\ L + d # Len(s) + 1
      BY <1>1, <2>2
    <3>2. L + d \in Cuts(s)
      BY <3>1 DEF Ends
    <3> QED BY <1>6, <2>2, <3>2 DEF Ends
  <2> QED BY <2>1, <2>2 DEF Ends
<1> QED BY <1>8, <1>9, <1>10, <1>11

LEMMA SubSeqSame ==
    ASSUME NEW S, NEW s, NEW u, NEW m \in Int, NEW n \in Int, NEW k \in Int,
           \A i \in m .. n : u[i] \in S /\ s[k + i] = u[i]
    PROVE  SubSeq(s, k + m, k + n) = SubSeq(u, m, n)
<1>1. PICK p, q : p = k + m /\ q = k + n
  OBVIOUS
<1>2. p \in Int /\ q \in Int
  BY <1>1
<1>3. \A i \in p .. q : s[i] \in S
  <2> SUFFICES ASSUME NEW i \in p .. q PROVE s[i] \in S
    OBVIOUS
  <2>1. PICK j : j = i - k
    OBVIOUS
  <2>2. j \in m .. n /\ k + j = i
    BY <1>1, <1>2, <2>1
  <2>3. u[j] \in S /\ s[k + j] = u[j]
    BY <2>2
  <2> QED BY <2>2, <2>3
<1>4. PICK a : a = SubSeq(s, p, q)
  OBVIOUS
<1>5. PICK b : b = SubSeq(u, m, n)
  OBVIOUS
<1>6. /\ a \in Seq(S) /\ Len(a) = IF p <= q THEN (q - p) + 1 ELSE 0
      /\ \A i \in 1 .. (q - p) + 1 : a[i] = s[p + i - 1]
  BY <1>2, <1>3, <1>4, SubSeqProperties
<1>7. /\ b \in Seq(S) /\ Len(b) = IF m <= n THEN (n - m) + 1 ELSE 0
      /\ \A i \in 1 .. (n - m) + 1 : b[i] = u[m + i - 1]
  BY <1>5, SubSeqProperties
<1>8. Len(a) = Len(b)
  BY <1>1, <1>6, <1>7
<1>9. ASSUME NEW i \in 1 .. Len(a) PROVE a[i] = b[i]
  <2>1. i \in 1 .. (q - p) + 1 /\ i \in 1 .. (n - m) + 1
    BY <1>1, <1>2, <1>6
  <2>2. PICK j : j = m + i - 1
    OBVIOUS
  <2>3. j \in m .. n /\ k + j = p + i - 1
    BY <1>1, <2>1, <2>2
  <2>4. s[k + j] = u[j]
    BY <2>3
  <2> QED BY <1>6, <1>7, <2>1, <2>2, <2>3, <2>4
<1>10. a = b
  BY <1>6, <1>7, <1>8, <1>9, SeqEqual
<1> QED BY <1>1, <1>4, <1>5, <1>10

\* What lies between a and b of u lies k places later in s.
Shifted(s, u, k, a, b) ==
    /\ Neighbours(u, a, b) => Neighbours(s, k + a, k + b)
    /\ Neighbours(s, k + a, k + b) => Neighbours(u, a, b)
    /\ SubSeq(s, (k + a) + 1, (k + b) - 1) = SubSeq(u, a + 1, b - 1)

\* The statements of the first batch are statements of the whole.
LEMMA StatementsBefore ==
    ASSUME NEW S, NEW s, NEW u, NEW v, Joined(S, s, u, v),
           Opened(u, Len(u)) = Closed(u, Len(u)),
           NEW a, NEW b, a \in Ends(u), b \in Ends(u)
    PROVE  Shifted(s, u, 0, a, b) /\ 0 + a = a /\ 0 + b = b
<1>1. Len(u) \in Nat /\ Ends(u) \subseteq 0 .. Len(u) + 1 /\ Ends(s) \subseteq 0 .. Len(s) + 1
      /\ Len(s) \in Nat /\ \A i \in 1 .. Len(u) : u[i] \in S /\ s[i] = u[i]
  BY EndsAre, LenProperties DEF Joined
<1>2. /\ \A c \in Ends(u) : c \in Ends(s)
      /\ \A c \in Ends(s) : c <= Len(u) + 1 => c \in Ends(u)
  BY EndsOfJoin
<1>3. Neighbours(u, a, b) => Neighbours(s, a, b)
  BY <1>1, <1>2 DEF Neighbours
<1>4. Neighbours(s, a, b) => Neighbours(u, a, b)
  BY <1>1, <1>2 DEF Neighbours
<1>5. PICK m, n : m = a + 1 /\ n = b - 1
  OBVIOUS
<1>6. m \in Int /\ n \in Int /\ \A i \in m .. n : u[i] \in S /\ s[0 + i] = u[i]
  BY <1>1, <1>5
<1>7. SubSeq(s, 0 + m, 0 + n) = SubSeq(u, m, n)
  BY <1>6, SubSeqSame
<1>8. 0 + m = (0 + a) + 1 /\ 0 + n = (0 + b) - 1 /\ 0 + a = a /\ 0 + b = b
  BY <1>1, <1>5
<1> QED BY <1>3, <1>4, <1>5, <1>7, <1>8 DEF Shifted

\* So are those of the second.
LEMMA StatementsBehind ==
    ASSUME NEW S, NEW s, NEW u, NEW v, Joined(S, s, u, v),
           Opened(u, Len(u)) = Closed(u, Len(u)),
           NEW L, L = Len(u) + 1, NEW a, NEW b, a \in Ends(v), b \in Ends(v)
    PROVE  Shifted(s, v, L, a, b)
<1>1. Len(u) \in Nat /\ Len(v) \in Nat /\ Len(s) = L + Len(v) /\ L \in Nat
      /\ Ends(v) \subseteq 0 .. Len(v) + 1 /\ Ends(s) \subseteq 0 .. Len(s) + 1
      /\ \A i \in 1 .. Len(v) : v[i] \in S /\ s[L + i] = v[i]
  BY EndsAre, LenProperties DEF Joined
<1>2. /\ \A d \in Ends(v) : L + d \in Ends(s)
      /\ \A d \in 0 .. Len(v) + 1 : L + d \in Ends(s) => d \in Ends(v)
  BY EndsOfJoin
<1>3. a \in Nat /\ b \in Nat /\ L + a \in Ends(s) /\ L + b \in Ends(s)
  BY <1>1, <1>2
<1>4. ASSUME Neighbours(v, a, b)
      PROVE  Neighbours(s, L + a, L + b)
  <2>1. ASSUME NEW c \in Ends(s), L + a < c, c < L + b
        PROVE  FALSE
    <3>1. PICK d : d = c - L
      OBVIOUS
    <3>2. d \in 0 .. Len(v) + 1 /\ L + d = c /\ a < d /\ d < b
      BY <1>1, <1>3, <2>1, <3>1
    <3> QED BY <1>2, <1>4, <2>1, <3>2 DEF Neighbours
  <2>2. L + a < L + b
    BY <1>1, <1>3, <1>4 DEF Neighbours
  <2> QED BY <1>3, <2>1, <2>2 DEF Neighbours
<1>5. ASSUME Neighbours(s, L + a, L + b)
      PROVE  Neighbours(v, a, b)
  <2>1. ASSUME NEW d \in Ends(v), a < d, d < b
        PROVE  FALSE
    <3>1. d \in Nat /\ L + d \in Ends(s)
      BY <1>1, <1>2
    <3>2. L + a < L + d /\ L + d < L + b
      BY <1>1, <1>3, <2>1, <3>1
    <3> QED BY <1>5, <3>1, <3>2 DEF Neighbours
  <2>2. a < b
    BY <1>1, <1>3, <1>5 DEF Neighbours
  <2> QED BY <2>1, <2>2 DEF Neighbours
<1>6. PICK m, n : m = a + 1 /\ n = b - 1
  OBVIOUS
<1>7. m \in Int /\ n \in Int /\ \A i \in m .. n : v[i] \in S /\ s[L + i] = v[i]
  BY <1>1, <1>3, <1>6
<1>8. SubSeq(s, L + m, L + n) = SubSeq(v, m, n)
  BY <1>1, <1>7, SubSeqSame
<1>9. L + m = (L + a) + 1 /\ L + n = (L + b) - 1
  BY <1>1, <1>3, <1>6
<1> QED BY <1>4, <1>5, <1>6, <1>8, <1>9 DEF Shifted

StatementsOfBoth(s, u, v) ==
    Range(Statements(s)) = Range(Statements(u)) \union Range(Statements(v))

\* The statements of two batches, one behind the other, are those of both.
LEMMA StatementsOfJoin ==
    ASSUME NEW S, NEW s, NEW u, NEW v, Joined(S, s, u, v), Balanced(u)
    PROVE  StatementsOfBoth(s, u, v)
<1>1. PICK L : L = Len(u) + 1
  OBVIOUS
<1>2. Opened(u, Len(u)) = Closed(u, Len(u))
  BY DEF Balanced
<1>3. /\ s \in Seq(S) /\ u \in Seq(S) /\ v \in Seq(S)
      /\ Len(u) \in Nat /\ Len(v) \in Nat /\ L \in Nat /\ Len(s) = L + Len(v)
      /\ Ends(s) \subseteq 0 .. Len(s) + 1
      /\ L \in Ends(u)
  BY <1>1, EndsAre DEF Joined
<1>4. /\ \A c \in Ends(u) : c \in Ends(s)
      /\ \A c \in Ends(s) : c <= L => c \in Ends(u)
      /\ \A d \in Ends(v) : L + d \in Ends(s)
      /\ \A d \in 0 .. Len(v) + 1 : L + d \in Ends(s) => d \in Ends(v)
  BY <1>1, <1>2, EndsOfJoin
<1>5. ASSUME NEW t, IsStatement(s, t)
      PROVE  IsStatement(u, t) \/ IsStatement(v, t)
  <2>1. PICK a \in Ends(s), b \in Ends(s) :
           Neighbours(s, a, b) /\ t = SubSeq(s, a + 1, b - 1) /\ t # <<>>
    BY <1>5 DEF IsStatement
  <2>2. a \in Nat /\ b \in Nat /\ a < b /\ ~(a < L /\ L < b)
    BY <1>3, <1>4, <2>1 DEF Neighbours
  <2>3. CASE b <= L
    <3>1. a \in Ends(u) /\ b \in Ends(u)
      BY <1>3, <1>4, <2>2, <2>3
    <3>2. Shifted(s, u, 0, a, b) /\ 0 + a = a /\ 0 + b = b
      BY <1>2, <3>1, StatementsBefore
    <3>3. Neighbours(u, a, b) /\ t = SubSeq(u, a + 1, b - 1)
      BY <2>1, <3>2 DEF Shifted
    <3> QED BY <2>1, <3>1, <3>3 DEF IsStatement
  <2>4. CASE a >= L
    <3>1. PICK c, d : c = a - L /\ d = b - L
      OBVIOUS
    <3>2. c \in 0 .. Len(v) + 1 /\ d \in 0 .. Len(v) + 1 /\ L + c = a /\ L + d = b
      BY <1>3, <2>2, <2>4, <3>1
    <3>3. c \in Ends(v) /\ d \in Ends(v)
      BY <1>4, <3>2
    <3>4. Neighbours(s, L + c, L + d)
      BY <2>1, <3>2
    <3>5. Shifted(s, v, L, c, d)
      BY <1>1, <1>2, <3>3, StatementsBehind
    <3>6. Neighbours(v, c, d) /\ t = SubSeq(v, c + 1, d - 1)
      BY <2>1, <3>2, <3>4, <3>5 DEF Shifted
    <3> QED BY <2>1, <3>3, <3>6 DEF IsStatement
  <2> QED BY <1>3, <2>2, <2>3, <2>4
<1>6. ASSUME NEW t, IsStatement(u, t)
      PROVE  IsStatement(s, t)
  <2>1. PICK a \in Ends(u), b \in Ends(u) :
           Neighbours(u, a, b) /\ t = SubSeq(u, a + 1, b - 1) /\ t # <<>>
    BY <1>6 DEF IsStatement
  <2>2. Shifted(s, u, 0, a, b) /\ 0 + a = a /\ 0 + b = b
    BY <1>2, StatementsBefore
  <2>3. Neighbours(s, a, b) /\ t = SubSeq(s, a + 1, b - 1)
    BY <2>1, <2>2 DEF Shifted
  <2> QED BY <1>4, <2>1, <2>3 DEF IsStatement
<1>7. ASSUME NEW t, IsStatement(v, t)
      PROVE  IsStatement(s, t)
  <2>1. PICK c \in Ends(v), d \in Ends(v) :
           Neighbours(v, c, d) /\ t = SubSeq(v, c + 1, d - 1) /\ t # <<>>
    BY <1>7 DEF IsStatement
  <2>2. PICK a, b : a = L + c /\ b = L + d
    OBVIOUS
  <2>3. Shifted(s, v, L, c, d)
    BY <1>1, <1>2, StatementsBehind
  <2>4. Neighbours(s, a, b) /\ t = SubSeq(s, a + 1, b - 1)
    BY <2>1, <2>2, <2>3 DEF Shifted
  <2>5. a \in Ends(s) /\ b \in Ends(s)
    BY <1>4, <2>2
  <2> QED BY <2>1, <2>4, <2>5 DEF IsStatement
<1>8. \A w \in {s, u, v} :
         /\ \A t \in Range(Statements(w)) : IsStatement(w, t)
         /\ \A t : IsStatement(w, t) => t \in Range(Statements(w))
  BY <1>3, StatementsAre
<1> QED BY <1>5, <1>6, <1>7, <1>8 DEF StatementsOfBoth

\* The two parts of a batch that is divided at a separator.
LEMMA Divided ==
    ASSUME NEW S, NEW s \in Seq(S), NEW i \in 1 .. Len(s), s[i] \in Separators,
           NEW u, NEW v, u = SubSeq(s, 1, i - 1), v = SubSeq(s, i + 1, Len(s))
    PROVE  Joined(S, s, u, v)
<1>1. Len(s) \in Nat /\ \A j \in 1 .. Len(s) : s[j] \in S
  BY LenProperties
<1>2. PICK m, n, N : m = i - 1 /\ n = i + 1 /\ N = Len(s)
  OBVIOUS
<1>3. m \in Nat /\ n \in Nat /\ N \in Nat /\ m <= N /\ n <= N + 1 /\ i = m + 1
  BY <1>1, <1>2
<1>4. u \in Seq(S) /\ Len(u) = m /\ \A j \in 1 .. m : u[j] = s[j]
  <2>1. \A j \in 1 .. m : s[j] \in S
    BY <1>1, <1>2, <1>3
  <2>2. /\ u \in Seq(S) /\ Len(u) = IF 1 <= m THEN (m - 1) + 1 ELSE 0
        /\ \A j \in 1 .. (m - 1) + 1 : u[j] = s[1 + j - 1]
    BY <1>2, <1>3, <2>1, SubSeqProperties
  <2>3. \A j \in 1 .. m : 1 + j - 1 = j
    BY <1>3
  <2> QED BY <1>3, <2>2, <2>3
<1>5. v \in Seq(S) /\ Len(v) = N - i /\ \A j \in 1 .. N - i : v[j] = s[i + j]
  <2>1. \A j \in n .. N : s[j] \in S
    BY <1>1, <1>2, <1>3
  <2>2. /\ v \in Seq(S) /\ Len(v) = IF n <= N THEN (N - n) + 1 ELSE 0
        /\ \A j \in 1 .. (N - n) + 1 : v[j] = s[n + j - 1]
    BY <1>2, <1>3, <2>1, SubSeqProperties
  <2>3. \A j \in 1 .. N - i : j \in 1 .. (N - n) + 1 /\ n + j - 1 = i + j
    BY <1>2, <1>3
  <2> QED BY <1>2, <1>3, <2>2, <2>3
<1>6. Len(s) = Len(u) + 1 + Len(v) /\ Len(u) + 1 = i
  <2>1. Len(u) = m /\ Len(v) = N - i /\ N = Len(s)
    BY <1>2, <1>4, <1>5
  <2>2. N = m + 1 + (N - i) /\ m + 1 = i
    BY <1>3
  <2> QED BY <2>1, <2>2
<1> QED BY <1>3, <1>4, <1>5, <1>6 DEF Joined

LEMMA StatementBegins ==
    ASSUME NEW S, NEW s \in Seq(S), NEW t, IsStatement(s, t)
    PROVE  t \in Seq(S) /\ t # <<>> /\ \E j \in 1 .. Len(s) : t[1] = s[j]
<1>1. PICK a \in Ends(s), b \in Ends(s) :
         Neighbours(s, a, b) /\ t = SubSeq(s, a + 1, b - 1) /\ t # <<>>
  BY DEF IsStatement
<1>2. PICK m, n : m = a + 1 /\ n = b - 1
  OBVIOUS
<1>3. Len(s) \in Nat /\ m \in Int /\ n \in Int /\ 1 <= m /\ n <= Len(s)
  BY <1>2, EndsAre
<1>4. \A i \in m .. n : s[i] \in S
  BY <1>3, LenProperties
<1>5. t = SubSeq(s, m, n)
  BY <1>1, <1>2
<1>6. m <= n
  <2>1. SUFFICES ASSUME n < m PROVE FALSE
    BY <1>3
  <2>2. SubSeq(s, m, n) = <<>>
    BY <1>3, <2>1, SubSeqEmpty
  <2> QED BY <1>1, <1>5, <2>2
<1>7. /\ t \in Seq(S)
      /\ \A i \in 1 .. (n - m) + 1 : t[i] = s[m + i - 1]
  BY <1>3, <1>4, <1>5, SubSeqProperties
<1>8. m \in 1 .. Len(s) /\ 1 \in 1 .. (n - m) + 1 /\ m + 1 - 1 = m
  BY <1>3, <1>6
<1>9. t[1] = s[m]
  BY <1>7, <1>8
<1> QED BY <1>1, <1>7, <1>8, <1>9

LEMMA EmptyRange ==
    ASSUME NEW S, NEW st \in Seq(S)
    PROVE  (st = <<>> => Range(st) = {}) /\ (st # <<>> => Range(st) # {})
<1>1. Len(st) \in Nat /\ DOMAIN st = 1 .. Len(st)
  BY LenProperties
<1>2. CASE st = <<>>
  <2>1. Len(st) = 0
    BY <1>2, EmptySeq
  <2> QED BY <1>1, <1>2, <2>1 DEF Range
<1>3. CASE st # <<>>
  <2>1. Len(st) # 0
    BY <1>3, EmptySeq
  <2>2. 1 \in DOMAIN st
    BY <1>1, <2>1
  <2> QED BY <1>3, <2>2 DEF Range
<1> QED BY <1>2, <1>3

LEMMA NothingPassedOver ==
    ASSUME NEW R, \A t \in R : ~IsTransactionControl(t)
    PROVE  Counted(R) = {"read"} \union {StatementClass(t) : t \in R}
<1>1. {u \in R : ~PassedOver(u, R)} = R
  BY DEF PassedOver
<1> QED BY <1>1 DEF Counted

\* "A multi-statement batch inherits the most hazardous class of any statement"
\* (docs/12-db-execution-safety-contract.md), for every batch: wherever it is
\* divided between two statements, it is no safer than either part.
THEOREM NoStatementIsEverHidden == Spec => []NoStatementIsHidden
<1>1. TokensType => NoStatementIsHidden
  <2> SUFFICES ASSUME TokensType, ~torn, Balanced(tokens), NEW i \in DOMAIN tokens,
                      tokens[i] = ";", Balanced(Before(i)),
                      \A j \in DOMAIN tokens : tokens[j] \notin {"BEGIN", "COMMIT", "ROLLBACK"},
                      NEW part \in {Before(i), Behind(i)}, Statements(part) # <<>>
               PROVE  Rank[BatchClass(tokens, torn)] >= Rank[BatchClass(part, FALSE)]
    BY DEF NoStatementIsHidden
  <2>1. PICK s : s = tokens
    OBVIOUS
  <2>2. PICK u, v : u = Before(i) /\ v = Behind(i)
    OBVIOUS
  <2>3. s \in Seq(Written) /\ i \in 1 .. Len(s) /\ s[i] \in Separators /\ DOMAIN s = 1 .. Len(s)
    BY <2>1, LenProperties DEF TokensType, Separators
  <2>4. Joined(Written, s, u, v)
    <3>1. u = SubSeq(s, 1, i - 1) /\ v = SubSeq(s, i + 1, Len(s))
      BY <2>1, <2>2 DEF Before, Behind
    <3> QED BY <2>3, <3>1, Divided
  <2>5. Balanced(u) /\ Balanced(v)
    BY <2>1, <2>2, <2>4, BalancedJoin
  <2>6. PICK st, sp : st = Statements(s) /\ sp = Statements(part)
    OBVIOUS
  <2>7. Range(sp) \subseteq Range(st)
    <3>1. StatementsOfBoth(s, u, v)
      BY <2>4, <2>5, StatementsOfJoin
    <3>2. part = u \/ part = v
      BY <2>2
    <3> QED BY <2>6, <3>1, <3>2 DEF StatementsOfBoth
  <2>8. st \in Seq(Seq(Written)) /\ sp \in Seq(Seq(Written))
    BY <2>2, <2>3, <2>4, <2>6, StatementsAre DEF Joined
  <2>9. st # <<>>
    <3>1. sp # <<>>
      BY <2>6
    <3>2. Range(sp) # {}
      BY <2>8, <3>1, EmptyRange
    <3>3. Range(st) # {}
      BY <2>7, <3>2
    <3> QED BY <2>8, <3>3, EmptyRange
  <2>10. /\ BatchClass(tokens, torn) = ClassOfStatements(st)
         /\ BatchClass(part, FALSE) = ClassOfStatements(sp)
    BY <2>1, <2>2, <2>5, <2>6, <2>9 DEF BatchClass
  <2>11. ASSUME NEW t \in Range(st)
         PROVE  ~IsTransactionControl(t)
    <3>1. IsStatement(s, t)
      BY <2>3, <2>6, StatementsAre
    <3>2. PICK j \in 1 .. Len(s) : t[1] = s[j]
      BY <2>3, <3>1, StatementBegins
    <3> QED BY <2>1, <2>3, <3>2 DEF IsTransactionControl
  <2>12. /\ Counted(Range(st)) = {"read"} \union {StatementClass(t) : t \in Range(st)}
         /\ Counted(Range(sp)) = {"read"} \union {StatementClass(t) : t \in Range(sp)}
    BY <2>7, <2>11, NothingPassedOver
  <2>13. Counted(Range(sp)) \in SUBSET Counted(Range(st))
    BY <2>7, <2>12
  <2>14. PICK C, D, v1, v2 : /\ C = Counted(Range(st)) /\ D = Counted(Range(sp))
                             /\ v1 = ClassOfStatements(st) /\ v2 = ClassOfStatements(sp)
    OBVIOUS
  <2>15. C \in SUBSET Classes /\ Greatest(C, v1) /\ Greatest(D, v2) /\ D \in SUBSET C
    BY <2>8, <2>13, <2>14, ClassIsGreatest
  <2>16. Rank[v2] <= Rank[v1] /\ v1 \in Classes /\ v2 \in Classes
    BY <2>15, GreatestOfMore DEF Greatest
  <2>17. Rank[v1] >= Rank[v2]
    BY <2>16, ClassNames, Ranks
  <2> QED BY <2>10, <2>14, <2>17
<1> QED BY <1>1, TokensAlwaysTyped, PTL

-----------------------------------------------------------------------------
(* A batch in a transaction *)

LEMMA OneToken ==
    ASSUME NEW x, x \notin Separators \union {"(", ")"}, NEW s, s = <<x>>
    PROVE  Balanced(s) /\ Range(Statements(s)) = {s}
<1> DEFINE S == {x}
<1>1. s \in Seq(S) /\ Len(s) = 1 /\ s[1] = x /\ DOMAIN s = 1 .. 1
  OBVIOUS
<1> HIDE DEF S
<1>2. Opened(s, 1) = 0 /\ Closed(s, 1) = 0
  <2>1. {i \in 1 .. 1 : s[i] = "("} = {} /\ {i \in 1 .. 1 : s[i] = ")"} = {}
    BY <1>1
  <2> QED BY <2>1, FS_EmptySet DEF Opened, Closed
<1>3. Balanced(s)
  BY <1>1, <1>2 DEF Balanced
<1>4. Cuts(s) = {}
  BY <1>1 DEF Cuts
<1>5. Ends(s) = {0, 2}
  BY <1>1, <1>4 DEF Ends
<1>6. SubSeq(s, 1, 1) = s /\ s # <<>>
  <2>1. /\ SubSeq(s, 1, 1) \in Seq(S) /\ Len(SubSeq(s, 1, 1)) = 1
        /\ SubSeq(s, 1, 1)[1] = s[1]
    <3>1. PICK m : m = 1
      OBVIOUS
    <3>2. m \in Int /\ \A i \in m .. m : s[i] \in S
      BY <1>1, <3>1 DEF S
    <3>3. /\ SubSeq(s, m, m) \in Seq(S) /\ Len(SubSeq(s, m, m)) = IF m <= m THEN (m - m) + 1 ELSE 0
          /\ \A i \in 1 .. (m - m) + 1 : SubSeq(s, m, m)[i] = s[m + i - 1]
      BY <3>2, SubSeqProperties
    <3> QED BY <3>1, <3>3
  <2>2. PICK r : r = SubSeq(s, 1, 1)
    OBVIOUS
  <2>3. r \in Seq(S) /\ Len(r) = Len(s) /\ \A i \in 1 .. Len(r) : r[i] = s[i]
    BY <1>1, <2>1, <2>2
  <2>4. r = s
    BY <1>1, <2>3, SeqEqual
  <2> QED BY <1>1, <2>2, <2>4, EmptySeq
<1>7. ASSUME NEW t, IsStatement(s, t) PROVE t = s
  <2>1. PICK a \in Ends(s), b \in Ends(s) :
           Neighbours(s, a, b) /\ t = SubSeq(s, a + 1, b - 1)
    BY <1>7 DEF IsStatement
  <2>2. a < b
    BY <2>1 DEF Neighbours
  <2>3. a = 0 /\ b = 2
    BY <1>5, <2>2
  <2>4. a + 1 = 1 /\ b - 1 = 1
    BY <2>3
  <2> QED BY <1>6, <2>1, <2>4
<1>8. IsStatement(s, s)
  <2>1. PICK a, b : a = 0 /\ b = 2
    OBVIOUS
  <2>2. Neighbours(s, a, b)
    BY <1>5, <2>1 DEF Neighbours
  <2>3. a + 1 = 1 /\ b - 1 = 1 /\ a \in Ends(s) /\ b \in Ends(s)
    BY <1>5, <2>1
  <2>4. s = SubSeq(s, a + 1, b - 1)
    BY <1>6, <2>3
  <2> QED BY <1>6, <2>2, <2>3, <2>4 DEF IsStatement
<1>9. /\ \A t \in Range(Statements(s)) : IsStatement(s, t)
      /\ \A t : IsStatement(s, t) => t \in Range(Statements(s))
  BY <1>1, StatementsAre
<1> QED BY <1>3, <1>7, <1>8, <1>9

LEMMA ControlIsUnknown ==
    ASSUME NEW x \in {"BEGIN", "COMMIT", "ROLLBACK"}, NEW s, s = <<x>>
    PROVE  IsTransactionControl(s) /\ StatementClass(s) = "unknown"
<1> DEFINE S == {x}
<1>1. s \in Seq(S) /\ Len(s) = 1 /\ s[1] = x /\ s # <<>>
  OBVIOUS
<1> HIDE DEF S
<1>2. IsVerb(s, 1)
  BY <1>1 DEF IsVerb, UnknownStarts
<1>3. VerbClass(s, 1) = "unknown"
  BY <1>1, <1>2
     DEF VerbClass, Mutations, Definitions, Administration, Executions, UnknownStarts
<1>4. FirstClass(s) = "unknown"
  BY <1>1, <1>2, <1>3 DEF FirstClass
<1>5. DangerAt(s, 1) = "read"
  BY <1>1 DEF DangerAt, UnknownStarts
<1>6. ClassesIn(s) = {"unknown", "read"}
  <2>1. {DangerAt(s, i) : i \in 1 .. Len(s)} = {DangerAt(s, 1)}
    BY <1>1
  <2> QED BY <1>4, <1>5, <2>1 DEF ClassesIn
<1>7. PICK c : c = StatementClass(s)
  OBVIOUS
<1>8. Greatest({"unknown", "read"}, c)
  BY <1>1, <1>6, <1>7, StatementIsGreatest
<1>9. c = "unknown"
  BY <1>8, Orders DEF Greatest
<1> QED BY <1>1, <1>7, <1>9 DEF IsTransactionControl

\* x is a, and b behind it.
Appended(S, a, b, x) ==
    /\ x \in Seq(S) /\ Len(x) = Len(a) + Len(b)
    /\ \A i \in 1 .. Len(a) + Len(b) : x[i] = IF i <= Len(a) THEN a[i] ELSE b[i - Len(a)]

LEMMA AppendedIs ==
    ASSUME NEW S, NEW a \in Seq(S), NEW b \in Seq(S), NEW x, x = a \o b
    PROVE  Appended(S, a, b, x)
BY ConcatProperties DEF Appended

\* w is s between two tokens, each cut off, and rest what follows the first.
Enclosed(begin, cut, end, s, rest, w) ==
    /\ rest = s \o <<cut, end>>
    /\ w = <<begin, cut>> \o s \o <<cut, end>>

LEMMA Wrapping ==
    ASSUME NEW S, NEW s \in Seq(S), NEW begin \in S, NEW cut \in S, NEW end \in S,
           cut \in Separators, NEW w, NEW rest, Enclosed(begin, cut, end, s, rest, w),
           NEW b, NEW r, b = <<begin>>, r = <<end>>
    PROVE  Joined(S, w, b, rest) /\ Joined(S, rest, s, r)
<1>1. PICK p, q : p = <<begin, cut>> /\ q = <<cut, end>>
  OBVIOUS
<1>2. /\ p \in Seq(S) /\ q \in Seq(S) /\ b \in Seq(S) /\ r \in Seq(S)
      /\ Len(p) = 2 /\ Len(q) = 2 /\ Len(b) = 1 /\ Len(r) = 1
      /\ p[1] = begin /\ p[2] = cut /\ q[1] = cut /\ q[2] = end
      /\ b[1] = begin /\ r[1] = end
  BY <1>1
<1>3. PICK n, x : n = Len(s) /\ x = p \o s
  OBVIOUS
<1>4. w = x \o q /\ rest = s \o q
  BY <1>1, <1>3 DEF Enclosed
<1>5. n \in Nat
  BY <1>3, LenProperties
<1>6. /\ x \in Seq(S) /\ Len(x) = 2 + n
      /\ \A i \in 1 .. 2 + n : x[i] = IF i <= 2 THEN p[i] ELSE s[i - 2]
  <2>1. Appended(S, p, s, x)
    BY <1>2, <1>3, AppendedIs
  <2> QED BY <1>2, <1>3, <2>1 DEF Appended
<1>7. /\ w \in Seq(S) /\ Len(w) = (2 + n) + 2
      /\ \A i \in 1 .. (2 + n) + 2 : w[i] = IF i <= 2 + n THEN x[i] ELSE q[i - (2 + n)]
  <2>1. Appended(S, x, q, w)
    BY <1>2, <1>4, <1>6, AppendedIs
  <2> QED BY <1>2, <1>6, <2>1 DEF Appended
<1>8. /\ rest \in Seq(S) /\ Len(rest) = n + 2
      /\ \A i \in 1 .. n + 2 : rest[i] = IF i <= n THEN s[i] ELSE q[i - n]
  <2>1. Appended(S, s, q, rest)
    BY <1>2, <1>4, AppendedIs
  <2> QED BY <1>2, <1>3, <2>1 DEF Appended
<1>9. w[1] = b[1] /\ w[2] = cut
  <2>1. /\ 1 \in 1 .. (2 + n) + 2 /\ 2 \in 1 .. (2 + n) + 2 /\ 1 <= 2 + n /\ 2 <= 2 + n
        /\ 1 \in 1 .. 2 + n /\ 2 \in 1 .. 2 + n
    BY <1>5
  <2>2. w[1] = x[1] /\ w[2] = x[2]
    BY <1>7, <2>1
  <2>3. x[1] = p[1] /\ x[2] = p[2]
    BY <1>6, <2>1
  <2> QED BY <1>2, <2>2, <2>3
<1>10. ASSUME NEW i \in 1 .. n + 2
       PROVE  w[2 + i] = rest[i]
  <2>1. CASE i <= n
    <3>1. 2 + i \in 1 .. 2 + n /\ (2 + i) - 2 = i /\ ~(2 + i <= 2) /\ 2 + i \in 1 .. (2 + n) + 2 /\ 2 + i <= 2 + n
      BY <1>5, <2>1
    <3>2. w[2 + i] = x[2 + i] /\ x[2 + i] = s[i]
      BY <1>6, <1>7, <3>1
    <3> QED BY <1>8, <2>1, <3>2
  <2>2. CASE ~(i <= n)
    <3>1. 2 + i \in 1 .. (2 + n) + 2 /\ (2 + i) - (2 + n) = i - n /\ ~(2 + i <= 2 + n)
      BY <1>5, <2>2
    <3>2. w[2 + i] = q[i - n]
      BY <1>7, <3>1
    <3> QED BY <1>8, <2>2, <3>2
  <2> QED BY <2>1, <2>2
<1>11. Joined(S, w, b, rest)
  <2>1. Len(w) = Len(b) + 1 + Len(rest) /\ Len(b) + 1 = 2 /\ Len(b) = 1
    BY <1>2, <1>5, <1>7, <1>8
  <2>2. \A i \in 1 .. Len(b) : w[i] = b[i]
    BY <1>9, <2>1
  <2>3. w[Len(b) + 1] \in Separators
    BY <1>9, <2>1
  <2>4. \A i \in 1 .. Len(rest) : w[(Len(b) + 1) + i] = rest[i]
    BY <1>8, <1>10, <2>1
  <2> QED BY <1>2, <1>7, <1>8, <2>1, <2>2, <2>3, <2>4 DEF Joined
<1>12. Joined(S, rest, s, r)
  <2>1. Len(rest) = Len(s) + 1 + Len(r) /\ Len(r) = 1
    BY <1>2, <1>3, <1>5, <1>8
  <2>2. \A i \in 1 .. Len(s) : rest[i] = s[i]
    BY <1>3, <1>5, <1>8
  <2>3. rest[n + 1] = cut /\ rest[n + 2] = end
    <3>1. n + 1 \in 1 .. n + 2 /\ n + 2 \in 1 .. n + 2 /\ ~(n + 1 <= n) /\ ~(n + 2 <= n)
          /\ (n + 1) - n = 1 /\ (n + 2) - n = 2
      BY <1>5
    <3> QED BY <1>2, <1>8, <3>1
  <2>4. rest[Len(s) + 1] \in Separators
    BY <1>3, <2>3
  <2>5. \A i \in 1 .. Len(r) : rest[(Len(s) + 1) + i] = r[i]
    <3>1. (Len(s) + 1) + 1 = n + 2
      BY <1>3, <1>5
    <3> QED BY <1>2, <2>1, <2>3, <3>1
  <2> QED BY <1>2, <1>8, <2>1, <2>2, <2>4, <2>5 DEF Joined
<1> QED BY <1>11, <1>12

Hazardous(R) == \E t \in R : ~IsTransactionControl(t) /\ StatementClass(t) # "read"

WrapsAs(st, sw) ==
    ClassOfStatements(sw) =
        IF Hazardous(Range(st)) THEN ClassOfStatements(st)
        ELSE Safer("unknown", ClassOfStatements(st))

\* BEGIN and ROLLBACK around a batch of statements.
LEMMA WrappedClass ==
    ASSUME NEW S, NEW st \in Seq(Seq(S)), NEW sw \in Seq(Seq(S)), NEW b, NEW r,
           Range(sw) = Range(st) \union {b, r},
           \A t \in {b, r} : IsTransactionControl(t) /\ StatementClass(t) = "unknown"
    PROVE  WrapsAs(st, sw)
<1> DEFINE hazardous == Hazardous(Range(st))
<1>1. PICK R, W : R = Range(st) /\ W = Range(sw)
  OBVIOUS
<1>2. PICK v, w : v = ClassOfStatements(st) /\ w = ClassOfStatements(sw)
  OBVIOUS
<1>3. /\ Counted(R) \in SUBSET Classes /\ Greatest(Counted(R), v)
      /\ Counted(W) \in SUBSET Classes /\ Greatest(Counted(W), w)
  BY <1>1, <1>2, ClassIsGreatest
<1>4. W = R \union {b, r}
  BY <1>1
<1>5. ASSUME NEW t \in R
      PROVE  StatementClass(t) \in Classes
  <2>1. t \in Seq(S)
    BY <1>1, LenProperties DEF Range
  <2> QED BY <2>1, StatementType
<1>6. \A t \in R : StatementClass(t) # "read" <=> Rank[StatementClass(t)] >= Rank["mutation"]
  BY <1>5, ClassNames, Ranks
<1>7. CASE hazardous
  <2>1. PICK h \in R : ~IsTransactionControl(h) /\ Rank[StatementClass(h)] >= Rank["mutation"]
    BY <1>1, <1>6, <1>7 DEF Hazardous
  <2>2. \A u : /\ PassedOver(u, R) <=> IsTransactionControl(u) /\ StatementClass(u) = "unknown"
               /\ PassedOver(u, W) <=> IsTransactionControl(u) /\ StatementClass(u) = "unknown"
    BY <1>4, <2>1 DEF PassedOver
  <2>3. {u \in W : ~PassedOver(u, W)} = {u \in R : ~PassedOver(u, R)}
    BY <1>4, <2>2
  <2>4. Counted(W) = Counted(R)
    BY <2>3 DEF Counted
  <2>5. v = w
    BY <1>3, <2>4, OneGreatest
  <2> QED BY <1>2, <1>7, <2>5 DEF WrapsAs
<1>8. CASE ~hazardous
  <2>1. \A t \in R : ~IsTransactionControl(t) => StatementClass(t) = "read"
    BY <1>1, <1>8 DEF Hazardous
  <2>2. \A u : ~PassedOver(u, R) /\ ~PassedOver(u, W)
    BY <1>4, <2>1, Ranks DEF PassedOver
  <2>3. {u \in R : ~PassedOver(u, R)} = R /\ {u \in W : ~PassedOver(u, W)} = W
    BY <2>2
  <2>4. Counted(W) = Counted(R) \union {"unknown"}
    BY <1>4, <2>3 DEF Counted
  <2>5. v \in Counted(R) /\ \A c \in Counted(R) : Order[c] <= Order[v]
    BY <1>3 DEF Greatest
  <2>6. PICK x : x = Safer("unknown", v)
    OBVIOUS
  <2>7. v \in Classes /\ "unknown" \in Classes
    BY <1>3, <2>5, ClassNames
  <2>8. x = (IF Order[v] > Order["unknown"] THEN v ELSE "unknown") /\ Order[v] \in 0 .. 5
        /\ Order["unknown"] \in 0 .. 5
    BY <2>6, <2>7, SaferIsLater
  <2>9. \A c \in Counted(R) : Order[c] \in 0 .. 5
    BY <1>3, SaferIsLater
  <2>10. Greatest(Counted(W), x)
    BY <2>4, <2>5, <2>8, <2>9 DEF Greatest
  <2>11. w = x
    BY <1>3, <2>10, OneGreatest
  <2> QED BY <1>2, <1>8, <2>6, <2>11 DEF WrapsAs
<1> QED BY <1>7, <1>8

\* "A transaction wrapper must not hide the mutation it contains"
\* (classify_batch), for every batch: a hazardous one keeps its class inside a
\* transaction, and reads inside one are no longer a read.
THEOREM WrapperIsAlwaysTransparent == Spec => []WrapperIsTransparent
<1>1. TokensType => WrapperIsTransparent
  <2> SUFFICES ASSUME TokensType PROVE WrapperIsTransparent
    OBVIOUS
  <2> DEFINE S == Written \union {"BEGIN", ";", "ROLLBACK"}
             hazardous == Hazardous(Range(Statements(tokens)))
  <2>1. PICK s, w, rest : /\ s = tokens /\ w = Wrapped /\ rest = s \o <<";", "ROLLBACK">>
    OBVIOUS
  <2>2. PICK b, r : b = <<"BEGIN">> /\ r = <<"ROLLBACK">>
    OBVIOUS
  <2>3. Joined(S, w, b, rest) /\ Joined(S, rest, s, r)
    <3>1. PICK begin, cut, end : begin = "BEGIN" /\ cut = ";" /\ end = "ROLLBACK"
      OBVIOUS
    <3>2. Enclosed(begin, cut, end, s, rest, w) /\ b = <<begin>> /\ r = <<end>>
      BY <2>1, <2>2, <3>1 DEF Wrapped, Enclosed
    <3>3. s \in Seq(S)
      <4>1. s \in Seq(Written) /\ Written \subseteq S
        BY <2>1 DEF TokensType
      <4> HIDE DEF S
      <4> QED BY <4>1, SeqMonotonic
    <3>4. begin \in S /\ cut \in S /\ end \in S /\ cut \in Separators
      BY <3>1 DEF Separators
    <3> HIDE DEF S
    <3> QED BY <3>2, <3>3, <3>4, Wrapping
  <2> HIDE DEF S
  <2>4. /\ Balanced(b) /\ Range(Statements(b)) = {b}
        /\ Balanced(r) /\ Range(Statements(r)) = {r}
    BY <2>2, OneToken DEF Separators
  <2>5. \A t \in {b, r} : IsTransactionControl(t) /\ StatementClass(t) = "unknown"
    BY <2>2, ControlIsUnknown
  <2>6. (Balanced(w) => Balanced(s)) /\ (Balanced(s) => Balanced(w))
    <3>1. (Balanced(w) => Balanced(rest)) /\ (Balanced(rest) => Balanced(w))
      BY <2>3, <2>4, BalancedJoin
    <3>2. Balanced(rest) => Balanced(s)
      BY <2>3, <2>4, BalancedBefore
    <3>3. Balanced(s) => Balanced(rest)
      BY <2>3, <2>4, BalancedJoin
    <3> QED BY <3>1, <3>2, <3>3
  <2>7. PICK st, sw : st = Statements(s) /\ sw = Statements(w)
    OBVIOUS
  <2>8. st \in Seq(Seq(S)) /\ sw \in Seq(Seq(S))
    BY <2>3, <2>7, StatementsAre DEF Joined
  <2>9. (\E i \in DOMAIN st : ~IsTransactionControl(st[i]) /\ StatementClass(st[i]) # "read")
        <=> hazardous
    BY <2>1, <2>7 DEF Range, Hazardous
  <2>10. SUFFICES BatchClass(w, torn) = IF hazardous THEN BatchClass(s, torn)
                                        ELSE Safer("unknown", BatchClass(s, torn))
    BY <2>1, <2>7, <2>9 DEF WrapperIsTransparent
  <2>11. Safer("unknown", "unknown") = "unknown"
    BY DEF Safer
  <2>12. CASE torn \/ ~Balanced(s)
    BY <2>6, <2>11, <2>12 DEF BatchClass
  <2>13. CASE ~torn /\ Balanced(s)
    <3>1. Range(sw) = Range(st) \union {b, r}
      <4>1. StatementsOfBoth(w, b, rest)
        BY <2>3, <2>4, StatementsOfJoin
      <4>2. StatementsOfBoth(rest, s, r)
        BY <2>3, <2>13, StatementsOfJoin
      <4> QED BY <2>4, <2>7, <4>1, <4>2 DEF StatementsOfBoth
    <3>2. sw # <<>>
      <4>1. Range(sw) # {}
        BY <3>1
      <4> QED BY <2>8, <4>1, EmptyRange
    <3>3. BatchClass(w, torn) = ClassOfStatements(sw)
      BY <2>6, <2>7, <2>13, <3>2 DEF BatchClass
    <3>4. WrapsAs(st, sw)
      BY <2>5, <2>8, <3>1, WrappedClass
    <3>5. ClassOfStatements(sw) = IF hazardous THEN ClassOfStatements(st)
                                  ELSE Safer("unknown", ClassOfStatements(st))
      BY <2>1, <2>7, <3>4 DEF WrapsAs
    <3>6. CASE st # <<>>
      <4>1. BatchClass(s, torn) = ClassOfStatements(st)
        BY <2>7, <2>13, <3>6 DEF BatchClass
      <4> QED BY <3>3, <3>5, <4>1
    <3>7. CASE st = <<>>
      <4>1. BatchClass(s, torn) = "unknown"
        BY <2>7, <3>7 DEF BatchClass
      <4>2. Range(st) = {}
        BY <2>8, <3>7, EmptyRange
      <4>3. ~hazardous
        BY <2>1, <2>7, <4>2 DEF Hazardous
      <4>4. ClassOfStatements(st) = "read"
        <5>1. Counted(Range(st)) = {"read"}
          BY <4>2 DEF Counted
        <5>2. Greatest(Counted(Range(st)), ClassOfStatements(st))
          BY <2>8, ClassIsGreatest
        <5> QED BY <5>1, <5>2 DEF Greatest
      <4>5. Safer("unknown", "read") = "unknown"
        BY Ranks DEF Safer
      <4> QED BY <2>11, <3>3, <3>5, <4>1, <4>3, <4>4, <4>5
    <3> QED BY <3>6, <3>7
  <2> QED BY <2>12, <2>13
<1> QED BY <1>1, TokensAlwaysTyped, PTL

-----------------------------------------------------------------------------
(* Behind a WITH list *)

\* f[i] is leaf[i], or the value at a place behind i: from the last place down
\* to the (N - m)th.
Chases(N, A, next, leaf, f, m) ==
    /\ f \in [1 .. N -> A]
    /\ \A i \in 1 .. N : i > N - m => f[i] = IF next[i] = 0 THEN leaf[i] ELSE f[next[i]]

LEMMA Chasing ==
    ASSUME NEW N \in Nat, NEW A, NEW next \in [1 .. N -> 0 .. N], NEW leaf \in [1 .. N -> A],
           \A i \in 1 .. N : next[i] = 0 \/ next[i] > i
    PROVE  \E f : Chases(N, A, next, leaf, f, N)
<1> DEFINE T == {m \in 0 .. N : \E f : Chases(N, A, next, leaf, f, m)}
<1>1. 0 \in T
  <2>1. Chases(N, A, next, leaf, leaf, 0)
    BY DEF Chases
  <2> QED BY <2>1
<1>2. ASSUME NEW m \in 0 .. N, m \in T, m < N
      PROVE  m + 1 \in T
  <2>1. PICK f : Chases(N, A, next, leaf, f, m)
    BY <1>2
  <2>2. PICK k : k = N - m
    OBVIOUS
  <2>3. k \in 1 .. N /\ N - (m + 1) = k - 1
    BY <1>2, <2>2
  <2>4. PICK c : c = IF next[k] = 0 THEN leaf[k] ELSE f[next[k]]
    OBVIOUS
  <2>5. c \in A
    <3>1. next[k] = 0 \/ next[k] \in 1 .. N
      BY <2>3
    <3> QED BY <2>1, <2>3, <2>4, <3>1 DEF Chases
  <2>6. PICK g : g = [f EXCEPT ![k] = c]
    OBVIOUS
  <2>7. g \in [1 .. N -> A] /\ g[k] = c /\ \A i \in 1 .. N : i # k => g[i] = f[i]
    BY <2>1, <2>3, <2>5, <2>6 DEF Chases
  <2>8. ASSUME NEW i \in 1 .. N, i > k - 1
        PROVE  g[i] = IF next[i] = 0 THEN leaf[i] ELSE g[next[i]]
    <3>1. next[i] = 0 \/ (next[i] \in 1 .. N /\ next[i] # k)
      BY <2>3, <2>8
    <3>2. next[i] # 0 => g[next[i]] = f[next[i]]
      BY <2>7, <3>1
    <3>3. CASE i = k
      BY <2>4, <2>7, <3>2, <3>3
    <3>4. CASE i # k
      <4>1. i > N - m
        BY <2>2, <2>3, <2>8, <3>4
      <4>2. f[i] = IF next[i] = 0 THEN leaf[i] ELSE f[next[i]]
        BY <2>1, <4>1 DEF Chases
      <4> QED BY <2>7, <3>2, <3>4, <4>2
    <3> QED BY <3>3, <3>4
  <2>9. Chases(N, A, next, leaf, g, m + 1)
    BY <2>3, <2>7, <2>8 DEF Chases
  <2> QED BY <1>2, <2>9
<1> HIDE DEF T
<1>3. \A m \in 0 .. N : m \in T
  BY <1>1, <1>2, BoundedInduction
<1>4. N \in T
  BY <1>3
<1> QED BY <1>4 DEF T

LEMMA AfterIsBehind ==
    ASSUME NEW S, NEW s \in Seq(S), NEW i \in Nat
    PROVE  After(s, i) \in Nat /\ (After(s, i) = 0 \/ After(s, i) > i)
<1> DEFINE closing == {j \in i .. Len(s) :
                         Opened(s, j) - Opened(s, i - 1) = Closed(s, j) - Closed(s, i - 1)}
<1>1. closing \in SUBSET Nat /\ \A j \in closing : j >= i
  BY LenProperties
<1>2. After(s, i) = IF closing = {} THEN 0 ELSE Min(closing) + 1
  BY DEF After
<1> HIDE DEF closing
<1>3. CASE closing = {}
  BY <1>2, <1>3
<1>4. CASE closing # {}
  <2>1. PICK m : m = Min(closing)
    OBVIOUS
  <2>2. m \in closing
    BY <1>1, <1>4, <2>1, MinIsLeast
  <2> QED BY <1>1, <1>2, <1>4, <2>1, <2>2
<1> QED BY <1>3, <1>4

LEMMA DefinitionsEndBehind ==
    ASSUME NEW S, NEW s \in Seq(S), NEW i \in Nat
    PROVE  AfterDefinition(s, i) \in 0 .. Len(s)
           /\ (AfterDefinition(s, i) = 0 \/ AfterDefinition(s, i) > i)
<1>1. Len(s) \in Nat /\ DOMAIN s = 1 .. Len(s)
  BY LenProperties
<1>2. PICK a : a = IF At(s, i + 1, "(") THEN After(s, i + 1) ELSE i + 1
  OBVIOUS
<1>3. PICK e : e = IF At(s, a + 1, "(") THEN After(s, a + 1) ELSE 0
  OBVIOUS
<1>4. AfterDefinition(s, i) = IF /\ i \in DOMAIN s /\ s[i] \in Words \union Quoted
                                 /\ At(s, a, "AS") /\ e \in DOMAIN s
                              THEN e ELSE 0
  <2>1. a = AfterColumns(s, i + 1)
    BY <1>2 DEF AfterColumns
  <2>2. AfterBody(s, a) = IF At(s, a, "AS") THEN e ELSE 0
    BY <1>3 DEF AfterBody
  <2>3. 0 \notin DOMAIN s
    BY <1>1
  <2> QED BY <2>1, <2>2, <2>3 DEF AfterDefinition
<1>5. a \in Nat /\ (a = 0 \/ a > i)
  <2>1. i + 1 \in Nat
    OBVIOUS
  <2>2. After(s, i + 1) \in Nat /\ (After(s, i + 1) = 0 \/ After(s, i + 1) > i + 1)
    BY <2>1, AfterIsBehind
  <2> QED BY <1>2, <2>1, <2>2
<1>6. e \in Nat /\ (e = 0 \/ e > a + 1)
  <2>1. a + 1 \in Nat
    <3>1. a \in Nat
      BY <1>5
    <3> QED BY <3>1
  <2>2. After(s, a + 1) \in Nat /\ (After(s, a + 1) = 0 \/ After(s, a + 1) > a + 1)
    BY <2>1, AfterIsBehind
  <2> QED BY <1>3, <2>1, <2>2
<1>7. PICK r : r = AfterDefinition(s, i)
  OBVIOUS
<1>8. r = 0 \/ (r = e /\ a \in DOMAIN s /\ e \in DOMAIN s)
  BY <1>4, <1>7 DEF At
<1>9. CASE r = e /\ a \in DOMAIN s /\ e \in DOMAIN s
  <2>1. a \in Nat /\ a # 0 /\ e \in 1 .. Len(s) /\ e # 0
    BY <1>1, <1>9
  <2>2. a > i
    BY <1>5, <2>1
  <2>3. e > a + 1
    BY <1>6, <2>1
  <2>4. e > i /\ e \in 0 .. Len(s)
    BY <1>1, <2>1, <2>2, <2>3
  <2> QED BY <1>7, <1>9, <2>4
<1> QED BY <1>1, <1>7, <1>8, <1>9

\* The values final[1], ..., final[Len(s) + 1] behind CteFinal(s).
CteSteps(s, f) ==
    /\ \A i \in 1 .. Len(s) + 1 :
          f[i] = IF At(s, AfterDefinition(s, i), ",")
                 THEN f[AfterDefinition(s, i) + 1] ELSE AfterDefinition(s, i)
    /\ CteFinal(s) = f[IF At(s, 2, "RECURSIVE") THEN 3 ELSE 2]

LEMMA CteUnfold ==
    ASSUME NEW S, NEW s \in Seq(S)
    PROVE  \E f : CteSteps(s, f)
<1> DEFINE more(e) == At(s, e, ",")
           value(f) == [i \in 1 .. Len(s) + 1 |->
                          IF more(AfterDefinition(s, i)) THEN f[AfterDefinition(s, i) + 1]
                          ELSE AfterDefinition(s, i)]
           final == CHOOSE f : f = value(f)
<1>1. PICK N : N = Len(s) + 1
  OBVIOUS
<1>2. N \in Nat /\ N = Len(s) + 1 /\ Len(s) \in Nat
  BY <1>1, LenProperties
<1>3. PICK e : e = [i \in 1 .. N |-> AfterDefinition(s, i)]
  OBVIOUS
<1>4. \A i \in 1 .. N : e[i] = AfterDefinition(s, i) /\ e[i] \in 0 .. Len(s) /\ (e[i] = 0 \/ e[i] > i)
  <2> SUFFICES ASSUME NEW i \in 1 .. N
               PROVE  /\ e[i] = AfterDefinition(s, i) /\ e[i] \in 0 .. Len(s)
                      /\ (e[i] = 0 \/ e[i] > i)
    OBVIOUS
  <2>1. i \in Nat
    BY <1>2
  <2> QED BY <1>3, <2>1, DefinitionsEndBehind
<1>5. PICK next : next = [i \in 1 .. N |-> IF more(e[i]) THEN e[i] + 1 ELSE 0]
  OBVIOUS
<1>6. \A i \in 1 .. N : /\ next[i] = IF more(e[i]) THEN e[i] + 1 ELSE 0
                        /\ next[i] \in 0 .. N /\ (next[i] = 0 \/ next[i] > i)
                        /\ next[i] = 0 <=> ~more(e[i])
  <2> SUFFICES ASSUME NEW i \in 1 .. N
               PROVE  /\ next[i] = IF more(e[i]) THEN e[i] + 1 ELSE 0
                      /\ next[i] \in 0 .. N /\ (next[i] = 0 \/ next[i] > i)
                      /\ next[i] = 0 <=> ~more(e[i])
    OBVIOUS
  <2>1. e[i] \in 0 .. Len(s) /\ (e[i] = 0 \/ e[i] > i)
    BY <1>4
  <2>2. next[i] = IF more(e[i]) THEN e[i] + 1 ELSE 0
    BY <1>5
  <2> HIDE DEF more
  <2>3. CASE ~more(e[i])
    BY <1>2, <2>2, <2>3
  <2>4. CASE more(e[i])
    <3>1. e[i] # 0
      <4>1. e[i] \in DOMAIN s
        BY <2>4 DEF more, At
      <4>2. 0 \notin DOMAIN s
        BY LenProperties
      <4> QED BY <4>1, <4>2
    <3> QED BY <1>2, <2>1, <2>2, <2>4, <3>1
  <2> QED BY <2>3, <2>4
<1>7. PICK f : Chases(N, Nat, next, e, f, N)
  <2>1. e \in [1 .. N -> Nat]
    BY <1>2, <1>3, <1>4
  <2>2. next \in [1 .. N -> 0 .. N]
    BY <1>5, <1>6
  <2>3. \A i \in 1 .. N : next[i] = 0 \/ next[i] > i
    BY <1>6
  <2> HIDE DEF more
  <2> QED BY <1>2, <2>1, <2>2, <2>3, Chasing
<1>8. f = value(f)
  <2>1. f \in [1 .. N -> Nat]
    BY <1>7 DEF Chases
  <2>2. ASSUME NEW i \in 1 .. N
        PROVE  f[i] = IF more(AfterDefinition(s, i)) THEN f[AfterDefinition(s, i) + 1]
                      ELSE AfterDefinition(s, i)
    <3>1. i > N - N
      BY <1>2
    <3>2. f[i] = IF next[i] = 0 THEN e[i] ELSE f[next[i]]
      BY <1>7, <3>1 DEF Chases
    <3>3. e[i] = AfterDefinition(s, i)
      BY <1>4
    <3>4. next[i] = (IF more(e[i]) THEN e[i] + 1 ELSE 0) /\ (next[i] = 0 <=> ~more(e[i]))
      BY <1>6
    <3> HIDE DEF more
    <3> QED BY <3>2, <3>3, <3>4
  <2> HIDE DEF more
  <2> QED BY <1>1, <2>1, <2>2
<1>9. final = value(final)
  <2> HIDE DEF value
  <2> QED BY <1>8
<1>10. CteFinal(s) = final[IF At(s, 2, "RECURSIVE") THEN 3 ELSE 2]
  BY DEF CteFinal
<1> HIDE DEF final
<1>11. \A i \in 1 .. Len(s) + 1 :
          final[i] = IF more(AfterDefinition(s, i)) THEN final[AfterDefinition(s, i) + 1]
                     ELSE AfterDefinition(s, i)
  <2> HIDE DEF more
  <2> QED BY <1>9
<1>12. CteSteps(s, final)
  BY <1>10, <1>11 DEF CteSteps
<1> QED BY <1>12

\* WITH X AS ( SELECT ? )
OpensWithList(s) ==
    /\ s[1] = "WITH" /\ s[2] = "X" /\ s[3] = "AS" /\ s[4] = "("
    /\ s[5] = "SELECT" /\ s[6] = "?" /\ s[7] = ")"

IsBehindList(s) == s[8] # ","

LEMMA LevelsOfList ==
    ASSUME NEW s, OpensWithList(s)
    PROVE  /\ Opened(s, 3) = 0 /\ Closed(s, 3) = 0
           /\ Opened(s, 4) = 1 /\ Closed(s, 4) = 0 /\ Opened(s, 5) = 1 /\ Closed(s, 5) = 0
           /\ Opened(s, 6) = 1 /\ Closed(s, 6) = 0 /\ Opened(s, 7) = 1 /\ Closed(s, 7) = 1
<1>1. \A n : Opened(s, n) = Count(s, "(", n) /\ Closed(s, n) = Count(s, ")", n)
  BY DEF Opened, Closed, Count
<1>2. \A n \in Nat : /\ Opened(s, n + 1) = IF s[n + 1] = "(" THEN Opened(s, n) + 1 ELSE Opened(s, n)
                     /\ Closed(s, n + 1) = IF s[n + 1] = ")" THEN Closed(s, n) + 1 ELSE Closed(s, n)
  BY <1>1, CountStep
<1>3. Opened(s, 0) = 0 /\ Closed(s, 0) = 0
  BY LevelType
<1>4. Opened(s, 1) = 0 /\ Closed(s, 1) = 0
  <2>1. 0 \in Nat /\ 0 + 1 = 1
    OBVIOUS
  <2> QED BY <1>2, <1>3, <2>1 DEF OpensWithList
<1>5. Opened(s, 2) = 0 /\ Closed(s, 2) = 0
  <2>1. 1 \in Nat /\ 1 + 1 = 2
    OBVIOUS
  <2> QED BY <1>2, <1>4, <2>1 DEF OpensWithList
<1>6. Opened(s, 3) = 0 /\ Closed(s, 3) = 0
  <2>1. 2 \in Nat /\ 2 + 1 = 3
    OBVIOUS
  <2> QED BY <1>2, <1>5, <2>1 DEF OpensWithList
<1>7. Opened(s, 4) = 1 /\ Closed(s, 4) = 0
  <2>1. 3 \in Nat /\ 3 + 1 = 4 /\ 0 + 1 = 1
    OBVIOUS
  <2> QED BY <1>2, <1>6, <2>1 DEF OpensWithList
<1>8. Opened(s, 5) = 1 /\ Closed(s, 5) = 0
  <2>1. 4 \in Nat /\ 4 + 1 = 5
    OBVIOUS
  <2> QED BY <1>2, <1>7, <2>1 DEF OpensWithList
<1>9. Opened(s, 6) = 1 /\ Closed(s, 6) = 0
  <2>1. 5 \in Nat /\ 5 + 1 = 6
    OBVIOUS
  <2> QED BY <1>2, <1>8, <2>1 DEF OpensWithList
<1>10. Opened(s, 7) = 1 /\ Closed(s, 7) = 1
  <2>1. 6 \in Nat /\ 6 + 1 = 7 /\ 0 + 1 = 1
    OBVIOUS
  <2> QED BY <1>2, <1>9, <2>1 DEF OpensWithList
<1> QED BY <1>6, <1>7, <1>8, <1>9, <1>10

\* The statement behind the list is where _cte_final_token finds it.
LEMMA FinalBehindList ==
    ASSUME NEW S, NEW s \in Seq(S), Len(s) >= 8, OpensWithList(s), IsBehindList(s)
    PROVE  CteFinal(s) = 8
<1>1. Len(s) \in Nat /\ DOMAIN s = 1 .. Len(s)
  BY LenProperties
<1>2. After(s, 4) = 8
  <2> DEFINE closing == {j \in 4 .. Len(s) :
                           Opened(s, j) - Opened(s, 4 - 1) = Closed(s, j) - Closed(s, 4 - 1)}
  <2>1. 4 - 1 = 3
    OBVIOUS
  <2>2. 7 \in closing
    BY <1>1, <2>1, LevelsOfList
  <2>3. 4 \notin closing /\ 5 \notin closing /\ 6 \notin closing
    BY <2>1, LevelsOfList
  <2>4. closing \in SUBSET Nat /\ \A j \in closing : j >= 4
    BY <1>1
  <2>5. After(s, 4) = IF closing = {} THEN 0 ELSE Min(closing) + 1
    BY DEF After
  <2> HIDE DEF closing
  <2>6. \A j \in closing : 7 <= j
    <3> SUFFICES ASSUME NEW j \in closing PROVE 7 <= j
      OBVIOUS
    <3>1. j \in Nat /\ j >= 4 /\ j # 4 /\ j # 5 /\ j # 6
      BY <2>3, <2>4
    <3> QED BY <3>1
  <2>7. Min(closing) = 7
    BY <2>2, <2>4, <2>6, MinIs
  <2> QED BY <2>2, <2>5, <2>7
<1>3. AfterDefinition(s, 2) = 8
  <2>1. s[2] = "X" /\ s[3] = "AS" /\ s[4] = "("
    BY DEF OpensWithList
  <2>2. 2 + 1 = 3 /\ 3 + 1 = 4 /\ 2 \in DOMAIN s /\ 3 \in DOMAIN s /\ 4 \in DOMAIN s /\ 8 \in DOMAIN s
    BY <1>1
  <2>3. ~At(s, 3, "(") /\ At(s, 3, "AS") /\ At(s, 4, "(")
    BY <2>1, <2>2 DEF At
  <2>4. s[2] \in Words \union Quoted
    BY <2>1, TokenAssumption
  <2>5. AfterColumns(s, 2 + 1) = 3
    BY <2>2, <2>3 DEF AfterColumns
  <2>6. AfterBody(s, 3) = 8
    BY <1>2, <2>2, <2>3 DEF AfterBody
  <2> QED BY <2>2, <2>4, <2>5, <2>6 DEF AfterDefinition
<1>4. ~At(s, 2, "RECURSIVE")
  BY DEF At, OpensWithList
<1>5. PICK f : CteSteps(s, f)
  BY CteUnfold
<1>6. 2 \in 1 .. Len(s) + 1
  BY <1>1
<1>7. f[2] = IF At(s, AfterDefinition(s, 2), ",")
             THEN f[AfterDefinition(s, 2) + 1] ELSE AfterDefinition(s, 2)
  BY <1>5, <1>6 DEF CteSteps
<1>8. f[2] = 8
  BY <1>3, <1>7 DEF At, IsBehindList
<1>9. CteFinal(s) = f[2]
  BY <1>4, <1>5 DEF CteSteps
<1> QED BY <1>8, <1>9

\* s is k tokens, and t behind them.
Follows(S, s, k, t) ==
    /\ s \in Seq(S) /\ t \in Seq(S) /\ k \in Nat
    /\ Len(s) = k + Len(t)
    /\ \A j \in 1 .. Len(t) : s[k + j] = t[j]

LEMMA NextWordBehind ==
    ASSUME NEW S, NEW s, NEW k, NEW t, Follows(S, s, k, t), NEW i \in 1 .. Len(t)
    PROVE  NextWord(s, k + i) = NextWord(t, i)
<1> DEFINE Next1 == {j \in (k + i) + 1 .. Len(s) : s[j] # "."}
           Next2 == {j \in i + 1 .. Len(t) : t[j] # "."}
<1>1. /\ k \in Nat /\ Len(t) \in Nat /\ Len(s) = k + Len(t)
      /\ \A j \in 1 .. Len(t) : s[k + j] = t[j]
  BY LenProperties DEF Follows
<1>2. Next1 \in SUBSET Nat /\ Next2 \in SUBSET Nat /\ Next2 \subseteq 1 .. Len(t)
  BY <1>1
<1>3. \A j \in Next2 : k + j \in Next1
  <2> SUFFICES ASSUME NEW j \in Next2 PROVE k + j \in Next1
    OBVIOUS
  <2>1. j \in 1 .. Len(t) /\ k + j \in (k + i) + 1 .. Len(s)
    BY <1>1
  <2>2. s[k + j] = t[j] /\ t[j] # "."
    BY <1>1, <2>1
  <2> QED BY <2>1, <2>2
<1>4. \A j \in Next1 : j - k \in Next2 /\ k + (j - k) = j
  <2> SUFFICES ASSUME NEW j \in Next1 PROVE j - k \in Next2 /\ k + (j - k) = j
    OBVIOUS
  <2>1. PICK d : d = j - k
    OBVIOUS
  <2>2. d \in 1 .. Len(t) /\ d \in i + 1 .. Len(t) /\ k + d = j
    BY <1>1, <2>1
  <2>3. s[j] = t[d] /\ s[j] # "."
    BY <1>1, <2>2
  <2> QED BY <2>1, <2>2, <2>3
<1>5. NextWord(s, k + i) =
        IF Next1 = {} THEN "none"
        ELSE IF s[Min(Next1)] \in Words THEN s[Min(Next1)]
        ELSE IF s[Min(Next1)] \in Quoted THEN Name[s[Min(Next1)]] ELSE "none"
  BY DEF NextWord
<1>6. NextWord(t, i) =
        IF Next2 = {} THEN "none"
        ELSE IF t[Min(Next2)] \in Words THEN t[Min(Next2)]
        ELSE IF t[Min(Next2)] \in Quoted THEN Name[t[Min(Next2)]] ELSE "none"
  BY DEF NextWord
<1> HIDE DEF Next1, Next2
<1>7. CASE Next2 = {}
  <2>1. Next1 = {}
    BY <1>4, <1>7
  <2> QED BY <1>5, <1>6, <1>7, <2>1
<1>8. CASE Next2 # {}
  <2>1. PICK m : m = Min(Next2)
    OBVIOUS
  <2>2. m \in Next2 /\ \A j \in Next2 : m <= j
    BY <1>2, <1>8, <2>1, MinIsLeast
  <2>3. PICK n : n = k + m
    OBVIOUS
  <2>4. n \in Next1
    BY <1>3, <2>2, <2>3
  <2>5. \A j \in Next1 : n <= j
    <3> SUFFICES ASSUME NEW j \in Next1 PROVE n <= j
      OBVIOUS
    <3>1. PICK d : d = j - k
      OBVIOUS
    <3>2. d \in Next2 /\ k + d = j
      BY <1>4, <3>1
    <3>3. m <= d
      BY <2>2, <3>2
    <3>4. m \in Nat /\ d \in Nat
      BY <1>2, <2>2, <3>2
    <3> QED BY <1>1, <2>3, <3>2, <3>3, <3>4
  <2>6. Min(Next1) = n
    BY <1>2, <2>4, <2>5, MinIs
  <2>7. s[n] = t[m]
    BY <1>1, <1>2, <2>2, <2>3
  <2> QED BY <1>5, <1>6, <1>8, <2>1, <2>4, <2>6, <2>7
<1> QED BY <1>7, <1>8

LEMMA CopyClassBehind ==
    ASSUME NEW S, NEW s, NEW k, NEW t, Follows(S, s, k, t), NEW i \in 1 .. Len(t)
    PROVE  CopyClass(s, k + i) = CopyClass(t, i)
<1>1. /\ k \in Nat /\ Len(t) \in Nat /\ Len(s) = k + Len(t)
      /\ \A j \in 1 .. Len(t) : t[j] \in S /\ s[k + j] = t[j]
  BY LenProperties DEF Follows
<1>2. PICK n : n = Len(t)
  OBVIOUS
<1>3. i \in Int /\ n \in Int /\ k \in Int /\ \A j \in i .. n : t[j] \in S /\ s[k + j] = t[j]
  BY <1>1, <1>2
<1>4. SubSeq(s, k + i, k + n) = SubSeq(t, i, n)
  BY <1>3, SubSeqSame
<1>5. SubSeq(s, k + i, Len(s)) = SubSeq(t, i, Len(t))
  BY <1>1, <1>2, <1>4
<1> QED BY <1>5 DEF CopyClass

\* A word is judged by itself and what follows.
LEMMA ClassesBehind ==
    ASSUME NEW S, NEW s, NEW k, NEW t, Follows(S, s, k, t), NEW i \in 1 .. Len(t)
    PROVE  /\ IsVerb(s, k + i) <=> IsVerb(t, i)
           /\ VerbClass(s, k + i) = VerbClass(t, i)
           /\ DangerAt(s, k + i) = DangerAt(t, i)
<1>1. PICK j : j = k + i
  OBVIOUS
<1>2. s[j] = t[i]
  BY <1>1 DEF Follows
<1>3. NextWord(s, j) = NextWord(t, i) /\ CopyClass(s, j) = CopyClass(t, i)
  BY <1>1, NextWordBehind, CopyClassBehind
<1>4. IsVerb(s, j) <=> IsVerb(t, i)
  BY <1>2, <1>3 DEF IsVerb
<1>5. OnPrivileged(s, j) = OnPrivileged(t, i)
  BY <1>3 DEF OnPrivileged
<1>6. VerbClass(s, j) = VerbClass(t, i)
  <2>1. PICK x : x = t[i]
    OBVIOUS
  <2>2. CASE ~IsVerb(t, i)
    BY <1>4, <2>2 DEF VerbClass
  <2>3. CASE IsVerb(t, i)
    <3>1. PICK ddl, copy : /\ ddl = IF OnPrivileged(t, i) THEN "privileged" ELSE "ddl"
                           /\ copy = CopyClass(t, i)
      OBVIOUS
    <3>2. VerbClass(t, i) = CASE x \in Mutations \union {"BULK"} -> "mutation"
                              [] x \in Definitions \union {"TRUNCATE", "RENAME"} -> ddl
                              [] x = "COMMENT"         -> "ddl"
                              [] x = "COPY"            -> copy
                              [] x \in Administration  -> "privileged"
                              [] x \in Executions      -> "procedure_exec"
                              [] x \in UnknownStarts   -> "unknown"
      BY <2>1, <2>3, <3>1 DEF VerbClass
    <3>3. VerbClass(s, j) = CASE x \in Mutations \union {"BULK"} -> "mutation"
                              [] x \in Definitions \union {"TRUNCATE", "RENAME"} -> ddl
                              [] x = "COMMENT"         -> "ddl"
                              [] x = "COPY"            -> copy
                              [] x \in Administration  -> "privileged"
                              [] x \in Executions      -> "procedure_exec"
                              [] x \in UnknownStarts   -> "unknown"
      BY <1>2, <1>3, <1>4, <1>5, <2>1, <2>3, <3>1 DEF VerbClass
    <3> QED BY <3>2, <3>3
  <2> QED BY <2>2, <2>3
<1>7. DangerAt(s, j) = DangerAt(t, i)
  BY <1>2, <1>4, <1>6 DEF DangerAt
<1> QED BY <1>1, <1>4, <1>6, <1>7

LEMMA WordsBehind ==
    ASSUME NEW S, NEW s, NEW k, NEW t, Follows(S, s, k, t), NEW word, HasWord(t, word)
    PROVE  HasWord(s, word)
<1>1. PICK i \in DOMAIN t : t[i] = word
  BY DEF HasWord
<1>2. /\ k \in Nat /\ Len(t) \in Nat /\ Len(s) = k + Len(t)
      /\ DOMAIN t = 1 .. Len(t) /\ DOMAIN s = 1 .. Len(s)
  BY LenProperties DEF Follows
<1>3. PICK j : j = k + i
  OBVIOUS
<1>4. j \in DOMAIN s
  BY <1>2, <1>3
<1>5. s[j] = word
  BY <1>1, <1>2, <1>3 DEF Follows
<1> QED BY <1>4, <1>5 DEF HasWord

\* Behind a WITH list a statement that is not one is at least as hazardous.
LEMMA ListNeverLowers ==
    ASSUME NEW S, NEW s, NEW t, Follows(S, s, 7, t), OpensWithList(s), t # <<>>,
           t[1] \in (Words \union Quoted) \ {"WITH"}
    PROVE  Rank[StatementClass(s)] >= Rank[StatementClass(t)]
<1>1. /\ s \in Seq(S) /\ t \in Seq(S) /\ Len(t) \in Nat /\ Len(s) = 7 + Len(t) /\ Len(t) # 0
  BY LenProperties, EmptySeq DEF Follows
<1>2. 1 \in 1 .. Len(t) /\ 7 + 1 = 8 /\ Len(s) >= 8 /\ Len(s) \in Nat
  BY <1>1
<1>3. s[8] = t[1]
  BY <1>2 DEF Follows
<1>4. CteFinal(s) = 8
  <2>1. IsBehindList(s)
    BY <1>3, TokenAssumption DEF IsBehindList, Symbols
  <2> QED BY <1>1, <1>2, <2>1, FinalBehindList
<1>5. IsVerb(s, 8) <=> IsVerb(t, 1)
  BY <1>2, ClassesBehind
<1>6. VerbClass(s, 8) = VerbClass(t, 1)
  BY <1>2, ClassesBehind
<1>7. FirstClass(s) = IF t[1] = "SELECT" THEN SelectClass(s) ELSE VerbClass(t, 1)
  <2>1. s[1] = "WITH"
    BY DEF OpensWithList
  <2>2. FirstClass(s) = FinalClass(s, 8)
    BY <1>4, <2>1 DEF FirstClass
  <2> QED BY <1>3, <1>6, <2>2 DEF FinalClass
<1>8. Rank[FirstClass(s)] >= Rank[FirstClass(t)]
  <2>1. CASE t[1] = "SELECT"
    <3>1. FirstClass(s) = SelectClass(s) /\ FirstClass(t) = SelectClass(t)
      BY <1>7, <2>1 DEF FirstClass
    <3>2. HasWord(t, "INTO") => HasWord(s, "INTO")
      BY WordsBehind
    <3> QED BY <3>1, <3>2, Ranks DEF SelectClass
  <2>2. CASE t[1] # "SELECT"
    <3>1. FirstClass(s) = VerbClass(t, 1)
      BY <1>7, <2>2
    <3>2. FirstClass(t) = IF IsVerb(t, 1) THEN VerbClass(t, 1) ELSE "procedure_exec"
      BY <2>2 DEF FirstClass
    <3>3. CASE IsVerb(t, 1)
      <4>1. PICK c : c = VerbClass(t, 1)
        OBVIOUS
      <4>2. c \in Classes
        BY <4>1, VerbClassType
      <4>3. Rank[c] >= Rank[c]
        BY <4>2, ClassNames, Ranks
      <4> QED BY <3>1, <3>2, <3>3, <4>1, <4>3
    <3>4. CASE ~IsVerb(t, 1)
      <4>1. VerbClass(t, 1) = "unknown"
        BY <3>4 DEF VerbClass
      <4> QED BY <3>1, <3>2, <3>4, <4>1, Ranks
    <3> QED BY <3>3, <3>4
  <2> QED BY <2>1, <2>2
<1>9. \A c \in ClassesIn(t) : \E d \in ClassesIn(s) : Rank[d] >= Rank[c]
  <2> SUFFICES ASSUME NEW c \in ClassesIn(t) PROVE \E d \in ClassesIn(s) : Rank[d] >= Rank[c]
    OBVIOUS
  <2>1. CASE c = FirstClass(t)
    BY <1>8, <2>1 DEF ClassesIn
  <2>2. CASE c \in {DangerAt(t, i) : i \in 1 .. Len(t)}
    <3>1. PICK i \in 1 .. Len(t) : c = DangerAt(t, i)
      BY <2>2
    <3>2. PICK j : j = 7 + i
      OBVIOUS
    <3>3. c = DangerAt(s, j) /\ j \in 1 .. Len(s)
      BY <1>1, <3>1, <3>2, ClassesBehind
    <3>4. c \in ClassesIn(s)
      BY <3>3 DEF ClassesIn
    <3>5. c \in Classes
      BY <3>1, DangerType
    <3>6. Rank[c] >= Rank[c]
      BY <3>5, ClassNames, Ranks
    <3> QED BY <3>4, <3>6
  <2> QED BY <2>1, <2>2 DEF ClassesIn
<1>10. PICK v, w : v = StatementClass(t) /\ w = StatementClass(s)
  OBVIOUS
<1>11. /\ ClassesIn(t) \in SUBSET Classes /\ Greatest(ClassesIn(t), v)
  BY <1>1, <1>10, StatementIsGreatest
<1>12. /\ ClassesIn(s) \in SUBSET Classes /\ Greatest(ClassesIn(s), w)
  <2>1. s # <<>>
    BY <1>1, <1>2, EmptySeq
  <2> QED BY <1>1, <1>10, <2>1, StatementIsGreatest
<1>13. PICK d \in ClassesIn(s) : Rank[d] >= Rank[v]
  BY <1>9, <1>11 DEF Greatest
<1>14. Order[d] <= Order[w] /\ d \in Classes /\ w \in Classes /\ v \in Classes
  BY <1>11, <1>12 DEF Greatest
<1>15. Rank[w] >= Rank[v]
  BY <1>13, <1>14, ClassNames, Ranks, Orders
<1> QED BY <1>10, <1>15

\* s is the list p, and t behind it.
BehindList(S, s, p, t) == Follows(S, s, 7, t) /\ \A i \in 1 .. 7 : s[i] = p[i]

LEMMA ListFollows ==
    ASSUME NEW S, NEW p \in Seq(S), Len(p) = 7, NEW t \in Seq(S), NEW s, s = p \o t
    PROVE  BehindList(S, s, p, t)
<1>2. PICK n : n = Len(t)
  OBVIOUS
<1>3. n \in Nat
  BY <1>2, LenProperties
<1>4. /\ s \in Seq(S) /\ Len(s) = 7 + n
      /\ \A i \in 1 .. 7 + n : s[i] = IF i <= 7 THEN p[i] ELSE t[i - 7]
  <2>1. Appended(S, p, t, s)
    BY AppendedIs
  <2> QED BY <1>2, <2>1 DEF Appended
<1>5. \A i \in 1 .. 7 : s[i] = p[i]
  <2> SUFFICES ASSUME NEW i \in 1 .. 7 PROVE s[i] = p[i]
    OBVIOUS
  <2>1. i \in 1 .. 7 + n /\ i <= 7
    BY <1>3
  <2> QED BY <1>4, <2>1
<1>6. ASSUME NEW j \in 1 .. n PROVE s[7 + j] = t[j]
  <2>1. PICK i : i = 7 + j
    OBVIOUS
  <2>2. i \in 1 .. 7 + n /\ ~(i <= 7) /\ i - 7 = j
    BY <1>3, <2>1
  <2>3. s[i] = t[i - 7]
    BY <1>4, <2>2
  <2> QED BY <2>1, <2>2, <2>3
<1>7. Follows(S, s, 7, t)
  BY <1>2, <1>4, <1>6 DEF Follows
<1> QED BY <1>5, <1>7 DEF BehindList

\* test_cte_final_statement_controls_allowlist, for every batch: behind a WITH
\* list no statement of it is taken for a safer one.
THEOREM CteNeverLowersAny == Spec => []CteNeverLowers
<1>1. TokensType => CteNeverLowers
  <2> SUFFICES ASSUME TokensType, NEW i \in DOMAIN Statements(tokens),
                      Statements(tokens)[i][1] \in (Words \union Quoted) \ {"WITH"}
               PROVE  Rank[StatementClass(<<"WITH", "X", "AS", "(", "SELECT", "?", ")">>
                                          \o Statements(tokens)[i])]
                        >= Rank[StatementClass(Statements(tokens)[i])]
    BY DEF CteNeverLowers
  <2>1. PICK t : t = Statements(tokens)[i]
    OBVIOUS
  <2>2. PICK s : s = <<"WITH", "X", "AS", "(", "SELECT", "?", ")">> \o t
    OBVIOUS
  <2> DEFINE S == Written \union {"WITH", "X", "AS", "(", "SELECT", "?", ")"}
  <2>3. t \in Seq(S) /\ t # <<>>
    <3>1. PICK u : u = tokens
      OBVIOUS
    <3>2. u \in Seq(Written)
      BY <3>1 DEF TokensType
    <3>3. t \in Range(Statements(u))
      BY <2>1, <3>1 DEF Range
    <3>4. IsStatement(u, t)
      BY <3>2, <3>3, StatementsAre
    <3>5. t \in Seq(Written) /\ t # <<>>
      BY <3>2, <3>4, StatementBegins
    <3>6. Written \subseteq S
      OBVIOUS
    <3> HIDE DEF S
    <3> QED BY <3>5, <3>6, SeqMonotonic
  <2>4. PICK a, b, c, d, e, f, g :
           /\ a = "WITH" /\ b = "X" /\ c = "AS" /\ d = "(" /\ e = "SELECT"
           /\ f = "?" /\ g = ")"
    OBVIOUS
  <2>5. a \in S /\ b \in S /\ c \in S /\ d \in S /\ e \in S /\ f \in S /\ g \in S
    BY <2>4
  <2>6. PICK p : p = <<a, b, c, d, e, f, g>>
    OBVIOUS
  <2>7. s = p \o t
    BY <2>2, <2>4, <2>6
  <2> HIDE DEF S
  <2>8. BehindList(S, s, p, t)
    <3>1. p \in Seq(S) /\ Len(p) = 7
      BY <2>5, <2>6
    <3> QED BY <2>3, <2>7, <3>1, ListFollows
  <2>9. OpensWithList(s)
    <3>1. /\ s[1] = p[1] /\ s[2] = p[2] /\ s[3] = p[3] /\ s[4] = p[4]
          /\ s[5] = p[5] /\ s[6] = p[6] /\ s[7] = p[7]
      BY <2>8 DEF BehindList
    <3>2. /\ p[1] = a /\ p[2] = b /\ p[3] = c /\ p[4] = d /\ p[5] = e /\ p[6] = f /\ p[7] = g
      BY <2>6
    <3>3. /\ s[1] = a /\ s[2] = b /\ s[3] = c /\ s[4] = d /\ s[5] = e /\ s[6] = f /\ s[7] = g
      BY <3>1, <3>2
    <3> QED BY <2>4, <3>3 DEF OpensWithList
  <2>10. t[1] \in (Words \union Quoted) \ {"WITH"}
    BY <2>1
  <2>11. Rank[StatementClass(s)] >= Rank[StatementClass(t)]
    BY <2>3, <2>8, <2>9, <2>10, ListNeverLowers DEF BehindList
  <2> QED BY <2>1, <2>2, <2>11
<1> QED BY <1>1, TokensAlwaysTyped, PTL
=============================================================================
