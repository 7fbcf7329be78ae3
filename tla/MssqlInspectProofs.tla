------------------------- MODULE MssqlInspectProofs -------------------------
(***************************************************************************)
(* Proofs about MssqlInspect: what a capture claims is justified by what   *)
(* the database was, for every registry, scope and number of changes.      *)
(***************************************************************************)
EXTENDS MssqlInspect, TLAPS

-----------------------------------------------------------------------------
(* Types *)

\* the parts of a run, as its actions change them
LEMMA RunParts ==
    ASSUME TypeOK
    PROVE  /\ \A pc : run' = [run EXCEPT !.pc = pc] =>
                 /\ run'.pc = pc /\ run'.query = run.query /\ run'.item = run.item
                 /\ run'.proven = run.proven
           /\ run.query \in 1 .. Len(Registry) + 1 /\ run.item \in Nat \ {0}
           /\ Len(Registry) \in Nat
BY CatalogAssumption DEF TypeOK

\* an item list is a nonempty sequence of names of scope items
LEMMA ItemsType ==
    ASSUME TypeOK, NEW q
    PROVE  /\ ItemsFor(q) \in Seq({"all"} \union DOMAIN Covers)
           /\ Len(ItemsFor(q)) \in Nat \ {0}
<1> DEFINE Items == {"all"} \union DOMAIN Covers
<1>1. args.scope \in Seq(DOMAIN Covers) /\ args.scope # <<>>
  BY CommandAssumption DEF TypeOK
<1>2. args.scope \in Seq(Items) /\ Len(args.scope) \in Nat \ {0}
  BY <1>1
<1>3. <<"all">> \in Seq(Items) /\ Len(<<"all">>) = 1
  OBVIOUS
<1> HIDE DEF Items
<1>4. ItemsFor(q) \in Seq(Items) /\ Len(ItemsFor(q)) \in Nat \ {0}
  <2>1. CASE ItemsFor(q) = <<"all">>
    BY <2>1, <1>3
  <2>2. CASE ItemsFor(q) = args.scope
    BY <2>2, <1>2
  <2> QED BY <2>1, <2>2 DEF ItemsFor
<1> QED BY <1>4 DEF Items

Runs == [pc : Ended \union Working \union {"opening", "closed", "rendering"},
         query : 1 .. Len(Registry) + 1, item : Nat \ {0},
         proven : [Permissions -> {"null", "yes", "no"}]]

Databases == [exists : SUBSET Objects, place : [Objects -> Objects],
              encrypted : SUBSET Encrypted, denied : SUBSET Denied,
              granted : [Permissions -> BOOLEAN], changes : 0 .. MaxChanges]

\* what Advance does: the next item, or the next query, which is the first
\* one not made
LEMMA AdvanceEffect ==
    ASSUME TypeOK, AtQuery, NEW r, r = Advance(run)
    PROVE  /\ r \in Runs /\ r.pc = run.pc /\ r.proven = run.proven
           /\ \/ /\ Requested(Category[Registry[run.query]])
                 /\ run.item < Len(ItemsFor(Registry[run.query]))
                 /\ r.query = run.query /\ r.item = run.item + 1
              \/ /\ ~(/\ Requested(Category[Registry[run.query]])
                      /\ run.item < Len(ItemsFor(Registry[run.query])))
                 /\ r.query = run.query + 1 /\ r.item = 1
           /\ r.item <= (IF r.query > Len(Registry) THEN 1
                         ELSE Len(ItemsFor(Registry[r.query])))
<1>1. run \in Runs /\ Len(Registry) \in Nat /\ run.query <= Len(Registry)
  BY CatalogAssumption DEF TypeOK, AtQuery, Runs
<1>2. \A q : Len(ItemsFor(q)) \in Nat \ {0}
  BY ItemsType
<1>3. CASE /\ Requested(Category[Registry[run.query]])
           /\ run.item < Len(ItemsFor(Registry[run.query]))
  <2>1. r = [run EXCEPT !.item = @ + 1]
    BY <1>3 DEF Advance
  <2> QED BY <2>1, <1>1, <1>2, <1>3 DEF Runs
<1>4. CASE ~(/\ Requested(Category[Registry[run.query]])
             /\ run.item < Len(ItemsFor(Registry[run.query])))
  <2> DEFINE next == run.query + 1
  <2>1. r = [run EXCEPT !.query = next, !.item = 1]
    BY <1>4 DEF Advance
  <2>2. next \in 1 .. Len(Registry) + 1
    BY <1>1 DEF Runs
  <2>5. 1 \in Nat \ {0}
    OBVIOUS
  <2> HIDE DEF next
  <2>3. r \in Runs /\ r.pc = run.pc /\ r.proven = run.proven
        /\ r.query = next /\ r.item = 1
    BY <2>1, <2>2, <2>5, <1>1 DEF Runs
  <2>4. 1 <= (IF r.query > Len(Registry) THEN 1 ELSE Len(ItemsFor(Registry[r.query])))
    BY <1>2
  <2> QED BY <2>3, <2>4, <1>4 DEF next
<1> QED BY <1>3, <1>4

\* the execution at hand is one of the registry's
LEMMA PresentExecution ==
    ASSUME TypeOK, AtQuery
    PROVE  /\ run.query \in DOMAIN Registry
           /\ Registry[run.query] \in Queries
           /\ run.item \in DOMAIN ItemsFor(Registry[run.query])
           /\ <<Registry[run.query], ItemsFor(Registry[run.query])[run.item]>> \in Executions
<1> DEFINE q == Registry[run.query]
           Items == {"all"} \union DOMAIN Covers
<1>1. run.query \in DOMAIN Registry /\ run.item \in Nat \ {0} /\ ~(run.query > Len(Registry))
  BY CatalogAssumption DEF TypeOK, AtQuery
<1>2. q \in Queries
  BY <1>1 DEF Queries
<1>3. ItemsFor(q) \in Seq(Items) /\ Len(ItemsFor(q)) \in Nat
  BY ItemsType
<1> HIDE DEF Items
<1>4. run.item \in 1 .. Len(ItemsFor(q))
  BY <1>1, <1>3 DEF TypeOK
<1>5. run.item \in DOMAIN ItemsFor(q) /\ ItemsFor(q)[run.item] \in Items
  BY <1>3, <1>4
<1> QED BY <1>1, <1>2, <1>5 DEF Executions, Items

LEMMA TypeInit == Init => TypeOK
<1> SUFFICES ASSUME Init PROVE TypeOK
  OBVIOUS
<1>1. run \in Runs /\ run.query = 1 /\ run.item = 1
  BY CatalogAssumption DEF Init, Runs, Working
<1>2. \A q : 1 <= Len(ItemsFor(q))
  <2>1. args.scope # <<>> /\ args.scope \in Seq(DOMAIN Covers)
    BY CommandAssumption DEF Init
  <2>2. Len(args.scope) \in Nat \ {0} /\ Len(<<"all">>) = 1
    BY <2>1
  <2> QED BY <2>2 DEF ItemsFor
<1>3. db \in Databases
  BY CatalogAssumption DEF Init, Databases
<1>4. rows = [q \in Queries |-> {}] /\ failed = {} /\ done = {}
  BY DEF Init
<1> QED BY <1>1, <1>2, <1>3, <1>4 DEF Init, TypeOK, Runs, Databases

\* what an execution does
LEMMA ExecuteEffect ==
    ASSUME TypeOK, Execute
    PROVE  \E q \in Queries, item \in {"all"} \union DOMAIN Covers :
             /\ q = Registry[run.query] /\ item = ItemsFor(q)[run.item]
             /\ Requested(Category[q])
             /\ \/ /\ \E answer \in Answer(q, item) : rows' = [rows EXCEPT ![q] = @ \union answer]
                   /\ done' = done \union {<<q, item>>} /\ failed' = failed
                \/ /\ failed' = failed \union {<<q, item>>}
                   /\ rows' = rows /\ done' = done
<1> DEFINE q == Registry[run.query]
           x == <<q, ItemsFor(q)[run.item]>>
<1>1. AtQuery /\ Requested(Category[q])
  BY DEF Execute
<1>2. q \in Queries /\ x[2] \in {"all"} \union DOMAIN Covers
  BY <1>1, PresentExecution DEF Executions
<1>3. \/ /\ \E answer \in Answer(q, x[2]) : rows' = [rows EXCEPT ![q] = @ \union answer]
         /\ done' = done \union {x} /\ failed' = failed
      \/ /\ failed' = failed \union {x}
         /\ rows' = rows /\ done' = done
  BY DEF Execute
<1> QED BY <1>1, <1>2, <1>3

LEMMA AnswerType ==
    ASSUME TypeOK, NEW q \in Queries, NEW item, NEW answer \in Answer(q, item)
    PROVE  /\ answer \subseteq Rows(q)
           /\ \A r \in answer : /\ r.object \in (db.exists \intersect Lists[q]) \ db.denied
                                /\ r.place = db.place[r.object]
<1> DEFINE listed == (db.exists \intersect Lists[q] \intersect Covers[item]) \ db.denied
           full == {[object |-> o, place |-> db.place[o]] : o \in listed}
<1>1. answer \subseteq full
  BY DEF Answer
<1>2. db.place \in [Objects -> Objects] /\ Lists[q] \subseteq Objects
  BY CatalogAssumption DEF TypeOK
<1>3. \A r \in full : r \in Rows(q)
  BY <1>2 DEF Rows
<1>4. \A r \in full : /\ r.object \in (db.exists \intersect Lists[q]) \ db.denied
                      /\ r.place = db.place[r.object]
  OBVIOUS
<1> QED BY <1>1, <1>3, <1>4

\* the parts of a type-correct state
Scanned ==
    /\ DOMAIN rows = Queries /\ \A q \in Queries : rows[q] \subseteq Rows(q)
    /\ failed \subseteq Executions /\ done \subseteq Executions

Placed ==
    run \in Runs /\ run.item <= (IF run.query > Len(Registry) THEN 1
                                 ELSE Len(ItemsFor(Registry[run.query])))

SourceTyped == db \in Databases /\ steady \subseteq db.exists /\ lapsed \subseteq Permissions

LEMMA TypeParts ==
    TypeOK <=> /\ Scanned /\ Placed /\ SourceTyped
               /\ args \in Commands /\ {json, md} \subseteq {"none", "torn", "whole"}
BY DEF TypeOK, Scanned, Placed, SourceTyped, Runs, Databases

\* the commands' steps go to a known place in the program
LEMMA OnlyPc ==
    ASSUME TypeOK, Open \/ (\E known \in BOOLEAN : CheckTarget(known)) \/ CloseSession
                     \/ OpenJson \/ WriteJson \/ OpenMarkdown \/ WriteMarkdown \/ Die
    PROVE  /\ run' = [run EXCEPT !.pc = run'.pc] /\ run' \in Runs
           /\ UNCHANGED <<source, args, capture>>
<1>1. \E pc \in Ended \union Working \union {"closed", "rendering", "opening"} : 
          run' = [run EXCEPT !.pc = pc]
  <2>1. run = [run EXCEPT !.pc = run.pc] /\ run.pc \in Ended \union Working \union {"closed", "rendering", "opening"}
    BY DEF TypeOK
  <2> QED BY <2>1 DEF Open, CheckTarget, CloseSession, OpenJson, WriteJson, OpenMarkdown,
               WriteMarkdown, Die, Goto, Ended, Working
<1>2. run \in Runs
  BY DEF TypeOK, Runs
<1>3. PICK pc \in Ended \union Working \union {"closed", "rendering", "opening"} : 
          run' = [run EXCEPT !.pc = pc]
  BY <1>1
<1>4. run'.pc = pc /\ run' \in Runs
  BY <1>2, <1>3 DEF Runs
<1>5. UNCHANGED <<source, args, capture>>
  BY DEF Open, CheckTarget, CloseSession, OpenJson, WriteJson, OpenMarkdown,
         WriteMarkdown, Die
<1> QED BY <1>3, <1>4, <1>5

LEMMA TypeStep == TypeOK /\ [Next]_vars => TypeOK'
<1> SUFFICES ASSUME TypeOK, [Next]_vars PROVE TypeOK'
  OBVIOUS
<1>0. Scanned /\ Placed /\ SourceTyped /\ args \in Commands
  BY TypeParts
<1>t. Scanned' /\ Placed' /\ SourceTyped' /\ args' \in Commands
        /\ {json', md'} \subseteq {"none", "torn", "whole"} => TypeOK'
  BY DEF TypeOK, Scanned, Placed, SourceTyped, Runs, Databases
<1>f. {json, md} \subseteq {"none", "torn", "whole"}
  BY DEF TypeOK
<1>1. ASSUME Open \/ (\E known \in BOOLEAN : CheckTarget(known)) \/ CloseSession
               \/ OpenJson \/ WriteJson \/ OpenMarkdown \/ WriteMarkdown \/ Die
      PROVE  TypeOK'
  <2>1. /\ run' = [run EXCEPT !.pc = run'.pc] /\ run' \in Runs
        /\ UNCHANGED <<source, args, capture>>
    BY <1>1, OnlyPc
  <2>2. run'.query = run.query /\ run'.item = run.item
    BY <2>1, <1>0 DEF Placed, Runs
  <2>3. Placed'
    BY <2>1, <2>2, <1>0 DEF Placed, ItemsFor
  <2>4. {json', md'} \subseteq {"none", "torn", "whole"}
    BY <1>1, <1>f DEF Open, CheckTarget, CloseSession, OpenJson, WriteJson, OpenMarkdown,
         WriteMarkdown, Die, disk
  <2> QED BY <2>1, <2>3, <2>4, <1>0, <1>t DEF source, capture, Scanned, SourceTyped
<1>2. ASSUME NEW p \in Permissions, NEW answer \in {"null", "yes", "no"}, Probe(p, answer)
      PROVE  TypeOK'
  <2>1. run' \in Runs /\ run'.query = run.query /\ run'.item = run.item
    BY <1>2, <1>0 DEF Probe, Placed, Runs, Working
  <2>2. UNCHANGED <<source, args, capture, disk>>
    BY <1>2 DEF Probe
  <2>3. Placed'
    BY <2>1, <2>2, <1>0 DEF Placed, ItemsFor
  <2> QED BY <2>2, <2>3, <1>0, <1>t, <1>f DEF source, capture, disk, Scanned, SourceTyped
<1>3. ASSUME Skip \/ Execute
      PROVE  TypeOK'
  <2>1. AtQuery /\ run' = Advance(run) /\ UNCHANGED <<source, args, disk>>
    BY <1>3 DEF Skip, Execute
  <2>2. Placed'
    BY <2>1, AdvanceEffect DEF Placed, ItemsFor
  <2>3. Scanned'
    <3>1. CASE Skip
      BY <3>1, <1>0 DEF Skip, capture, Scanned
    <3>2. CASE Execute
      <4>1. PICK q \in Queries, item \in {"all"} \union DOMAIN Covers :
             /\ \/ /\ \E answer \in Answer(q, item) : rows' = [rows EXCEPT ![q] = @ \union answer]
                   /\ done' = done \union {<<q, item>>} /\ failed' = failed
                \/ /\ failed' = failed \union {<<q, item>>}
                   /\ rows' = rows /\ done' = done
        BY <3>2, ExecuteEffect
      <4>2. \A answer \in Answer(q, item) : answer \subseteq Rows(q)
        BY AnswerType
      <4>3. <<q, item>> \in Executions
        BY DEF Executions
      <4> QED BY <4>1, <4>2, <4>3, <1>0 DEF Scanned
    <3> QED BY <1>3, <3>1, <3>2
  <2> QED BY <2>1, <2>2, <2>3, <1>0, <1>t, <1>f DEF source, disk, SourceTyped
<1>4. ASSUME NEW o \in Objects, Alter(o)
      PROVE  TypeOK'
  <2>0. PICK exists \in {db.exists \union {o}, db.exists \ {o}} :
          \E place \in Placings(exists) :
            /\ db' = [db EXCEPT !.exists = exists, !.place = place, !.changes = @ + 1]
            /\ steady' = {x \in steady \ {o} : place[x] = db.place[x]}
    BY <1>4 DEF Alter
  <2>1. PICK place \in Placings(exists) :
          /\ db' = [db EXCEPT !.exists = exists, !.place = place, !.changes = @ + 1]
          /\ steady' = {x \in steady \ {o} : place[x] = db.place[x]}
    BY <2>0
  <2>2. place \in [Objects -> Objects] /\ db.changes + 1 \in 0 .. MaxChanges
    BY <1>4, <1>0, CatalogAssumption DEF Alter, Placings, SourceTyped, Databases
  <2>3. db' \in Databases /\ db'.exists = exists
    BY <2>1, <2>2, <1>0 DEF SourceTyped, Databases
  <2>4. SourceTyped'
    BY <2>1, <2>3, <1>4, <1>0 DEF SourceTyped, Alter
  <2>5. Scanned' /\ Placed' /\ args' = args /\ UNCHANGED disk
    BY <1>4, <1>0 DEF Alter, Scanned, Placed, capture, ItemsFor
  <2> QED BY <2>4, <2>5, <1>0, <1>t, <1>f DEF disk
<1>5. ASSUME NEW p \in Permissions, Permit(p)
      PROVE  TypeOK'
  <2> DEFINE granted == [db.granted EXCEPT ![p] = ~@]
  <2>a. /\ db' = [db EXCEPT !.granted = granted, !.changes = @ + 1]
        /\ db.changes < MaxChanges
    BY <1>5 DEF Permit
  <2>b. granted \in [Permissions -> BOOLEAN]
    BY <1>0 DEF SourceTyped, Databases
  <2>c. db.changes + 1 \in 0 .. MaxChanges
    BY <2>a, <1>0, CatalogAssumption DEF SourceTyped, Databases
  <2> HIDE DEF granted
  <2>1. db' \in Databases /\ db'.exists = db.exists
    BY <2>a, <2>b, <2>c, <1>0 DEF SourceTyped, Databases
  <2>2. SourceTyped'
    BY <2>1, <1>5, <1>0 DEF SourceTyped, Permit
  <2>3. Scanned' /\ Placed' /\ args' = args /\ UNCHANGED disk
    BY <1>5, <1>0 DEF Permit, Scanned, Placed, capture, ItemsFor
  <2> QED BY <2>2, <2>3, <1>0, <1>t, <1>f DEF disk
<1>6. CASE UNCHANGED vars
  BY <1>6, <1>0, <1>t, <1>f DEF vars, Scanned, Placed, SourceTyped, ItemsFor
<1> QED BY <1>1, <1>2, <1>3, <1>4, <1>5, <1>6 DEF Next, Inspect

\* TypeOK holds in every reachable state, for every registry and command line.
THEOREM TypeCorrect == Spec => []TypeOK
BY TypeInit, TypeStep, PTL DEF Spec

-----------------------------------------------------------------------------
(* The order of the steps *)

\* where a step may lead
LEMMA PcEffect ==
    ASSUME TypeOK, Next
    PROVE  \/ run'.pc = run.pc
           \/ run'.pc = "died" /\ run.pc \notin Ended
           \/ run.pc = "opening" /\ run'.pc \in {"db_name", "blocked"}
           \/ /\ run.pc = "db_name"
              /\ run'.pc = "database" => args.expect # "other"
              /\ run'.pc \in {"database", "blocked", "raised"}
           \/ run.pc = "database" /\ run'.pc \in {"msdb", "inventory"}
           \/ run.pc = "msdb" /\ run'.pc = "inventory"
           \/ /\ run.pc = "inventory" /\ run.query > Len(Registry)
              /\ run'.pc \in {"closed", "raised"} /\ run'.query = run.query
           \/ /\ run.pc = "closed" /\ json = "torn" /\ json' = "whole"
              /\ run'.pc = (IF args.markdown THEN "rendering" ELSE "done")
           \/ run.pc = "rendering" /\ run'.pc = "done" /\ md' = "whole"
<1>1. \A pc : Goto(pc) => run'.pc = pc /\ run'.query = run.query
  BY RunParts DEF Goto
<1>2. ASSUME Open PROVE run.pc = "opening" /\ run'.pc \in {"db_name", "blocked"}
  BY <1>1, <1>2 DEF Open
<1>3. ASSUME NEW known \in BOOLEAN, CheckTarget(known)
      PROVE  /\ run.pc = "db_name"
             /\ run'.pc = "database" => args.expect # "other"
             /\ run'.pc \in {"database", "blocked", "raised"}
  BY <1>1, <1>3 DEF CheckTarget
<1>4. ASSUME NEW p \in Permissions, NEW answer, Probe(p, answer)
      PROVE  \/ run.pc = "database" /\ run'.pc \in {"msdb", "inventory"}
             \/ run.pc = "msdb" /\ run'.pc = "inventory"
  BY <1>4 DEF Probe, TypeOK, Permissions
<1>5. ASSUME Skip \/ Execute PROVE run'.pc = run.pc
  BY <1>5, AdvanceEffect DEF Skip, Execute
<1>6. ASSUME CloseSession
      PROVE  /\ run.pc = "inventory" /\ run.query > Len(Registry)
             /\ run'.pc \in {"closed", "raised"} /\ run'.query = run.query
  BY <1>1, <1>6 DEF CloseSession
<1>7. ASSUME WriteJson
      PROVE  /\ run.pc = "closed" /\ json = "torn" /\ json' = "whole"
             /\ run'.pc = (IF args.markdown THEN "rendering" ELSE "done")
  BY <1>1, <1>7 DEF WriteJson
<1>8. ASSUME WriteMarkdown
      PROVE  run.pc = "rendering" /\ run'.pc = "done" /\ md' = "whole"
  BY <1>1, <1>8 DEF WriteMarkdown
<1>9. ASSUME Die PROVE run'.pc = "died" /\ run.pc \notin Ended
  BY <1>1, <1>9 DEF Die
<1>10. ASSUME OpenJson \/ OpenMarkdown \/ (\E o \in Objects : Alter(o))
                \/ (\E p \in Permissions : Permit(p))
       PROVE  run' = run
  BY <1>10 DEF OpenJson, OpenMarkdown, Alter, Permit
<1> QED BY <1>2, <1>3, <1>4, <1>5, <1>6, <1>7, <1>8, <1>9, <1>10 DEF Next, Inspect

\* what changes only where
LEMMA FrameEffect ==
    ASSUME Next
    PROVE  /\ args' = args
           /\ capture' # capture => AtQuery
           /\ json' # json => \/ run.pc = "closed" /\ json' = "torn" /\ run' = run
                              \/ run.pc = "closed" /\ json' = "whole"
           /\ md' # md => run.pc = "rendering"
BY DEF Next, Inspect, Open, CheckTarget, Probe, Skip, Execute, CloseSession, OpenJson,
       WriteJson, OpenMarkdown, WriteMarkdown, Die, Alter, Permit, disk

\* only executing and skipping move through the registry, only probes prove
LEMMA QueryEffect ==
    ASSUME TypeOK, Next
    PROVE  \/ AtQuery /\ (Skip \/ Execute) /\ run' = Advance(run) /\ run'.pc = run.pc
              /\ run'.proven = run.proven
           \/ /\ run'.query = run.query /\ run'.item = run.item /\ UNCHANGED capture
              /\ \/ run'.proven = run.proven
                 \/ \E p \in Permissions, answer \in {"null", "yes", "no"} : Probe(p, answer)
<1>1. ASSUME Open \/ (\E known \in BOOLEAN : CheckTarget(known)) \/ CloseSession
               \/ OpenJson \/ WriteJson \/ OpenMarkdown \/ WriteMarkdown \/ Die
      PROVE  /\ run'.query = run.query /\ run'.item = run.item /\ UNCHANGED capture
             /\ run'.proven = run.proven
  BY <1>1, OnlyPc, RunParts
<1>2. ASSUME Skip \/ Execute
      PROVE  AtQuery /\ run' = Advance(run) /\ run'.pc = run.pc /\ run'.proven = run.proven
  BY <1>2, AdvanceEffect DEF Skip, Execute
<1>3. ASSUME NEW p \in Permissions, NEW answer \in {"null", "yes", "no"}, Probe(p, answer)
      PROVE  run'.query = run.query /\ run'.item = run.item /\ UNCHANGED capture
  BY <1>3 DEF Probe, TypeOK
<1>4. ASSUME (\E o \in Objects : Alter(o)) \/ (\E p \in Permissions : Permit(p))
      PROVE  run' = run /\ UNCHANGED capture
  BY <1>4 DEF Alter, Permit
<1> QED BY <1>1, <1>2, <1>3, <1>4 DEF Next, Inspect

LEMMA TargetStep == TypeOK /\ TargetInv /\ [Next]_vars => TargetInv'
<1> SUFFICES ASSUME TypeOK, TargetInv, [Next]_vars PROVE TargetInv'
  OBVIOUS
<1>1. CASE Next
  <2>1. args' = args
    BY <1>1, FrameEffect
  <2> SUFFICES ASSUME args.expect = "other"
               PROVE  /\ run'.pc \in {"opening", "db_name", "blocked", "raised", "died"}
                      /\ done' \union failed' = {} /\ json' = "none"
    BY <2>1 DEF TargetInv
  <2>2. /\ run.pc \in {"opening", "db_name", "blocked", "raised", "died"}
        /\ done \union failed = {} /\ json = "none"
    BY DEF TargetInv
  <2>3. run'.pc \in {"opening", "db_name", "blocked", "raised", "died"}
    BY <1>1, <2>2, PcEffect
  <2>4. capture' = capture /\ json' = json
    BY <1>1, <2>2, FrameEffect DEF AtQuery
  <2> QED BY <2>2, <2>3, <2>4 DEF capture
<1>2. CASE UNCHANGED vars
  BY <1>2 DEF vars, TargetInv
<1> QED BY <1>1, <1>2

LEMMA FilesStep == TypeOK /\ FilesInv /\ [Next]_vars => FilesInv'
<1> SUFFICES ASSUME TypeOK, FilesInv, [Next]_vars PROVE FilesInv'
  OBVIOUS
<1>1. CASE Next
  <2>1. args' = args
    BY <1>1, FrameEffect
  <2>2. run'.query = run.query \/ (AtQuery /\ run'.pc = "inventory")
    BY <1>1, QueryEffect DEF AtQuery
  <2>3. run'.pc \in Early => done' = {}
    BY <1>1, PcEffect, FrameEffect DEF FilesInv, Early, AtQuery, capture, Ended
  <2>4. run'.pc \in {"closed", "rendering", "done"} \/ json' # "none" => run'.query > Len(Registry)
    BY <1>1, <2>2, PcEffect, FrameEffect, RunParts DEF FilesInv, Ended, AtQuery
  <2>5. run'.pc \in Early \union {"inventory"} => json' = "none"
    BY <1>1, PcEffect, FrameEffect DEF FilesInv, Early, Ended
  <2>6. run'.pc \in Early \union {"inventory", "closed"} => md' = "none"
    BY <1>1, PcEffect, FrameEffect DEF FilesInv, Early, Ended
  <2>7. run'.pc \in {"rendering", "done"} \/ md' # "none" => json' = "whole"
    BY <1>1, PcEffect, FrameEffect DEF FilesInv, Ended
  <2>8. run'.pc = "done" /\ args'.markdown => md' = "whole"
    BY <1>1, <2>1, PcEffect, FrameEffect DEF FilesInv, Ended
  <2> QED BY <2>3, <2>4, <2>5, <2>6, <2>7, <2>8 DEF FilesInv
<1>2. CASE UNCHANGED vars
  BY <1>2 DEF vars, FilesInv
<1> QED BY <1>1, <1>2

LEMMA ProgressStep == TypeOK /\ ProgressInv /\ [Next]_vars => ProgressInv'
<1> SUFFICES ASSUME TypeOK, ProgressInv, [Next]_vars PROVE ProgressInv'
  OBVIOUS
<1>1. CASE Next
  <2>1. args' = args
    BY <1>1, FrameEffect
  <2>2. /\ \A cap : Requested(cap)' <=> Requested(cap)
        /\ \A q : ItemsFor(q)' = ItemsFor(q)
    BY <2>1 DEF Requested, ItemsFor
  <2>3. CASE run'.query = run.query /\ run'.item = run.item /\ UNCHANGED capture
    BY <2>2, <2>3 DEF ProgressInv, Passed, capture
  <2>4. CASE AtQuery /\ (Skip \/ Execute) /\ run' = Advance(run)
    <3> DEFINE q == Registry[run.query]
               x == <<q, ItemsFor(q)[run.item]>>
    <3>1. (done \union failed) \subseteq (done \union failed)'
      BY <2>4 DEF Skip, Execute, capture
    <3>2. Requested(Category[q]) => x \in (done \union failed)'
      BY <2>4 DEF Skip, Execute
    <3>3. ASSUME NEW i \in DOMAIN Registry, Requested(Category[Registry[i]]),
                 NEW j \in DOMAIN ItemsFor(Registry[i]), Passed(i, j)'
          PROVE  Passed(i, j) \/ (i = run.query /\ j = run.item)
      <4>1. i \in Nat /\ j \in Nat /\ j <= Len(ItemsFor(Registry[i]))
        BY <3>3, ItemsType, CatalogAssumption
      <4>2. run.query \in Nat /\ run.item \in Nat
        BY RunParts
      <4>3. i < run'.query \/ (i = run'.query /\ j < run'.item)
        BY <3>3 DEF Passed
      <4>4. \/ run'.query = run.query /\ run'.item = run.item + 1
            \/ /\ ~(/\ Requested(Category[q]) /\ run.item < Len(ItemsFor(q)))
               /\ run'.query = run.query + 1 /\ run'.item = 1
        BY <2>4, AdvanceEffect
      <4>5. Len(ItemsFor(q)) \in Nat
        BY ItemsType
      <4>6. j # 0
        BY ItemsType
      <4> QED BY <3>3, <4>1, <4>2, <4>3, <4>4, <4>5, <4>6 DEF Passed
    <3> QED BY <2>2, <3>1, <3>2, <3>3 DEF ProgressInv
  <2> QED BY <1>1, <2>3, <2>4, QueryEffect
<1>2. CASE UNCHANGED vars
  BY <1>2 DEF vars, ProgressInv, Passed, Requested, ItemsFor
<1> QED BY <1>1, <1>2

-----------------------------------------------------------------------------
(* The capture and the source *)

LEMMA VisibleStep == TypeOK /\ VisibleInv /\ [Next]_vars => VisibleInv'
<1> SUFFICES ASSUME TypeOK, VisibleInv, [Next]_vars, NEW p \in Permissions, Visible(p)'
             PROVE  db'.granted[p]
  BY DEF VisibleInv
<1>1. ASSUME NEW a \in Permissions, NEW answer \in {"null", "yes", "no"}, Probe(a, answer)
      PROVE  db'.granted[p]
  <2>1. run'.proven = [run.proven EXCEPT ![a] = answer] /\ db' = db /\ lapsed' = lapsed
    BY <1>1 DEF Probe, TypeOK, source
  <2>2. run.proven \in [Permissions -> {"null", "yes", "no"}]
    BY DEF TypeOK
  <2>3. CASE p = a
    BY <2>1, <2>2, <2>3, <1>1 DEF Visible, Probe
  <2>4. CASE p # a
    BY <2>1, <2>2, <2>4 DEF Visible, VisibleInv
  <2> QED BY <2>3, <2>4
<1>2. ASSUME NEW a \in Permissions, Permit(a)
      PROVE  db'.granted[p]
  <2>1. db.granted \in [Permissions -> BOOLEAN]
    BY DEF TypeOK
  <2>2. db'.granted = [db.granted EXCEPT ![a] = ~@]
    BY <1>2 DEF Permit, TypeOK
  <2>3. run' = run /\ lapsed' = IF db.granted[a] THEN lapsed \union {a} ELSE lapsed
    BY <1>2 DEF Permit
  <2>4. Visible(p)
    BY <2>3 DEF Visible
  <2> QED BY <2>1, <2>2, <2>3, <2>4 DEF Visible, VisibleInv
<1>3. ASSUME NEW o \in Objects, Alter(o)
      PROVE  db'.granted[p]
  <2>1. db'.granted = db.granted
    BY <1>3 DEF Alter, TypeOK
  <2> QED BY <1>3, <2>1 DEF Alter, Visible, VisibleInv
<1>4. ASSUME run'.proven = run.proven, UNCHANGED source
      PROVE  db'.granted[p]
  BY <1>4 DEF Visible, VisibleInv, source
<1>5. CASE UNCHANGED vars
  BY <1>4, <1>5 DEF vars, source
<1>6. ASSUME Open \/ (\E known \in BOOLEAN : CheckTarget(known)) \/ CloseSession
               \/ OpenJson \/ WriteJson \/ OpenMarkdown \/ WriteMarkdown \/ Die
      PROVE  run'.proven = run.proven /\ UNCHANGED source
  BY <1>6, OnlyPc, RunParts
<1>7. ASSUME Skip \/ Execute
      PROVE  run'.proven = run.proven /\ UNCHANGED source
  BY <1>7, AdvanceEffect DEF Skip, Execute
<1> QED BY <1>1, <1>2, <1>3, <1>4, <1>5, <1>6, <1>7 DEF Next, Inspect

\* what others do to what the capture relies on
LEMMA OthersEffect ==
    ASSUME TypeOK, NEW o \in Objects, Alter(o)
    PROVE  /\ db'.place \in Placings(db'.exists)
           /\ db'.granted = db.granted /\ db'.denied = db.denied
           /\ \A x \in steady' : x \in steady /\ db'.place[x] = db.place[x]
           /\ UNCHANGED <<run, args, lapsed, capture>>
<1>1. PICK exists \in {db.exists \union {o}, db.exists \ {o}} :
        \E place \in Placings(exists) :
          /\ db' = [db EXCEPT !.exists = exists, !.place = place, !.changes = @ + 1]
          /\ steady' = {x \in steady \ {o} : place[x] = db.place[x]}
  BY DEF Alter
<1>2. PICK place \in Placings(exists) :
        /\ db' = [db EXCEPT !.exists = exists, !.place = place, !.changes = @ + 1]
        /\ steady' = {x \in steady \ {o} : place[x] = db.place[x]}
  BY <1>1
<1>3. /\ db'.exists = exists /\ db'.place = place
      /\ db'.granted = db.granted /\ db'.denied = db.denied
  BY <1>2 DEF TypeOK
<1> QED BY <1>2, <1>3 DEF Alter

\* steps that leave source and rows alone
Quiet == UNCHANGED <<source, rows, done>>

LEMMA QuietSteps ==
    ASSUME TypeOK, [Next]_vars
    PROVE  \/ Quiet /\ run'.proven = run.proven
           \/ Execute
           \/ \E p \in Permissions, answer \in {"null", "yes", "no"} : Probe(p, answer)
           \/ \E o \in Objects : Alter(o)
           \/ \E p \in Permissions : Permit(p)
<1>1. ASSUME Open \/ (\E known \in BOOLEAN : CheckTarget(known)) \/ CloseSession
               \/ OpenJson \/ WriteJson \/ OpenMarkdown \/ WriteMarkdown \/ Die
      PROVE  Quiet /\ run'.proven = run.proven
  BY <1>1, OnlyPc, RunParts DEF Quiet, source, capture
<1>2. ASSUME Skip PROVE Quiet /\ run'.proven = run.proven
  BY <1>2, AdvanceEffect DEF Skip, Quiet, source, capture
<1>3. CASE UNCHANGED vars
  BY <1>3 DEF vars, Quiet, source
<1> QED BY <1>1, <1>2, <1>3 DEF Next, Inspect

LEMMA SteadyStep == TypeOK /\ SteadyInv /\ [Next]_vars => SteadyInv'
<1> SUFFICES ASSUME TypeOK, SteadyInv, [Next]_vars PROVE SteadyInv'
  OBVIOUS
<1>1. ASSUME Quiet PROVE SteadyInv'
  BY <1>1 DEF Quiet, source, SteadyInv
<1>2. ASSUME Execute PROVE SteadyInv'
  <2>1. UNCHANGED source
    BY <1>2 DEF Execute
  <2>2. PICK q \in Queries, item \in {"all"} \union DOMAIN Covers :
          \/ \E answer \in Answer(q, item) : rows' = [rows EXCEPT ![q] = @ \union answer]
          \/ rows' = rows
    BY <1>2, ExecuteEffect
  <2>3. ASSUME NEW a \in Queries, NEW r \in rows'[a], r \notin rows[a]
        PROVE  /\ r.object \in steady => r.place = r.object
               /\ Lists[a] \subseteq JobSteps /\ r.place \in steady => r.object = r.place
    <3>1. PICK answer \in Answer(q, item) : rows' = [rows EXCEPT ![q] = @ \union answer]
      BY <2>2, <2>3
    <3>2. a = q /\ r \in answer
      BY <3>1, <2>3 DEF TypeOK
    <3>3. r.object \in db.exists /\ r.place = db.place[r.object]
      BY <3>2, AnswerType
    <3>4. steady \subseteq db.exists /\ db.exists \subseteq Objects
      BY DEF TypeOK
    <3>5. r.object \in steady => r.place = r.object
      BY <3>3 DEF SteadyInv
    <3>6. ASSUME r.place \in steady PROVE r.object = r.place
      <4>1. db.place[r.place] = r.place
        BY <3>6 DEF SteadyInv
      <4>2. r.object # r.place => {r.object, r.place} \subseteq JobSteps
        BY <3>3, <3>4 DEF SteadyInv
      <4> QED BY <4>1, <4>2, <3>3, <3>4, <3>6 DEF SteadyInv
    <3> QED BY <3>5, <3>6
  <2> QED BY <2>1, <2>3 DEF source, SteadyInv
<1>3. ASSUME NEW p \in Permissions, NEW answer \in {"null", "yes", "no"}, Probe(p, answer)
      PROVE  SteadyInv'
  BY <1>3 DEF Probe, source, capture, SteadyInv
<1>4. ASSUME NEW o \in Objects, Alter(o) PROVE SteadyInv'
  <2>1. /\ db'.place \in Placings(db'.exists)
        /\ \A x \in steady' : x \in steady /\ db'.place[x] = db.place[x]
        /\ rows' = rows
    BY <1>4, OthersEffect DEF capture
  <2> QED BY <2>1 DEF SteadyInv, Placings
<1>5. ASSUME NEW p \in Permissions, Permit(p) PROVE SteadyInv'
  <2>1. db'.place = db.place /\ db'.exists = db.exists
    BY <1>5 DEF Permit, TypeOK
  <2> QED BY <2>1, <1>5 DEF Permit, capture, SteadyInv
<1> QED BY <1>1, <1>2, <1>3, <1>4, <1>5, QuietSteps

LEMMA CaptureStep ==
    TypeOK /\ FilesInv /\ VisibleInv /\ CaptureInv /\ [Next]_vars => CaptureInv'
<1> SUFFICES ASSUME TypeOK, FilesInv, VisibleInv, CaptureInv, [Next]_vars PROVE CaptureInv'
  OBVIOUS
<1>1. ASSUME Quiet, run'.proven = run.proven PROVE CaptureInv'
  BY <1>1 DEF Quiet, source, CaptureInv, Visible
<1>2. ASSUME Execute PROVE CaptureInv'
  <2>1. UNCHANGED source /\ run'.proven = run.proven
    BY <1>2, AdvanceEffect DEF Execute
  <2>2. PICK q \in Queries, item \in {"all"} \union DOMAIN Covers :
             \/ /\ \E answer \in Answer(q, item) : rows' = [rows EXCEPT ![q] = @ \union answer]
                /\ done' = done \union {<<q, item>>}
             \/ rows' = rows /\ done' = done
    BY <1>2, ExecuteEffect
  <2>3. \A a \in Queries : rows[a] \subseteq rows'[a]
    BY <2>2 DEF TypeOK
  <2>4. \A x \in done : x[1] \in Queries
    BY DEF TypeOK, Executions
  <2>5. ASSUME NEW x \in done', x \notin done, Visible(VisibilityOf(Category[x[1]])),
               NEW o \in (steady \intersect Lists[x[1]] \intersect Covers[x[2]]) \ db.denied
        PROVE  \E r \in rows'[x[1]] : r.object = o
    <3>1. x = <<q, item>>
      BY <2>2, <2>5
    <3>2. PICK answer \in Answer(q, item) : rows' = [rows EXCEPT ![q] = @ \union answer]
      BY <2>2, <2>5
    <3>3. db.granted[VisibilityOf(Category[q])]
      BY <2>5, <3>1 DEF VisibleInv, VisibilityOf, Permissions
    <3>4. steady \subseteq db.exists
      BY DEF TypeOK
    <3>5. [object |-> o, place |-> db.place[o]] \in answer
      BY <2>5, <3>1, <3>3, <3>4 DEF Answer
    <3>6. answer \subseteq rows'[q]
      BY <3>2 DEF TypeOK
    <3> QED BY <3>1, <3>5, <3>6
  <2> QED BY <2>1, <2>3, <2>4, <2>5 DEF source, CaptureInv, Visible
<1>3. ASSUME NEW p \in Permissions, NEW answer \in {"null", "yes", "no"}, Probe(p, answer)
      PROVE  CaptureInv'
  <2>1. done = {}
    BY <1>3 DEF Probe, FilesInv, Early, Permissions
  <2> QED BY <2>1, <1>3 DEF Probe, capture, CaptureInv
<1>4. ASSUME NEW o \in Objects, Alter(o) PROVE CaptureInv'
  <2>1. /\ db'.denied = db.denied /\ \A x \in steady' : x \in steady
        /\ UNCHANGED <<run, lapsed, capture>>
    BY <1>4, OthersEffect
  <2> QED BY <2>1 DEF CaptureInv, Visible, capture
<1>5. ASSUME NEW p \in Permissions, Permit(p) PROVE CaptureInv'
  <2>1. db'.denied = db.denied /\ UNCHANGED <<run, steady, capture>> /\ lapsed \subseteq lapsed'
    BY <1>5 DEF Permit, TypeOK
  <2> QED BY <2>1 DEF CaptureInv, Visible, capture
<1> QED BY <1>1, <1>2, <1>3, <1>4, <1>5, QuietSteps

-----------------------------------------------------------------------------
(* Theorems *)

LEMMA InvInit == Init => Inv
<1> SUFFICES ASSUME Init PROVE Inv
  OBVIOUS
<1>1. TypeOK
  BY TypeInit
<1>2. TargetInv /\ FilesInv /\ VisibleInv /\ CaptureInv
  BY DEF Init, TargetInv, FilesInv, Early, VisibleInv, Visible, CaptureInv, Permissions
<1>3. ProgressInv
  <2> SUFFICES ASSUME NEW i \in DOMAIN Registry, NEW j \in DOMAIN ItemsFor(Registry[i]),
                      Passed(i, j)
               PROVE  FALSE
    BY DEF ProgressInv
  <2>1. i \in 1 .. Len(Registry) /\ Len(Registry) \in Nat /\ j \in 1 .. Len(ItemsFor(Registry[i]))
    BY CatalogAssumption, <1>1, ItemsType
  <2>2. run.query = 1 /\ run.item = 1 /\ Len(ItemsFor(Registry[i])) \in Nat
    BY <1>1, ItemsType DEF Init
  <2> QED BY <2>1, <2>2 DEF Passed
<1>4. SteadyInv
  BY DEF Init, SteadyInv
<1> QED BY <1>1, <1>2, <1>3, <1>4 DEF Inv

\* The inductive invariant, of which no part but the first is inductive alone.
THEOREM CaptureInvariant == Spec => []Inv
<1>1. Inv /\ [Next]_vars => Inv'
  BY TypeStep, TargetStep, FilesStep, ProgressStep, VisibleStep, SteadyStep, CaptureStep DEF Inv
<1> QED BY <1>1, InvInit, PTL DEF Spec

\* With an expected database named, no inventory query reaches another one.
THEOREM WrongTargetNeverSeen == Spec => []WrongTargetSeesNothing
<1>1. Inv => WrongTargetSeesNothing
  BY DEF Inv, TargetInv, WrongTargetSeesNothing
<1> QED BY <1>1, CaptureInvariant, PTL

\* every execution of a requested capability was made once a file is written
LEMMA AllExecuted ==
    ASSUME Inv, run.query > Len(Registry), NEW q \in Queries, Requested(Category[q]),
           NEW j \in DOMAIN ItemsFor(q)
    PROVE  <<q, ItemsFor(q)[j]>> \in done \union failed
<1>1. PICK i \in DOMAIN Registry : q = Registry[i]
  BY DEF Queries
<1>2. i < run.query
  BY <1>1, CatalogAssumption, RunParts DEF Inv
<1> QED BY <1>1, <1>2 DEF Inv, ProgressInv, Passed

\* Exit code 0 means whole files and a whole capture.
THEOREM SuccessAlwaysMeansWhole == Spec => []SuccessMeansWholeCapture
<1>1. ASSUME Inv PROVE SuccessMeansWholeCapture
  <2>1. run.pc = "done" => run.query > Len(Registry)
    BY <1>1 DEF Inv, FilesInv
  <2> QED BY <1>1, <2>1, AllExecuted DEF Inv, FilesInv, SuccessMeansWholeCapture
<1> QED BY <1>1, CaptureInvariant, PTL

\* Step text is complete only beside a complete list of jobs.
THEOREM StepTextNeverAlone == Spec => []StepTextNeverOutranksJobs
<1>1. ASSUME Inv, Status("agent_job_step_text") = "COMPLETE"
      PROVE  Status("agent_jobs") = "COMPLETE"
  <2>1. /\ args.text /\ ~ParentFailed("agent_job_step_text")
        /\ run.proven["msdb"] = "yes"
    BY <1>1 DEF Status, Requested, VisibilityOf
  <2>2. Requested("agent_jobs")
    BY <1>1, <2>1, CommandAssumption DEF Inv, TypeOK, Requested
  <2>3. ~Failed("agent_jobs")
    BY <2>1, <2>2 DEF ParentFailed
  <2>4. Of("agent_jobs") \intersect Defining = {}
    BY AgentAssumption
  <2>5. Unavailable("agent_jobs") = {}
    BY <2>4 DEF Unavailable
  <2> QED BY <2>1, <2>2, <2>3, <2>5 DEF Status, ParentFailed, VisibilityOf
<1>2. Inv => StepTextNeverOutranksJobs
  BY <1>1 DEF StepTextNeverOutranksJobs
<1> QED BY <1>2, CaptureInvariant, PTL

\* what a requested query that never failed has listed in the end
LEMMA AllListed ==
    ASSUME Inv, run.query > Len(Registry), NEW q \in Queries, Requested(Category[q]),
           ~Failed(Category[q]), Visible(VisibilityOf(Category[q])),
           NEW o \in (steady \intersect Lists[q] \intersect InScope(q)) \ db.denied
    PROVE  \E r \in rows[q] : r.object = o
<1>1. PICK j \in DOMAIN ItemsFor(q) : o \in Covers[ItemsFor(q)[j]]
  BY DEF InScope
<1> DEFINE x == <<q, ItemsFor(q)[j]>>
<1>2. x \in done \union failed
  BY <1>1, AllExecuted
<1>3. x \notin failed
  BY DEF Failed
<1> QED BY <1>1, <1>2, <1>3 DEF Inv, CaptureInv

\* What a COMPLETE capability does not list was not there all the time, and the
\* text of a job step that stayed in its place is that of its own record.
THEOREM AbsenceIsAlwaysEvidence == Spec => []AbsenceIsEvidence
<1>1. ASSUME Inv, json = "whole", NEW q \in Queries,
             Status(Category[q]) = "COMPLETE", VisibilityOf(Category[q]) \notin lapsed,
             NEW o \in (steady \intersect Lists[q] \intersect InScope(q)) \ db.denied
      PROVE  \E r \in Captured(q) : r.object = o
  <2>1. /\ Requested(Category[q]) /\ ~Failed(Category[q]) /\ ~ParentFailed(Category[q])
        /\ Visible(VisibilityOf(Category[q]))
    BY <1>1 DEF Status, Visible
  <2>2. run.query > Len(Registry)
    BY <1>1 DEF Inv, FilesInv
  <2>3. PICK r \in rows[q] : r.object = o
    BY <1>1, <2>1, <2>2, AllListed
  <2>4. CASE Category[q] # "agent_job_step_text"
    BY <2>3, <2>4 DEF Captured
  <2>5. CASE Category[q] = "agent_job_step_text"
    <3>1. q = "job_step_commands" /\ "jobs" \in Queries /\ Category["jobs"] = "agent_jobs"
      BY <2>5, <1>1, AgentAssumption DEF Of
    <3>2. Requested("agent_jobs") /\ ~Failed("agent_jobs")
      BY <2>1, <2>5, <1>1, CommandAssumption DEF ParentFailed, Requested, Inv, TypeOK
    <3>3. VisibilityOf(Category["jobs"]) = VisibilityOf(Category[q])
      BY <3>1, <2>5 DEF VisibilityOf
    <3>4. InScope("jobs") = InScope(q) /\ Lists[q] \subseteq Lists["jobs"]
      BY <3>1, <3>3, AgentAssumption DEF InScope, ItemsFor
    <3>5. PICK s \in rows["jobs"] : s.object = o
      BY <1>1, <2>1, <2>2, <3>1, <3>2, <3>3, <3>4, AllListed
    <3>6. s.place = o /\ r.place = o
      BY <1>1, <2>3, <3>1, <3>5 DEF Inv, SteadyInv
    <3>7. \A x \in Attached(s) : x.object = o
      BY <1>1, <3>1, <3>4, <3>6 DEF Attached, Inv, SteadyInv, JobSteps
    <3>8. r \in Attached(s)
      BY <2>3, <3>1, <3>6 DEF Attached
    <3> QED BY <2>5, <3>5, <3>7, <3>8 DEF Captured, Merged
  <2> QED BY <2>4, <2>5
<1>2. Inv => AbsenceIsEvidence
  BY <1>1 DEF AbsenceIsEvidence
<1> QED BY <1>2, CaptureInvariant, PTL
=============================================================================
