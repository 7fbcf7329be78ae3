------------------------------ MODULE StopSync ------------------------------
(***************************************************************************)
(* Publication of the STOP policy (scripts/sync_agent_stop_conditions.py): *)
(* AGENTS.md owns the policy text, --write copies it into every agent file *)
(* between two generated markers, --check compares the copies.             *)
(*                                                                         *)
(* A file is a sequence of tokens: the H2 headings "stop" (Stop            *)
(* conditions), "STOP" (the same in another case), "esc" (Escalation),     *)
(* "hand" (Stop handling) and "h2" (any other), the markers "begin" and    *)
(* "end", policy bodies, the fenced STOP payloads, and any other text.     *)
(*                                                                         *)
(* The files are rewritten one by one, in place, and the process may end   *)
(* in the middle of any write.                                             *)
(*                                                                         *)
(* ReplaceToTheEnd and AppendUnlessMarked are faulty variants that no      *)
(* action uses.                                                            *)
(***************************************************************************)
EXTENDS Naturals, Sequences, FiniteSetsExt, Functions, Selection

CONSTANTS
    AgentPaths,     \* the agent files, sorted
    Policies,       \* well-formed canonical policies
    Payloads,       \* STOP payloads whose fields hold
    AgentTexts,     \* what the files may be at first, functions on Agents
    MaxPolicyEdits, \* bound: edits of AGENTS.md
    MaxSyncFailures \* bound: syncs that end in the middle

Agents == Range(AgentPaths)

Broken == "broken"      \* AGENTS.md without one well-formed policy

H2 == {"stop", "STOP", "esc", "hand", "h2"}

Tokens == H2 \union {"begin", "end", "x"} \union Policies \union Payloads

\* A policy is a list of SC entries, without headings and generated markers.
ASSUME SyncAssumption ==
    /\ AgentPaths \in Seq(Agents)
    /\ AgentTexts \subseteq [Agents -> Seq(Tokens)]
    /\ Policies \intersect (H2 \union {"begin", "end", Broken}) = {}
    /\ MaxPolicyEdits \in Nat /\ MaxSyncFailures \in Nat

VARIABLES
    agentsMd,       \* the policy of AGENTS.md, or Broken
    agentFiles,
    sync,           \* the running or last sync
    original,       \* history: what each file was at first
    policyEdits,
    syncFailures

syncVars == <<agentsMd, agentFiles, sync, original, policyEdits, syncFailures>>

-----------------------------------------------------------------------------
(* The shape of an agent file *)

At(f, token) == {i \in DOMAIN f : f[i] = token}

First(f, token) == Min(At(f, token))

\* the stop headings; only one test of the program heeds their case
Stops(f) == At(f, "stop") \union At(f, "STOP")

OneMarkerEach(f) == Cardinality(At(f, "begin")) = 1 /\ Cardinality(At(f, "end")) = 1

InOrder(f) == OneMarkerEach(f) /\ First(f, "begin") < First(f, "end")

\* where the section under heading i ends
NextH2(f, i) == Min({j \in DOMAIN f : j > i /\ f[j] \in H2} \union {Len(f) + 1})

Before(f, i) == SubSeq(f, 1, i - 1)

From(f, i) == SubSeq(f, i, Len(f))

SectionBody(f, title) ==
    LET i == First(f, title) IN SubSeq(f, i + 1, NextH2(f, i) - 1)

-----------------------------------------------------------------------------
(* --write *)

Block(policy) == <<"begin", policy, "end">>

ReplaceToTheEnd(f, policy) ==
    IF At(f, "stop") # {}
    THEN Before(f, First(f, "stop")) \o <<"stop">> \o Block(policy)
    ELSE f \o <<"stop">> \o Block(policy)

AppendUnlessMarked(f, policy) ==
    IF OneMarkerEach(f)
    THEN Before(f, First(f, "begin")) \o Block(policy) \o From(f, First(f, "end") + 1)
    ELSE f \o <<"stop">> \o Block(policy)

\* One marker each: splice, and add the heading unless it is there in this
\* very case.  Else a stop section: replace its body.  Else a new section
\* before the escalation, or at the end.
ReplaceBlock(f, policy) ==
    IF OneMarkerEach(f) THEN
        LET i == First(f, "begin")
            updated == Before(f, i) \o Block(policy) \o From(f, First(f, "end") + 1)
        IN  IF At(updated, "stop") # {} THEN updated
            ELSE Before(updated, i) \o <<"stop">> \o From(updated, i)
    ELSE IF Stops(f) # {} THEN
        LET i == Min(Stops(f))
        IN  Before(f, i + 1) \o Block(policy) \o From(f, NextH2(f, i))
    ELSE
        LET i == Min(At(f, "esc") \union {Len(f) + 1})
        IN  Before(f, i) \o <<"stop">> \o Block(policy) \o From(f, i)

\* what a write of f that does not end leaves: a prefix, its last token cut
TornWrites(f) ==
    {SubSeq(f, 1, n) : n \in 0 .. Len(f)}
      \union {Append(SubSeq(f, 1, n), "x") : n \in 0 .. Len(f) - 1}
      \union {Append(SubSeq(f, 1, n), "h2") : n \in {m \in 0 .. Len(f) - 1 : f[m + 1] \in H2}}

AtRest == [pc |-> "idle"]

SyncInit ==
    /\ agentsMd \in Policies \union {Broken}
    /\ agentFiles \in AgentTexts
    /\ original = agentFiles
    /\ sync = AtRest
    /\ policyEdits = 0 /\ syncFailures = 0

\* the policy is read once, before the first file
SyncStart ==
    /\ sync.pc # "running"
    /\ sync' = IF agentsMd = Broken THEN AtRest
               ELSE [pc |-> "running", policy |-> agentsMd, todo |-> AgentPaths]
    /\ UNCHANGED <<agentsMd, agentFiles, original, policyEdits, syncFailures>>

SyncFile ==
    /\ sync.pc = "running" /\ sync.todo # <<>>
    /\ agentFiles' = [agentFiles EXCEPT ![Head(sync.todo)] = ReplaceBlock(@, sync.policy)]
    /\ sync' = [sync EXCEPT !.todo = Tail(@)]
    /\ UNCHANGED <<agentsMd, original, policyEdits, syncFailures>>

SyncFinish ==
    /\ sync.pc = "running" /\ sync.todo = <<>>
    /\ sync' = [pc |-> "done", policy |-> sync.policy]
    /\ UNCHANGED <<agentsMd, agentFiles, original, policyEdits, syncFailures>>

\* an error or the end of the process: the file at hand is as it was or torn
SyncFail ==
    /\ sync.pc = "running" /\ syncFailures < MaxSyncFailures
    /\ syncFailures' = syncFailures + 1
    /\ sync' = AtRest
    /\ \/ UNCHANGED agentFiles
       \/ /\ sync.todo # <<>>
          /\ \E torn \in TornWrites(ReplaceBlock(agentFiles[Head(sync.todo)], sync.policy)) :
                agentFiles' = [agentFiles EXCEPT ![Head(sync.todo)] = torn]
    /\ UNCHANGED <<agentsMd, original, policyEdits>>

EditPolicy ==
    /\ policyEdits < MaxPolicyEdits
    /\ policyEdits' = policyEdits + 1
    /\ agentsMd' \in (Policies \union {Broken}) \ {agentsMd}
    /\ UNCHANGED <<agentFiles, sync, original, syncFailures>>

SyncNext == SyncStart \/ SyncFile \/ SyncFinish \/ SyncFail \/ EditPolicy

SyncSpec == SyncInit /\ [][SyncNext]_syncVars

-----------------------------------------------------------------------------
(* --check: the kinds of errors it reports *)

BlockErrors(f, policy) ==
    {kind \in {"heading", "markers", "drift"} :
        CASE kind = "heading" -> Cardinality(Stops(f)) # 1
          [] kind = "markers" -> ~InOrder(f)
          [] kind = "drift"   -> /\ InOrder(f)
                                 /\ SubSeq(f, First(f, "begin") + 1, First(f, "end") - 1)
                                        # <<policy>>}

PayloadsOf(f) ==
    IF At(f, "hand") = {} THEN <<>>
    ELSE Only(SectionBody(f, "hand"), Payloads)

\* no handling section, none or several payloads, or not the common one
HandlingErrors(a) ==
    LET mine == PayloadsOf(agentFiles[a])
    IN  Len(mine) # 1 \/ \E b \in Agents : /\ Len(PayloadsOf(agentFiles[b])) = 1
                                           /\ PayloadsOf(agentFiles[b]) # mine

CheckPasses ==
    /\ agentsMd # Broken /\ Agents # {}
    /\ \A a \in Agents : BlockErrors(agentFiles[a], agentsMd) = {} /\ ~HandlingErrors(a)

-----------------------------------------------------------------------------
(* Properties *)

\* Types of the files and of the sync.
SyncTypeOK ==
    /\ agentsMd \in Policies \union {Broken}
    /\ agentFiles \in [Agents -> Seq(Tokens)] /\ original \in [Agents -> Seq(Tokens)]
    /\ sync \in [pc : {"idle"}]
         \union [pc : {"running"}, policy : Policies, todo : Seq(Agents)]
         \union [pc : {"done"}, policy : Policies]
    /\ policyEdits \in 0 .. MaxPolicyEdits /\ syncFailures \in 0 .. MaxSyncFailures

\* At most one stop heading, in the case --write gives it unless a pair of
\* markers encloses it; one pair of markers, in order, that no heading
\* separates from the stop heading before it; or only such markers as the
\* stop section holds, which is replaced.
Regular(f) ==
    /\ Cardinality(Stops(f)) <= 1
    /\ IF OneMarkerEach(f)
       THEN InOrder(f) /\ \A i \in Stops(f) :
                             \/ i \in First(f, "begin") .. First(f, "end")
                             \/ f[i] = "stop" /\ First(f, "begin") \in i .. NextH2(f, i)
       ELSE /\ At(f, "STOP") = {}
            /\ \A m \in At(f, "begin") \union At(f, "end") :
                  \E i \in At(f, "stop") : m \in i .. NextH2(f, i)

\* A sync that ends leaves no error in the generated part of a regular file,
\* whatever became of the syncs before it: a sync that failed half-way, or in
\* the middle of a file, is repaired by the next one.
SyncRepairs ==
    (sync.pc = "done" /\ agentsMd = sync.policy) =>
        /\ \A a \in Agents :
              Regular(original[a]) => BlockErrors(agentFiles[a], agentsMd) = {}
        /\ Agents # {} /\ (\A a \in Agents : Regular(original[a]) /\ ~HandlingErrors(a))
              => CheckPasses

\* "--write -> refresh managed `## Stop conditions` block in all 8 agent
\* files", and an edited policy fails --check only "until all local agent
\* blocks are regenerated": after a sync that ends there is no error in the
\* generated part of any file.
BlocksAreRefreshed ==
    sync.pc = "done" /\ agentsMd = sync.policy =>
        \A a \in Agents : BlockErrors(agentFiles[a], agentsMd) = {}

ToDo == IF sync.pc = "running" THEN Range(sync.todo) ELSE {}

\* What makes SyncRepairs inductive: no sync, not even one that fails inside a
\* file, makes a regular file irregular; and the files a sync is through with
\* carry its policy.
RepairInv ==
    /\ SyncTypeOK
    /\ \A a \in Agents : Regular(original[a]) => Regular(agentFiles[a])
    /\ sync.pc # "idle" =>
         \A a \in Agents \ ToDo :
            Regular(original[a]) => BlockErrors(agentFiles[a], sync.policy) = {}

\* what belongs to the role: neither the block nor the first stop section
\* nor a stop heading
RoleText(f) ==
    LET kept == IF InOrder(f)
                THEN Before(f, First(f, "begin")) \o From(f, First(f, "end") + 1)
                ELSE IF Stops(f) # {}
                THEN LET i == Min(Stops(f)) IN Before(f, i) \o From(f, NextH2(f, i))
                ELSE f
    IN  Only(kept, Tokens \ {"stop", "STOP"})

\* a rewrite that ends moves, drops and doubles nothing of the role's text
KeepsRoleText ==
    \A a \in Agents :
        (/\ agentFiles'[a] # agentFiles[a] /\ syncFailures' = syncFailures
         /\ OneMarkerEach(agentFiles[a]) => InOrder(agentFiles[a]))
        => RoleText(agentFiles'[a]) = RoleText(agentFiles[a])

\* "Role-specific instructions ... are deliberately not generated": every
\* rewrite that ends leaves the role's text as it was, in any file whose
\* markers are not crossed.
RoleTextIsKept == [][KeepsRoleText]_syncVars
=============================================================================
