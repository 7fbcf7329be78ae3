--------------------------- MODULE SqlClassifier ---------------------------
(***************************************************************************)
(* classify_batch of scripts/db/sql_classification.py: the operation class *)
(* of a batch of SQL, from which the guard decides.  It is a function of   *)
(* the tokens alone; here the batch is written phrase by phrase, and the   *)
(* properties speak of every batch on the way.                             *)
(*                                                                         *)
(* A token is a word in upper case, a quoted name, the literal "?" or a    *)
(* symbol; comments leave no token.  Characters, hashing and the redacted  *)
(* preview are left out: the tokenizer reports only the tokens and whether *)
(* a quote or a comment was left open (torn).                              *)
(*                                                                         *)
(* SaferByRank, DangersOutsideParentheses, CteFinalInside, IgnoredAlways   *)
(* and CutsBeforeParentheses are faulty variants that nothing uses.        *)
(***************************************************************************)
EXTENDS Naturals, SequencesExt, FiniteSetsExt, Functions, Selection

CONSTANTS
    Words,      \* the words a batch may hold
    Quoted,     \* its quoted names
    Name,       \* [Quoted -> the name between the quotes]
    Phrases,    \* what is written at a time: sequences of tokens
    MaxPhrases  \* bound: phrases in a batch

Symbols == {"(", ")", ",", ".", ";", "?"}     \* those that are told apart

ASSUME TokenAssumption ==
    /\ MaxPhrases \in Nat
    /\ Words \intersect Quoted = {}
    /\ Symbols \intersect (Words \union Quoted) = {}
    /\ "X" \in Words
    /\ Phrases \subseteq Seq(UNION {Range(phrase) : phrase \in Phrases})

VARIABLES
    tokens,     \* the batch so far
    torn,       \* it ends inside a quote or a comment
    written     \* number of phrases

vars == <<tokens, torn, written>>

-----------------------------------------------------------------------------
(* Classes *)

Rank == [read |-> 0, mutation |-> 2, ddl |-> 2, procedure_exec |-> 2,
         unknown |-> 3, privileged |-> 4]

TieBreak == [read |-> 0, mutation |-> 0, ddl |-> 1, procedure_exec |-> 2,
             unknown |-> 0, privileged |-> 0]

Classes == DOMAIN Rank

SaferByRank(current, candidate) ==
    IF Rank[candidate] >= Rank[current] THEN candidate ELSE current

Safer(current, candidate) ==
    IF \/ Rank[candidate] > Rank[current]
       \/ Rank[candidate] = Rank[current] /\ TieBreak[candidate] > TieBreak[current]
    THEN candidate ELSE current

\* the safest class that covers base and all classes of s
Worst(base, s) ==
    LET worst[n \in 0 .. Len(s)] == IF n = 0 THEN base ELSE Safer(worst[n - 1], s[n])
    IN  worst[Len(s)]

-----------------------------------------------------------------------------
(* One statement *)

Mutations == {"INSERT", "UPDATE", "DELETE", "MERGE"}
Definitions == {"CREATE", "ALTER", "DROP"}
Executions == {"EXEC", "EXECUTE", "CALL", "SP_EXECUTESQL"}
Administration == {"GRANT", "REVOKE", "DENY", "BACKUP", "RESTORE", "SHUTDOWN",
                   "KILL", "RECONFIGURE"}
UnknownStarts == {"SET", "BEGIN", "COMMIT", "ROLLBACK", "USE", "DECLARE",
                  "PRINT", "WAITFOR", "GO"}
PrivilegedTargets == {"SERVER", "ROLE", "LOGIN", "USER", "DATABASE", "SYSTEM",
                      "EXTENSION"}

HasWord(s, word) == \E i \in DOMAIN s : s[i] = word

\* the next name, over dots
NextWord(s, i) ==
    LET after == {j \in i + 1 .. Len(s) : s[j] # "."}
        next  == s[Min(after)]
    IN  IF after = {} THEN "none"
        ELSE IF next \in Words THEN next
        ELSE IF next \in Quoted THEN Name[next] ELSE "none"

OnPrivileged(s, i) == NextWord(s, i) \in PrivilegedTargets

CopyClass(s, i) ==
    IF HasWord(SubSeq(s, i, Len(s)), "PROGRAM") THEN "privileged" ELSE "mutation"

\* the verbs that _first_class and _verb_class have in common
IsVerb(s, i) ==
    \/ s[i] \in Mutations \union Definitions \union Executions
                \union Administration \union UnknownStarts
    \/ s[i] \in {"TRUNCATE", "RENAME", "COPY"}
    \/ s[i] = "BULK" /\ NextWord(s, i) = "INSERT"
    \/ s[i] = "COMMENT" /\ NextWord(s, i) = "ON"

VerbClass(s, i) ==
    IF ~IsVerb(s, i) THEN "unknown"
    ELSE CASE s[i] \in Mutations \union {"BULK"} -> "mutation"
           [] s[i] \in Definitions \union {"TRUNCATE", "RENAME"}
                -> IF OnPrivileged(s, i) THEN "privileged" ELSE "ddl"
           [] s[i] = "COMMENT"         -> "ddl"
           [] s[i] = "COPY"            -> CopyClass(s, i)
           [] s[i] \in Administration  -> "privileged"
           [] s[i] \in Executions      -> "procedure_exec"
           [] s[i] \in UnknownStarts   -> "unknown"

\* The danger of a word wherever it stands, "read" for none; a TRUNCATE or
\* RENAME that is not the first word is ddl whatever its target.
DangerAt(s, i) ==
    CASE s[i] = "INTO"                   -> "mutation"
      [] s[i] \in {"TRUNCATE", "RENAME"} -> "ddl"
      [] s[i] \in UnknownStarts          -> "read"
      [] s[i] \notin {"INTO", "TRUNCATE", "RENAME"} \union UnknownStarts
           -> IF IsVerb(s, i) THEN VerbClass(s, i) ELSE "read"

Opened(s, n) == Cardinality({i \in 1 .. n : s[i] = "("})
Closed(s, n) == Cardinality({i \in 1 .. n : s[i] = ")"})

DangersOutsideParentheses(s) ==
    [i \in DOMAIN s |-> IF Opened(s, i) = Closed(s, i) THEN DangerAt(s, i) ELSE "read"]

Dangers(s) == [i \in DOMAIN s |-> DangerAt(s, i)]

\* the place after the parenthesis that closes the one at i, 0 without one
After(s, i) ==
    LET closing == {j \in i .. Len(s) :
                      Opened(s, j) - Opened(s, i - 1) = Closed(s, j) - Closed(s, i - 1)}
    IN  IF closing = {} THEN 0 ELSE Min(closing) + 1

At(s, i, token) == i \in DOMAIN s /\ s[i] = token

CteFinalInside(s) == IF HasWord(s, "SELECT") THEN Min({i \in DOMAIN s : s[i] = "SELECT"}) ELSE 0

\* behind the column names that a definition may have at i
AfterColumns(s, i) == IF At(s, i, "(") THEN After(s, i) ELSE i

\* behind AS (...) at i, 0 if there is none
AfterBody(s, i) == IF At(s, i, "AS") /\ At(s, i + 1, "(") THEN After(s, i + 1) ELSE 0

\* the place after the WITH definition at i, 0 if it is not one or the last token
AfterDefinition(s, i) ==
    LET end == AfterBody(s, AfterColumns(s, i + 1))
    IN  IF i \in DOMAIN s /\ s[i] \in Words \union Quoted /\ end \in DOMAIN s THEN end ELSE 0

\* where the statement after the WITH list begins, 0 if the list is not one
CteFinal(s) ==
    LET final[i \in 1 .. Len(s) + 1] ==
            LET end == AfterDefinition(s, i)
            IN  IF At(s, end, ",") THEN final[end + 1] ELSE end
    IN  final[IF At(s, 2, "RECURSIVE") THEN 3 ELSE 2]

SelectClass(s) == IF HasWord(s, "INTO") THEN "mutation" ELSE "read"

\* the class that the statement at i gives a WITH
FinalClass(s, i) ==
    IF i = 0 THEN "unknown"
    ELSE IF s[i] = "SELECT" THEN SelectClass(s) ELSE VerbClass(s, i)

FirstClass(s) ==
    IF s[1] = "SELECT" THEN SelectClass(s)
    ELSE IF s[1] = "WITH" THEN FinalClass(s, CteFinal(s))
    ELSE IF IsVerb(s, 1) THEN VerbClass(s, 1)
    ELSE IF s[1] \in Words \union Quoted THEN "procedure_exec"
    ELSE "unknown"

StatementClass(s) ==
    IF s = <<>> THEN "unknown"
    ELSE Worst(FirstClass(s), Dangers(s))

IsTransactionControl(s) == s[1] \in {"BEGIN", "COMMIT", "ROLLBACK"}

-----------------------------------------------------------------------------
(* A batch *)

Balanced(s) ==
    /\ Opened(s, Len(s)) = Closed(s, Len(s))
    /\ \A i \in DOMAIN s : Opened(s, i) >= Closed(s, i)

Separators == {";", "GO"}

CutsBeforeParentheses(s) == {i \in DOMAIN s : s[i] \in Separators /\ Opened(s, i) = 0}

Cuts(s) == {i \in DOMAIN s : s[i] \in Separators /\ Opened(s, i) = Closed(s, i)}

\* what lies between two cuts
Statements(s) ==
    LET places == [i \in 1 .. Len(s) + 2 |-> i - 1]
        cuts == Only(places, Cuts(s) \union {0, Len(s) + 1})
        between == [i \in 1 .. Len(cuts) - 1 |-> SubSeq(s, cuts[i] + 1, cuts[i + 1] - 1)]
    IN  Only(between, Range(between) \ {<<>>})

IgnoredAlways(statement, statements) == IsTransactionControl(statement)

\* BEGIN, COMMIT and ROLLBACK are passed over if another statement is hazardous
Ignored(statement, statements) ==
    /\ IsTransactionControl(statement)
    /\ StatementClass(statement) = "unknown"
    /\ \E i \in DOMAIN statements :
         /\ ~IsTransactionControl(statements[i])
         /\ Rank[StatementClass(statements[i])] >= Rank["mutation"]

ClassOfStatements(statements) ==
    LET counted == Only(statements, {t \in Range(statements) : ~Ignored(t, statements)})
    IN  Worst("read", [i \in DOMAIN counted |-> StatementClass(counted[i])])

\* classify_batch
BatchClass(s, malformed) ==
    LET statements == Statements(s) IN
    IF malformed \/ ~Balanced(s) \/ statements = <<>> THEN "unknown"
    ELSE ClassOfStatements(statements)

-----------------------------------------------------------------------------
(* Writing a batch *)

Init == tokens = <<>> /\ torn = FALSE /\ written = 0

\* more text, as the words, literals and symbols the tokenizer makes of it
Write(phrase) ==
    /\ ~torn /\ written < MaxPhrases
    /\ tokens' = tokens \o phrase
    /\ written' = written + 1
    /\ UNCHANGED torn

\* what is left open is the last thing the tokenizer sees
Tear ==
    /\ ~torn /\ written < MaxPhrases
    /\ torn' = TRUE
    /\ UNCHANGED <<tokens, written>>

Next == Tear \/ \E phrase \in Phrases : Write(phrase)

Spec == Init /\ [][Next]_vars

-----------------------------------------------------------------------------
(* Properties *)

Dangerous ==
    Mutations \union Definitions \union Executions \union Administration
    \union {"INTO", "COPY", "TRUNCATE", "RENAME"}

\* A batch classified as read is well formed, each of its statements begins
\* with SELECT or WITH, and no dangerous word stands anywhere in it, however
\* deep in parentheses.
ReadIsPure ==
    BatchClass(tokens, torn) = "read" =>
        /\ ~torn /\ Balanced(tokens) /\ tokens # <<>>
        /\ \A i \in DOMAIN tokens : tokens[i] \notin Dangerous
        /\ \A i \in DOMAIN Statements(tokens) : Statements(tokens)[i][1] \in {"SELECT", "WITH"}

Wrapped == <<"BEGIN", ";">> \o tokens \o <<";", "ROLLBACK">>

\* "a transaction wrapper must not hide the mutation it contains": wrapped
\* in a transaction a hazardous batch keeps its class, and a batch of reads
\* does not become a read.
WrapperIsTransparent ==
    BatchClass(Wrapped, torn) =
        IF \E i \in DOMAIN Statements(tokens) :
             /\ ~IsTransactionControl(Statements(tokens)[i])
             /\ StatementClass(Statements(tokens)[i]) # "read"
        THEN BatchClass(tokens, torn)
        ELSE Safer("unknown", BatchClass(tokens, torn))

\* "a multi-statement batch inherits the most hazardous class of any
\* statement": also when its statements come in another order.
OrderDoesNotMatter ==
    Balanced(tokens) /\ Statements(tokens) # <<>> =>
        ClassOfStatements(Reverse(Statements(tokens))) = ClassOfStatements(Statements(tokens))

Before(i) == SubSeq(tokens, 1, i - 1)
Behind(i) == SubSeq(tokens, i + 1, Len(tokens))

\* A batch is no safer than either of its parts, wherever it is divided
\* between two statements, transaction control apart.
NoStatementIsHidden ==
    ~torn /\ Balanced(tokens) =>
        \A i \in DOMAIN tokens :
            /\ tokens[i] = ";"
            /\ Balanced(Before(i))
            /\ \A j \in DOMAIN tokens : tokens[j] \notin {"BEGIN", "COMMIT", "ROLLBACK"}
            => \A part \in {Before(i), Behind(i)} :
                 Statements(part) # <<>> =>
                    Rank[BatchClass(tokens, torn)] >= Rank[BatchClass(part, FALSE)]

\* The final statement controls the allowlist: behind a WITH list no statement
\* of a batch is safer than alone.
CteNeverLowers ==
    Balanced(tokens) =>
        \A i \in DOMAIN Statements(tokens) :
            LET statement == Statements(tokens)[i] IN
            statement[1] \in (Words \union Quoted) \ {"WITH"} =>
                Rank[StatementClass(<<"WITH", "X", "AS", "(", "SELECT", "?", ")">> \o statement)]
                    >= Rank[StatementClass(statement)]
=============================================================================
