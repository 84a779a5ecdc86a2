----------------------------- MODULE WaveProofs -----------------------------
(***************************************************************************)
(* Proofs about the wave driver and about the capture of working trees,    *)
(* for any number of operators, waves, skills, files, faults and edits.    *)
(*                                                                         *)
(* The invariant of the driver has four parts, each proved from those      *)
(* before it: the journal and the runs, what waves and lines say of the    *)
(* store, what a lookup is good for, and what an aggregate rests on.       *)
(***************************************************************************)
EXTENDS Intake, ScanWave, SequenceTheorems, FiniteSetTheorems, WellFoundedInduction, TLAPS

-----------------------------------------------------------------------------
(* Numbers, sequences and finite sets.                                     *)

\* Every set of numbers has a least one; this is where induction comes from.
LEMMA Least ==
  ASSUME NEW T \in SUBSET Nat, T # {}
  PROVE  \E x \in T : \A y \in T : x <= y
<1>1. \E x \in T : \A y \in T : ~ (<<y, x>> \in OpToRel(<, Nat))
  BY NatLessThanWellFounded, WFMin
<1>2. PICK x \in T : \A y \in T : ~ (<<y, x>> \in OpToRel(<, Nat))
  BY <1>1
<1>3. ASSUME NEW y \in T PROVE x <= y
  <2>1. ~ (<<y, x>> \in OpToRel(<, Nat))
    BY <1>2
  <2>2. ~ (y < x)
    BY <2>1 DEF OpToRel
  <2> QED BY <2>2
<1> QED
  BY <1>3

\* A recursion over the subsets of S with at most n elements.
Sums(S, severity, n) ==
  {f \in [{s \in SUBSET S : Cardinality(s) <= n} -> Nat] :
     \A s \in SUBSET S : Cardinality(s) <= n =>
       f[s] = IF s = {} THEN 0
              ELSE LET x == CHOOSE x \in s : TRUE IN severity[x] + f[s \ {x}]}

\* The recursion has a solution at every depth, or there is a least one where
\* it has none.
LEMMA SumsExist ==
  ASSUME NEW S, IsFiniteSet(S), NEW severity, \A c \in S : severity[c] \in Nat, NEW n \in Nat
  PROVE  Sums(S, severity, n) # {}
<1> DEFINE Bad == {m \in Nat : Sums(S, severity, m) = {}}
           Small(m) == {s \in SUBSET S : Cardinality(s) <= m}
           Step(f, s) == IF s = {} THEN 0
                         ELSE LET x == CHOOSE x \in s : TRUE IN severity[x] + f[s \ {x}]
<1>1. SUFFICES ASSUME Bad # {} PROVE FALSE
  OBVIOUS
<1>2. PICK m \in Bad : \A y \in Bad : m <= y
  <2>1. Bad \in SUBSET Nat
    OBVIOUS
  <2> HIDE DEF Bad
  <2> QED BY <1>1, <2>1, Least
<1>3. ASSUME NEW s \in SUBSET S PROVE IsFiniteSet(s) /\ Cardinality(s) \in Nat
  BY FS_Subset, FS_CardinalityType
<1>4. ASSUME NEW s \in SUBSET S, s # {}
      PROVE  LET x == CHOOSE x \in s : TRUE
             IN x \in s /\ s \ {x} \in SUBSET S /\ Cardinality(s \ {x}) = Cardinality(s) - 1
  <2> DEFINE x == CHOOSE x \in s : TRUE
  <2>1. x \in s
    BY <1>4
  <2>2. IsFiniteSet(s)
    BY <1>3
  <2> HIDE DEF x
  <2>3. Cardinality(s \ {x}) = Cardinality(s) - 1
    BY <2>1, <2>2, FS_RemoveElement
  <2>4. x \in s /\ s \ {x} \in SUBSET S /\ Cardinality(s \ {x}) = Cardinality(s) - 1
    BY <2>1, <2>3
  <2> QED BY <2>4 DEF x
<1>5. ASSUME NEW s \in SUBSET S, Cardinality(s) <= 0 PROVE s = {}
  BY <1>3, <1>5, FS_EmptySet
<1>6. m # 0
  <2> DEFINE f == [s \in Small(0) |-> 0]
  <2>1. f \in [Small(0) -> Nat]
    OBVIOUS
  <2>2. ASSUME NEW s \in SUBSET S, Cardinality(s) <= 0 PROVE f[s] = Step(f, s)
    <3>1. s = {} /\ s \in Small(0)
      BY <2>2, <1>5
    <3> QED BY <3>1
  <2>3. f \in Sums(S, severity, 0)
    BY <2>1, <2>2 DEF Sums
  <2>4. Sums(S, severity, 0) # {}
    BY <2>3
  <2> QED BY <2>4, <1>2
<1>7. m - 1 \in Nat /\ m - 1 \notin Bad
  BY <1>2, <1>6
<1>8. PICK f : f \in Sums(S, severity, m - 1)
  BY <1>7
<1>9. f \in [Small(m - 1) -> Nat] /\ \A s \in SUBSET S : Cardinality(s) <= m - 1 => f[s] = Step(f, s)
  BY <1>8 DEF Sums
<1> DEFINE g == [s \in Small(m) |-> Step(f, s)]
<1>10. ASSUME NEW s \in SUBSET S, Cardinality(s) <= m, s # {}
       PROVE  LET x == CHOOSE x \in s : TRUE
              IN x \in s /\ s \ {x} \in Small(m - 1) /\ g[s \ {x}] = f[s \ {x}]
  <2> DEFINE x == CHOOSE x \in s : TRUE
  <2>1. x \in s /\ s \ {x} \in SUBSET S /\ Cardinality(s \ {x}) = Cardinality(s) - 1
    BY <1>10, <1>4
  <2> HIDE DEF x, g, Step
  <2> DEFINE t == s \ {x}
  <2>2. Cardinality(t) \in Nat /\ Cardinality(t) <= m - 1
    BY <2>1, <1>3, <1>10, <1>7
  <2>3. t \in Small(m - 1) /\ t \in Small(m)
    BY <2>2, <2>1, <1>7
  <2>4. f[t] = Step(f, t)
    BY <2>2, <2>1, <1>9
  <2>5. g[t] = Step(f, t)
    BY <2>3 DEF g
  <2>6. x \in s /\ t \in Small(m - 1) /\ g[t] = f[t]
    BY <2>1, <2>3, <2>4, <2>5
  <2> QED BY <2>6 DEF x
<1>11. ASSUME NEW s \in SUBSET S, Cardinality(s) <= m
       PROVE  g[s] = Step(g, s) /\ g[s] \in Nat
  <2>1. s \in Small(m) /\ g[s] = Step(f, s)
    BY <1>11
  <2>2. CASE s = {}
    BY <2>1, <2>2
  <2>3. CASE s # {}
    <3> DEFINE x == CHOOSE x \in s : TRUE
    <3>1. x \in s /\ s \ {x} \in Small(m - 1) /\ g[s \ {x}] = f[s \ {x}]
      BY <1>10, <1>11, <2>3
    <3>2. Step(f, s) = severity[x] + f[s \ {x}] /\ Step(g, s) = severity[x] + g[s \ {x}]
      BY <2>3
    <3> HIDE DEF x, g, Step
    <3>3. severity[x] \in Nat /\ f[s \ {x}] \in Nat
      BY <3>1, <1>9
    <3> QED BY <2>1, <3>1, <3>2, <3>3
  <2> QED BY <2>2, <2>3
<1>12. g \in [Small(m) -> Nat]
  <2>1. \A s \in Small(m) : g[s] \in Nat
    <3> HIDE DEF g
    <3> QED BY <1>11
  <2>2. g = [s \in Small(m) |-> g[s]]
    OBVIOUS
  <2> HIDE DEF g
  <2> QED BY <2>1, <2>2
<1>13. g \in Sums(S, severity, m)
  BY <1>11, <1>12 DEF Sums
<1> QED
  BY <1>13, <1>2

\* The penalty of the findings of these codes, as ResultFrom adds it up.
Penalty(severity, S) == MapThenSumSet(LAMBDA c : severity[c], S)

\* A penalty is a number: otherwise some smallest set of codes has none, and
\* one code less has one.
LEMMA PenaltyType ==
  ASSUME NEW S, IsFiniteSet(S), NEW severity, \A c \in S : severity[c] \in Nat
  PROVE  Penalty(severity, S) \in Nat
<1> DEFINE Rec(f) == f = [s \in SUBSET S |->
             IF s = {} THEN 0
             ELSE LET x == CHOOSE x \in s : TRUE IN severity[x] + f[s \ {x}]]
           iter == CHOOSE f : Rec(f)
<1>1. Penalty(severity, S) = iter[S]
  BY DEF Penalty, MapThenSumSet, MapThenFoldSet
<1>2. ASSUME NEW s \in SUBSET S PROVE IsFiniteSet(s) /\ Cardinality(s) \in Nat
  BY FS_Subset, FS_CardinalityType
<1>3. ASSUME NEW s \in SUBSET S PROVE Cardinality(s) <= Cardinality(S)
  BY FS_Subset
<1>4. \E f : Rec(f)
  <2>1. Cardinality(S) \in Nat
    BY <1>2
  <2>2. PICK f : f \in Sums(S, severity, Cardinality(S))
    BY <2>1, SumsExist
  <2>3. {s \in SUBSET S : Cardinality(s) <= Cardinality(S)} = SUBSET S
    BY <1>3
  <2>4. f \in [SUBSET S -> Nat] /\ \A s \in SUBSET S :
          f[s] = IF s = {} THEN 0 ELSE LET x == CHOOSE x \in s : TRUE IN severity[x] + f[s \ {x}]
    BY <2>2, <2>3, <1>3 DEF Sums
  <2>5. Rec(f)
    BY <2>4
  <2> QED BY <2>5
<1>5. Rec(iter)
  BY <1>4
<1> HIDE DEF iter
<1>6. ASSUME NEW s \in SUBSET S
      PROVE  iter[s] = IF s = {} THEN 0
                       ELSE LET x == CHOOSE x \in s : TRUE IN severity[x] + iter[s \ {x}]
  BY <1>5
<1> HIDE DEF Rec
<1> DEFINE Bad == {s \in SUBSET S : iter[s] \notin Nat}
           Sizes == {Cardinality(s) : s \in Bad}
<1>7. Bad = {}
  <2>1. SUFFICES ASSUME Bad # {} PROVE FALSE
    OBVIOUS
  <2>2. Sizes \in SUBSET Nat /\ Sizes # {}
    BY <1>2, <2>1
  <2> HIDE DEF Sizes
  <2>3. PICK n \in Sizes : \A k \in Sizes : n <= k
    BY <2>2, Least
  <2>4. PICK s \in Bad : n = Cardinality(s)
    BY <2>3 DEF Sizes
  <2>5. s # {}
    <3>1. s \in SUBSET S /\ iter[s] \notin Nat
      BY <2>4
    <3>2. s = {} => iter[s] = 0
      BY <3>1, <1>6
    <3> QED BY <3>1, <3>2
  <2> DEFINE x == CHOOSE x \in s : TRUE
             t == s \ {x}
  <2>6. x \in s
    BY <2>5
  <2>7. iter[s] = severity[x] + iter[t]
    BY <1>6, <2>4, <2>5
  <2> HIDE DEF x
  <2>8. t \in SUBSET S /\ IsFiniteSet(s) /\ Cardinality(s) \in Nat
    BY <2>4, <1>2
  <2>9. Cardinality(t) = Cardinality(s) - 1
    BY <2>6, <2>8, FS_RemoveElement
  <2>10. t \notin Bad
    <3>1. SUFFICES ASSUME t \in Bad PROVE FALSE
      OBVIOUS
    <3>2. Cardinality(t) \in Sizes
      BY <3>1 DEF Sizes
    <3>3. Cardinality(s) <= Cardinality(s) - 1
      BY <3>2, <2>3, <2>4, <2>9
    <3> QED BY <3>3, <2>8
  <2>11. iter[t] \in Nat /\ severity[x] \in Nat
    BY <2>10, <2>8, <2>6, <2>4
  <2> QED BY <2>11, <2>7, <2>4
<1>8. S \in SUBSET S
  OBVIOUS
<1>9. iter[S] \in Nat
  BY <1>7, <1>8
<1> QED
  BY <1>1, <1>9 DEF iter

\* The least and the greatest member of a set, as Min and Max choose them.
LEMMA MinIs ==
  ASSUME NEW T \in SUBSET Nat, T # {}
  PROVE  Min(T) \in T /\ \A y \in T : Min(T) <= y
BY Least DEF Min

LEMMA MaxBelow ==
  ASSUME NEW n \in Int, NEW T \in SUBSET Int, T # {}, \A x \in T : x <= n
  PROVE  Max(T) \in T /\ \A y \in T : Max(T) >= y
<1> DEFINE U == {n - x : x \in T}
<1>1. U \in SUBSET Nat /\ U # {}
  <2>1. ASSUME NEW x \in T PROVE n - x \in Nat
    OBVIOUS
  <2>2. PICK x : x \in T
    OBVIOUS
  <2>3. n - x \in U
    BY <2>2
  <2> QED BY <2>1, <2>3
<1>2. PICK u \in U : \A y \in U : u <= y
  BY <1>1, Least
<1>3. PICK x \in T : u = n - x
  BY <1>2
<1>4. ASSUME NEW y \in T PROVE x >= y
  <2>1. n - y \in U
    OBVIOUS
  <2>2. n - x <= n - y
    BY <2>1, <1>2, <1>3
  <2>3. x \in Int /\ y \in Int
    OBVIOUS
  <2> QED BY <2>2, <2>3
<1> QED
  BY <1>4 DEF Max

LEMMA MaxIs ==
  ASSUME NEW n \in Nat, NEW T \in SUBSET (1..n), T # {}
  PROVE  Max(T) \in T /\ \A y \in T : Max(T) >= y
<1>1. n \in Int /\ T \in SUBSET Int /\ \A x \in T : x <= n
  OBVIOUS
<1> QED
  BY <1>1, MaxBelow

\* A set written with five members, some perhaps equal.
LEMMA FewAreFinite ==
  ASSUME NEW a, NEW b, NEW c, NEW d, NEW e
  PROVE  IsFiniteSet({a, b, c, d, e})
<1>1. IsFiniteSet({a})
  BY FS_Singleton
<1>2. IsFiniteSet({a} \cup {b})
  BY <1>1, FS_AddElement
<1>3. IsFiniteSet({a} \cup {b} \cup {c})
  BY <1>2, FS_AddElement
<1>4. IsFiniteSet({a} \cup {b} \cup {c} \cup {d})
  BY <1>3, FS_AddElement
<1>5. IsFiniteSet({a} \cup {b} \cup {c} \cup {d} \cup {e})
  BY <1>4, FS_AddElement
<1>6. {a} \cup {b} \cup {c} \cup {d} \cup {e} = {a, b, c, d, e}
  OBVIOUS
<1> QED
  BY <1>5, <1>6

\* Appending, building and shortening a sequence.
LEMMA AppendFacts ==
  ASSUME NEW S, NEW s \in Seq(S), NEW e \in S
  PROVE  /\ Append(s, e) \in Seq(S) /\ Len(Append(s, e)) = Len(s) + 1
         /\ DOMAIN Append(s, e) = 1..(Len(s) + 1) /\ DOMAIN s = 1..Len(s)
         /\ Append(s, e)[Len(s) + 1] = e
         /\ \A i \in DOMAIN s : Append(s, e)[i] = s[i]
OBVIOUS

LEMMA FunctionIsSeq ==
  ASSUME NEW S, NEW n \in Nat, NEW f \in [1..n -> S]
  PROVE  f \in Seq(S)
OBVIOUS

LEMMA TailFacts ==
  ASSUME NEW S, NEW s \in Seq(S), Len(s) > 1
  PROVE  /\ Tail(s) \in Seq(S) /\ Tail(s) # <<>> /\ Len(Tail(s)) = Len(s) - 1
         /\ Head(s) = s[1]
         /\ \A i \in 1..(Len(s) - 1) : Tail(s)[i] = s[i + 1]
<1>1. s # <<>> /\ Len(s) \in Nat
  BY EmptySeq
<1>2. /\ Tail(s) \in Seq(S) /\ Len(Tail(s)) = Len(s) - 1
      /\ \A i \in 1..Len(Tail(s)) : Tail(s)[i] = s[i + 1]
  BY <1>1, HeadTailProperties
<1>3. Len(Tail(s)) # 0
  BY <1>1, <1>2
<1>4. Tail(s) # <<>>
  BY <1>2, <1>3, EmptySeq
<1>5. Head(s) = s[1]
  BY <1>1
<1> QED
  BY <1>2, <1>4, <1>5

-----------------------------------------------------------------------------
(* Scan results.                                                           *)

\* Severities are numbers, and there are finitely many codes of each scanner.
LEMMA SeverityType ==
  /\ \A c \in DOMAIN StaticSeverity : StaticSeverity[c] \in Nat
  /\ \A c \in DOMAIN SecretSeverity : SecretSeverity[c] \in Nat
  /\ \A c \in DOMAIN ProbeSeverity : ProbeSeverity[c] \in Nat
  /\ \A c \in DOMAIN AuditSeverity : AuditSeverity[c] \in Nat
BY DEF StaticSeverity, SecretSeverity, ProbeSeverity, AuditSeverity

LEMMA CodesFinite ==
  /\ IsFiniteSet(DOMAIN StaticSeverity)
  /\ IsFiniteSet(DOMAIN SecretSeverity)
  /\ IsFiniteSet(DOMAIN ProbeSeverity)
  /\ IsFiniteSet(DOMAIN AuditSeverity)
<1>1. ASSUME NEW a, NEW b, NEW c, NEW d, NEW e, NEW f, NEW g, NEW h, NEW i, NEW j
      PROVE  IsFiniteSet({a, b, c, d, e, f, g, h, i, j})
  <2>1. IsFiniteSet({a, b, c, d, e}) /\ IsFiniteSet({f, g, h, i, j})
    BY FewAreFinite
  <2>2. IsFiniteSet({a, b, c, d, e} \cup {f, g, h, i, j})
    BY <2>1, FS_Union
  <2>3. {a, b, c, d, e} \cup {f, g, h, i, j} = {a, b, c, d, e, f, g, h, i, j}
    OBVIOUS
  <2> QED BY <2>2, <2>3
<1>2. DOMAIN StaticSeverity =
        {"dangerous_tool", "unlisted_tool", "binary_executable", "binary_blob", "shell_script",
         "dynamic_exec", "obfuscated_blob", "network_call", "oversized", "oversized"}
  BY DEF StaticSeverity
<1>3. DOMAIN SecretSeverity =
        {"private_key", "aws_access_key", "github_token", "slack_token", "credential_assignment",
         "jwt", "internal_url", "private_ip", "ssn", "credit_card"}
  BY DEF SecretSeverity
<1>4. DOMAIN ProbeSeverity =
        {"injection", "exfiltration", "scope_violation", "tool_abuse", "tool_abuse"}
  BY DEF ProbeSeverity
<1>5. DOMAIN AuditSeverity = {"critical", "high", "medium", "low", "info"}
  BY DEF AuditSeverity
<1>6. IsFiniteSet(DOMAIN StaticSeverity)
  <2>1. IsFiniteSet(
        {"dangerous_tool", "unlisted_tool", "binary_executable", "binary_blob", "shell_script",
         "dynamic_exec", "obfuscated_blob", "network_call", "oversized", "oversized"})
    BY <1>1, Zenon
  <2> QED BY <2>1, <1>2, Zenon
<1>7. IsFiniteSet(DOMAIN SecretSeverity)
  <2>1. IsFiniteSet(
        {"private_key", "aws_access_key", "github_token", "slack_token", "credential_assignment",
         "jwt", "internal_url", "private_ip", "ssn", "credit_card"})
    BY <1>1, Zenon
  <2> QED BY <2>1, <1>3, Zenon
<1>8. IsFiniteSet(DOMAIN ProbeSeverity)
  <2>1. IsFiniteSet({"injection", "exfiltration", "scope_violation", "tool_abuse", "tool_abuse"})
    BY FewAreFinite, Zenon
  <2> QED BY <2>1, <1>4, Zenon
<1>9. IsFiniteSet(DOMAIN AuditSeverity)
  <2>1. IsFiniteSet({"critical", "high", "medium", "low", "info"})
    BY FewAreFinite, Zenon
  <2> QED BY <2>1, <1>5, Zenon
<1> QED
  BY <1>6, <1>7, <1>8, <1>9

\* A scan result: what a stage may say.
Results(stage) ==
  {r \in [stage : {stage}, score : 0..100, hard : BOOLEAN, skipped : BOOLEAN] :
     r.skipped => stage \in {2, 5}}

\* A score is a percentage, however many findings there are.
LEMMA ResultType ==
  ASSUME NEW stage, NEW severity, NEW found, IsFindings(found),
         IsFiniteSet(DOMAIN severity), \A c \in DOMAIN severity : severity[c] \in Nat
  PROVE  ResultFrom(stage, found, severity) \in Results(stage)
<1> DEFINE codes == DOMAIN found \cap DOMAIN severity
           weight == [c \in codes |-> found[c] * severity[c]]
<1>1. IsFiniteSet(codes)
  BY FS_Intersection
<1>2. \A c \in codes : weight[c] \in Nat
  <2>1. ASSUME NEW c \in codes PROVE weight[c] \in Nat
    <3>1. weight[c] = found[c] * severity[c]
      OBVIOUS
    <3>2. PICK m \in Nat, n \in Nat : m = found[c] /\ n = severity[c]
      BY DEF IsFindings
    <3>3. m * n \in Nat
      OBVIOUS
    <3> QED BY <3>1, <3>2, <3>3
  <2> QED BY <2>1
<1>3. PICK p \in Nat : p = Penalty(weight, codes)
  <2> HIDE DEF weight, codes
  <2> QED BY <1>1, <1>2, PenaltyType
<1>4. ResultFrom(stage, found, severity) =
        [stage |-> stage, score |-> IF p > 100 THEN 0 ELSE 100 - p,
         hard |-> \E c \in codes : severity[c] >= 90, skipped |-> FALSE]
  BY <1>3 DEF ResultFrom, Penalty
<1>5. (IF p > 100 THEN 0 ELSE 100 - p) \in 0..100
  OBVIOUS
<1> HIDE DEF codes
<1> QED
  BY <1>4, <1>5 DEF Results

\* A result of stage 2 that is not skipped comes from an engine that looked.
LEMMA AuditLooked ==
  ASSUME NEW b, NEW h \in Hosts
  PROVE  /\ Audit(b, h) \in Results(2)
         /\ ~Audit(b, h).skipped => Looked(b, h)
<1> DEFINE report == EngineReport(b, h)
           Ran == /\ h.configured /\ Preflight(h) /\ ~StagingRefused(b) /\ h.engine # "error"
                  /\ ReportHolds(report, Planned(b))
<1>1. CASE ~Ran
  <2>1. Audit(b, h) = Skipped(2)
    BY <1>1 DEF Audit
  <2>2. Skipped(2) \in Results(2) /\ Skipped(2).skipped
    BY DEF Skipped, Results
  <2> QED BY <2>1, <2>2
<1>2. CASE Ran
  <2>1. Audit(b, h) = ResultFrom(2, report.found, AuditSeverity)
    BY <1>2 DEF Audit
  <2>2. h.engine = "runs" /\ IsFindings(h.found)
    <3>1. ~report.timedOut /\ h.engine # "error"
      BY <1>2 DEF ReportHolds
    <3>2. h.engine # "timeout"
      BY <3>1 DEF EngineReport
    <3> QED BY <3>1, <3>2, WaveAssumption
  <2>3. report.found = h.found /\ report.analyzed = Planned(b) \ h.unseen
    BY <2>2 DEF EngineReport
  <2>4. Audit(b, h) \in Results(2)
    BY <2>1, <2>2, <2>3, ResultType, SeverityType, CodesFinite
  <2>5. Planned(b) \cap h.unseen = {}
    BY <1>2, <2>3 DEF ReportHolds
  <2>6. "SKILL.md" \notin h.unseen
    BY <2>5 DEF Planned
  <2>7. ASSUME NEW p \in FilesOf[b], Normal[p] \notin ConfigNames
        PROVE  /\ Normal[p] \notin {"refused", "SKILL.md"} \cup h.unseen
               /\ \A q \in FilesOf[b] : Normal[q] = Normal[p] => q = p
    <3>1. Normal[p] \in Planned(b)
      BY <2>7 DEF Planned
    <3> QED BY <1>2, <2>5, <3>1 DEF StagingRefused
  <2>8. Looked(b, h)
    BY <1>2, <2>2, <2>6, <2>7 DEF Looked, Preflight
  <2> QED BY <2>4, <2>8
<1> QED
  BY <1>1, <1>2

\* A judge that has not drifted is as good as in each of the three runs before.
LEMMA NotDrifted ==
  ASSUME NEW kappas \in Seq(-100..100), kappas # <<>>, ~Drifted(kappas)
  PROVE  /\ Last(kappas) >= 60
         /\ \A i \in DOMAIN kappas : i + 3 >= Len(kappas) => kappas[i] < Last(kappas) + 10
<1> DEFINE near == {k \in DOMAIN kappas : k < Len(kappas) /\ k + 3 >= Len(kappas)}
           before == {kappas[i] : i \in near}
<1>0. PICK L : L = Len(kappas)
  OBVIOUS
<1>1. L \in Nat \ {0} /\ DOMAIN kappas = 1..L /\ \A i \in 1..L : kappas[i] \in -100..100
  <2>1. PICK S : S = -100..100
    OBVIOUS
  <2>2. kappas \in Seq(S)
    BY <2>1
  <2>3. L \in Nat \ {0} /\ DOMAIN kappas = 1..L /\ \A i \in 1..L : kappas[i] \in S
    BY <1>0, <2>2, EmptySeq
  <2> QED BY <2>1, <2>3
<1>2. PICK latest \in -100..100 : latest = Last(kappas) /\ latest = kappas[L]
  <2>1. L \in 1..L
    BY <1>1
  <2> QED BY <1>0, <1>1, <2>1 DEF Last
<1>3. ~(latest < 60) /\ (before = {} \/ ~(Max(before) >= latest + 10))
  BY <1>2 DEF Drifted
<1>4. ASSUME NEW i \in DOMAIN kappas, i + 3 >= Len(kappas)
      PROVE  kappas[i] < latest + 10
  <2>1. CASE i = L
    BY <1>2, <2>1
  <2>2. CASE i # L
    <3>0. i \in 1..L /\ i < L
      BY <1>1, <2>2
    <3>1. i \in near
      BY <1>0, <1>1, <1>4, <3>0
    <3>2. kappas[i] \in before
      BY <3>1
    <3>3. ASSUME NEW x \in before PROVE x \in Int /\ x <= 100
      <4>1. PICK k \in near : x = kappas[k]
        BY Zenon
      <4>2. k \in 1..L
        BY <1>1
      <4>3. x \in -100..100
        BY <1>1, <4>1, <4>2
      <4> QED BY <4>3
    <3>4. kappas[i] \in Int
      BY <3>2, <3>3
    <3> HIDE DEF before
    <3>5. Max(before) \in Int /\ Max(before) >= kappas[i]
      <4>1. before \in SUBSET Int /\ before # {} /\ 100 \in Int
        BY <3>2, <3>3
      <4>2. Max(before) \in before /\ \A y \in before : Max(before) >= y
        BY <3>3, <4>1, MaxBelow
      <4> QED BY <3>2, <3>3, <4>2
    <3>6. ~(Max(before) >= latest + 10)
      BY <1>3, <3>2
    <3> QED BY <3>4, <3>5, <3>6
  <2> QED BY <2>1, <2>2
<1> QED
  BY <1>2, <1>3, <1>4

\* A score of the judge was given by one that was calibrated, approved, local
\* and pinned.
LEMMA JudgeHeard ==
  ASSUME NEW j \in Judges
  PROVE  /\ Judge(j) \in Results(5)
         /\ ~Judge(j).skipped => Heard(j)
<1> DEFINE Silent == Uncalibrated(j) \/ j.sameFamily \/ OllamaRefuses(j)
<1>1. CASE Silent
  <2>1. Judge(j) = Skipped(5)
    BY <1>1 DEF Judge
  <2>2. Skipped(5) \in Results(5) /\ Skipped(5).skipped
    BY DEF Skipped, Results
  <2> QED BY <2>1, <2>2
<1>2. CASE ~Silent
  <2>1. Judge(j) = [stage |-> 5, score |-> j.reply, hard |-> FALSE, skipped |-> FALSE]
    BY <1>2 DEF Judge
  <2>2. j.approved /\ j.loopback /\ j.pinned /\ ~j.sameFamily /\ ~(j.reply > 100)
    BY <1>2 DEF OllamaRefuses
  <2>3. j.reply \in Nat /\ j.kappas \in Seq(-100..100)
    BY WaveAssumption
  <2>4. j.reply \in 0..100
    <3>1. PICK reply \in Nat : reply = j.reply
      BY <2>3
    <3>2. ~(reply > 100)
      BY <2>2, <3>1
    <3> QED BY <3>1, <3>2
  <2>5. j.kappas # <<>> /\ ~Drifted(j.kappas)
    BY <1>2 DEF Uncalibrated
  <2>6. PICK kappas \in Seq(-100..100) : kappas = j.kappas
    BY <2>3
  <2>7. /\ Last(kappas) >= 60
        /\ \A i \in DOMAIN kappas : i + 3 >= Len(kappas) => kappas[i] < Last(kappas) + 10
    BY <2>5, <2>6, NotDrifted
  <2>8. Heard(j)
    BY <2>2, <2>4, <2>5, <2>6, <2>7 DEF Heard
  <2>9. Judge(j) \in Results(5)
    BY <2>1, <2>4 DEF Results
  <2> QED BY <2>8, <2>9
<1> QED
  BY <1>1, <1>2

\* Only stages 2 and 5 may be skipped, no score leaves 0..100, and a stage
\* that was not skipped did look.
LEMMA OutcomeType ==
  ASSUME NEW w \in Waves, NEW stage \in Stages, NEW b \in Contents,
         NEW o \in Outcomes(w, stage, b)
  PROVE  o.result \in Results(stage) /\ o.real \in BOOLEAN /\ (~o.result.skipped => o.real)
<1>0. IsFindings(CodesOf[b])
  BY ScannersAssumption
<1>1. Static(b) \in Results(1)
  BY <1>0, ResultType, SeverityType, CodesFinite DEF Static
<1>2. Probe(b) \in Results(3)
  BY <1>0, ResultType, SeverityType, CodesFinite DEF Probe
<1>3. Secrets(b) \in Results(4)
  BY <1>0, ResultType, SeverityType, CodesFinite DEF Secrets
<1>4. stage \in {1, 2, 3, 4, 5}
  BY DEF Stages
<1>5. CASE stage = 1
  <2>1. o = Outcome(Static(b), TRUE)
    BY <1>5 DEF Outcomes
  <2>2. o.result = Static(b) /\ o.real = TRUE
    BY <2>1 DEF Outcome
  <2> QED BY <1>1, <1>5, <2>2
<1>6. CASE stage = 2
  <2>1. PICK h \in Hosts : o = Outcome(Audit(b, h), Looked(b, h))
    BY <1>6 DEF Outcomes
  <2>2. o.result = Audit(b, h) /\ o.real = Looked(b, h)
    BY <2>1 DEF Outcome
  <2>3. Looked(b, h) \in BOOLEAN
    BY Zenon DEF Looked
  <2> QED BY <1>6, <2>2, <2>3, AuditLooked
<1>7. CASE stage = 3
  <2>1. o = Outcome(Probe(b), TRUE)
    BY <1>7 DEF Outcomes
  <2>2. o.result = Probe(b) /\ o.real = TRUE
    BY <2>1 DEF Outcome
  <2> QED BY <1>2, <1>7, <2>2
<1>8. CASE stage = 4
  <2>1. o = Outcome(Secrets(b), TRUE)
    BY <1>8 DEF Outcomes
  <2>2. o.result = Secrets(b) /\ o.real = TRUE
    BY <2>1 DEF Outcome
  <2> QED BY <1>3, <1>8, <2>2
<1>9. CASE stage = 5
  <2>1. CASE wave[w].judge
    <3>1. PICK j \in Judges : o = Outcome(Judge(j), Heard(j))
      BY <1>9, <2>1 DEF Outcomes
    <3>2. o.result = Judge(j) /\ o.real = Heard(j)
      BY <3>1 DEF Outcome
    <3>3. Heard(j) \in BOOLEAN
      BY Zenon DEF Heard
    <3> QED BY <1>9, <3>2, <3>3, JudgeHeard
  <2>2. CASE ~wave[w].judge
    <3>1. o = Outcome(Skipped(5), FALSE)
      BY <1>9, <2>2 DEF Outcomes
    <3>2. Skipped(5) \in Results(5) /\ Skipped(5).skipped
      BY DEF Skipped, Results
    <3> QED BY <1>9, <3>1, <3>2 DEF Outcome
  <2> QED BY <2>1, <2>2
<1> QED
  BY <1>4, <1>5, <1>6, <1>7, <1>8, <1>9

-----------------------------------------------------------------------------
(* Well-formed waves, and what each action does.                           *)

\* What the state of a wave and the records it appends are made of.
Pcs == {"idle", "lookup", "capture", "security", "scan", "review", "concluded", "journal"}

Verdicts == {"none", "approve", "reject", "request-changes"}

Statuses == {"none", "error", "blocked", "awaiting", "changes-requested"}

Marks == {"passed", "failed", "not_run", "not_sampled"}

Ids == [ver : Nat, run : Nat, turn : Nat, stage : Stages]

Locals == [pc : Pcs, run : Nat, todo : Seq(Items), judge : BOOLEAN, required : BOOLEAN,
           ver : Nat, saw : Nat, met : Nat, own : SUBSET Ids, verdict : Verdicts,
           status : Statuses]

VersionType == [item : Items, saw : Nat]

ScanType == [ver : Nat, run : Nat, turn : Nat, stage : Stages, score : 0..100, hard : BOOLEAN,
             status : Marks, real : BOOLEAN]

ReviewType == [ver : Nat, run : Nat, turn : Nat, refs : SUBSET Ids, verdict : Verdicts,
               aggregate : Nat, judged : BOOLEAN, met : Nat]

RunType == [sel : Seq(Items), ended : {"no", "done", "stopped"}]

LineType == [run : Nat, item : Items, status : Statuses, ver : Nat, verdict : Verdicts]

\* Every artifact and every wave is well formed, and a wave at work has an item.
Formed ==
  /\ versions \in Seq(VersionType)
  /\ scans \subseteq ScanType
  /\ reviews \in Seq(ReviewType)
  /\ runs \in Seq(RunType)
  /\ journal \in Seq(LineType)
  /\ wave \in [Waves -> Locals]
  /\ \A w \in Waves : wave[w].pc # "idle" => wave[w].todo # <<>>

\* Members of well-formed sequences.
LEMMA Elements ==
  ASSUME Formed
  PROVE  /\ DOMAIN versions = 1..Len(versions) /\ Len(versions) \in Nat
         /\ \A i \in DOMAIN versions : versions[i] \in VersionType
         /\ DOMAIN reviews = 1..Len(reviews) /\ Len(reviews) \in Nat
         /\ \A i \in DOMAIN reviews : reviews[i] \in ReviewType
         /\ DOMAIN runs = 1..Len(runs) /\ Len(runs) \in Nat
         /\ \A i \in DOMAIN runs : runs[i] \in RunType
         /\ DOMAIN journal = 1..Len(journal) /\ Len(journal) \in Nat
         /\ \A i \in DOMAIN journal : journal[i] \in LineType
         /\ \A w \in Waves : wave[w] \in Locals
BY DEF Formed

\* A selection is made of items, and a wave at work has one.
LEMMA SelectionType ==
  ASSUME NEW sel \in Selections
  PROVE  sel \in Seq(Items)
<1>1. sel \in Seq(Range(sel))
  BY WaveAssumption
<1>2. Range(sel) \subseteq Items
  BY DEF Items
<1> QED
  BY <1>1, <1>2

LEMMA ItemType ==
  ASSUME Formed, NEW w \in Waves, wave[w].pc # "idle"
  PROVE  Item(w) \in Items /\ Turn(w) \in Nat /\ Turn(w) >= 1
BY DEF Formed, Locals, Item, Turn

\* What the pipeline derives from a scan.
LEMMA StatusType == ASSUME NEW r, r.hard \in BOOLEAN PROVE Status(r) \in Marks
BY DEF Status, Marks

LEMMA AggregateType ==
  ASSUME NEW records \in SUBSET ScanType
  PROVE  Aggregate(records) \in Nat
<1> DEFINE measured == {s.score : s \in {r \in records : Sampled(r.status)}}
<1>1. measured \in SUBSET Nat
  BY DEF ScanType
<1>2. measured # {} => Min(measured) \in Nat
  BY <1>1, MinIs
<1>3. Aggregate(records) = IF measured = {} THEN 100 ELSE Min(measured)
  BY DEF Aggregate
<1> QED
  BY <1>2, <1>3

LEMMA VerdictType ==
  ASSUME NEW records
  PROVE  Verdict(records) \in {"approve", "reject", "request-changes"}
BY DEF Verdict

\* The state of one wave replaced.
LEMMA Update ==
  ASSUME wave \in [Waves -> Locals], NEW w \in Waves, NEW new \in Locals,
         wave' = [wave EXCEPT ![w] = new]
  PROVE  /\ wave' \in [Waves -> Locals] /\ wave'[w] = new
         /\ \A v \in Waves : v # w => wave'[v] = wave[v]
OBVIOUS

\* A step of wave w that leaves its item to it.
Works(w) ==
  /\ \A v \in Waves : v # w => wave'[v] = wave[v]
  /\ wave'[w].run = wave[w].run /\ wave'[w].todo = wave[w].todo
  /\ wave' \in [Waves -> Locals]
  /\ wave[w].pc # "idle" /\ wave'[w].pc # "idle"

\* Each action of a wave by its effect on the wave, the store and the run.
LEMMA LookupDoes ==
  ASSUME Formed, NEW w \in Waves, Lookup(w)
  PROVE  /\ Works(w) /\ wave[w].pc = "lookup"
         /\ wave'[w].verdict = wave[w].verdict
         /\ \/ /\ wave'[w].pc = "security" /\ wave'[w].ver \in Exact(w)
               /\ wave'[w].status = wave[w].status
            \/ wave'[w].pc = "journal" /\ wave'[w].status = "error"
            \/ /\ Collisions(w) = {} /\ Exact(w) = {}
               /\ wave'[w].pc = "capture" /\ wave'[w].saw = Len(versions)
               /\ wave'[w].status = wave[w].status
<1>1. wave \in [Waves -> Locals] /\ wave[w].pc = "lookup" /\ wave[w] \in Locals
  BY DEF Formed, Lookup
<1>2. CASE Exact(w) # {}
  <2>1. Len(versions) \in Nat /\ Exact(w) \in SUBSET (1..Len(versions))
    BY DEF Formed, Exact
  <2>2. PICK m \in Exact(w) : m = Max(Exact(w))
    BY <2>1, <1>2, MaxIs
  <2>3. m \in Nat
    BY <2>1
  <2> DEFINE new == [wave[w] EXCEPT !.pc = "security", !.ver = m]
  <2>4. new \in Locals
    BY <1>1, <2>3 DEF Locals, Pcs
  <2>5. wave' = [wave EXCEPT ![w] = new]
    BY <1>1, <1>2, <2>2 DEF Lookup
  <2>6. /\ new.pc = "security" /\ new.ver = m /\ new.verdict = wave[w].verdict
        /\ new.status = wave[w].status /\ new.run = wave[w].run /\ new.todo = wave[w].todo
    BY <1>1 DEF Locals
  <2> HIDE DEF new
  <2> QED BY <1>1, <2>2, <2>4, <2>5, <2>6, Update DEF Works
<1>3. CASE Exact(w) = {} /\ Collisions(w) # {}
  <2> DEFINE new == [wave[w] EXCEPT !.pc = "journal", !.status = "error"]
  <2>1. new \in Locals
    BY <1>1 DEF Locals, Pcs, Statuses
  <2>2. wave' = [wave EXCEPT ![w] = new]
    BY <1>1, <1>3 DEF Lookup
  <2>3. /\ new.pc = "journal" /\ new.status = "error" /\ new.verdict = wave[w].verdict
        /\ new.run = wave[w].run /\ new.todo = wave[w].todo
    BY <1>1 DEF Locals
  <2> HIDE DEF new
  <2> QED BY <1>1, <2>1, <2>2, <2>3, Update DEF Works
<1>4. CASE Exact(w) = {} /\ Collisions(w) = {}
  <2> DEFINE new == [wave[w] EXCEPT !.pc = "capture", !.saw = Len(versions)]
  <2>0. Len(versions) \in Nat
    BY DEF Formed
  <2>1. new \in Locals
    BY <1>1, <2>0 DEF Locals, Pcs
  <2>2. wave' = [wave EXCEPT ![w] = new]
    BY <1>1, <1>4 DEF Lookup
  <2>3. /\ new.pc = "capture" /\ new.saw = Len(versions) /\ new.verdict = wave[w].verdict
        /\ new.status = wave[w].status /\ new.run = wave[w].run /\ new.todo = wave[w].todo
    BY <1>1 DEF Locals
  <2> HIDE DEF new
  <2> QED BY <1>1, <1>4, <2>1, <2>2, <2>3, Update DEF Works
<1> QED
  BY <1>2, <1>3, <1>4

LEMMA CaptureDoes ==
  ASSUME Formed, NEW w \in Waves, Capture(w)
  PROVE  /\ Works(w) /\ wave[w].pc = "capture"
         /\ wave'[w].verdict = wave[w].verdict /\ wave'[w].status = wave[w].status
         /\ wave'[w].pc = "security" /\ wave'[w].ver = Len(versions) + 1
         /\ [item |-> Item(w), saw |-> wave[w].saw] \in VersionType
         /\ versions' = Append(versions, [item |-> Item(w), saw |-> wave[w].saw])
<1>1. wave \in [Waves -> Locals] /\ wave[w].pc = "capture" /\ wave[w] \in Locals
  BY DEF Formed, Capture
<1>2. PICK n \in Nat : n = Len(versions) + 1
  BY DEF Formed
<1> DEFINE new == [wave[w] EXCEPT !.pc = "security", !.ver = n]
<1>3. new \in Locals
  BY <1>1, <1>2 DEF Locals, Pcs
<1>4. wave' = [wave EXCEPT ![w] = new]
  BY <1>1, <1>2 DEF Capture
<1>5. /\ new.pc = "security" /\ new.ver = n /\ new.verdict = wave[w].verdict
      /\ new.status = wave[w].status /\ new.run = wave[w].run /\ new.todo = wave[w].todo
  BY <1>1 DEF Locals
<1>6. Item(w) \in Items /\ wave[w].saw \in Nat
  BY <1>1, ItemType DEF Locals
<1>7. versions' = Append(versions, [item |-> Item(w), saw |-> wave[w].saw])
  BY DEF Capture
<1> HIDE DEF new
<1>8. /\ Works(w) /\ wave'[w].verdict = wave[w].verdict /\ wave'[w].status = wave[w].status
      /\ wave'[w].pc = "security" /\ wave'[w].ver = n
  BY <1>1, <1>3, <1>4, <1>5, Update DEF Works
<1> QED
  BY <1>1, <1>2, <1>6, <1>7, <1>8 DEF VersionType

\* A wave that has concluded with a verdict that some aggregate gave.
Concluding(w, verdict) ==
  /\ wave'[w].pc \in {"concluded", "journal"} /\ wave'[w].ver = wave[w].ver
  /\ wave'[w].verdict = verdict
  /\ wave'[w].status = "awaiting" => verdict = "approve"

LEMMA Concludes ==
  ASSUME Formed, NEW w \in Waves, wave[w].pc # "idle", NEW verdict \in Verdicts,
         Conclude(w, verdict)
  PROVE  Works(w) /\ Concluding(w, verdict)
<1>1. wave \in [Waves -> Locals] /\ wave[w] \in Locals
  BY DEF Formed
<1> DEFINE new == [wave[w] EXCEPT !.pc = "concluded", !.verdict = verdict,
                     !.status = IF verdict = "approve" THEN "awaiting" ELSE "changes-requested"]
<1>2. new \in Locals
  BY <1>1 DEF Locals, Pcs, Statuses
<1>3. wave' = [wave EXCEPT ![w] = new]
  BY <1>1 DEF Conclude
<1>4. /\ new.pc = "concluded" /\ new.ver = wave[w].ver /\ new.verdict = verdict
      /\ new.run = wave[w].run /\ new.todo = wave[w].todo
      /\ new.status = IF verdict = "approve" THEN "awaiting" ELSE "changes-requested"
  BY <1>1 DEF Locals
<1> HIDE DEF new
<1>5. wave'[w] = new
  BY <1>1, <1>2, <1>3, Update
<1>6. Concluding(w, verdict)
  BY <1>4, <1>5 DEF Concluding
<1> QED
  BY <1>1, <1>2, <1>3, <1>4, <1>6, Update DEF Works

LEMMA SecurityDoes ==
  ASSUME Formed, NEW w \in Waves, Security(w)
  PROVE  /\ Works(w) /\ wave[w].pc = "security"
         /\ \/ /\ ReviewsOf(w) = {}
               /\ wave'[w].pc = "scan" /\ wave'[w].own = {} /\ wave'[w].met = Len(reviews)
               /\ wave'[w].ver = wave[w].ver
               /\ wave'[w].verdict = wave[w].verdict /\ wave'[w].status = wave[w].status
            \/ \E i \in ReviewsOf(w) : Concluding(w, reviews[i].verdict)
<1>1. wave \in [Waves -> Locals] /\ wave[w].pc = "security" /\ wave[w] \in Locals
  BY DEF Formed, Security
<1>2. CASE ReviewsOf(w) = {}
  <2>1. PICK n \in Nat : n = Len(reviews)
    BY DEF Formed
  <2> DEFINE new == [wave[w] EXCEPT !.pc = "scan", !.own = {}, !.met = n]
  <2>2. new \in Locals
    BY <1>1 DEF Locals, Pcs
  <2>3. wave' = [wave EXCEPT ![w] = new]
    BY <1>1, <1>2, <2>1 DEF Security
  <2>4. /\ new.pc = "scan" /\ new.own = {} /\ new.met = n /\ new.ver = wave[w].ver
        /\ new.verdict = wave[w].verdict
        /\ new.status = wave[w].status /\ new.run = wave[w].run /\ new.todo = wave[w].todo
    BY <1>1 DEF Locals
  <2> HIDE DEF new
  <2> QED BY <1>1, <1>2, <2>1, <2>2, <2>3, <2>4, Update DEF Works
<1>3. CASE ReviewsOf(w) # {}
  <2>1. Len(reviews) \in Nat /\ ReviewsOf(w) \in SUBSET (1..Len(reviews))
    BY DEF Formed, ReviewsOf
  <2>2. PICK i \in ReviewsOf(w) : i = Max(ReviewsOf(w))
    BY <2>1, <1>3, MaxIs
  <2>3. reviews[i].verdict \in Verdicts
    BY <2>2, Elements DEF ReviewType, ReviewsOf
  <2>4. Conclude(w, reviews[i].verdict)
    BY <1>3, <2>2 DEF Security, Reused
  <2> QED BY <1>1, <2>3, <2>4, Concludes
<1> QED
  BY <1>2, <1>3

\* What is known of a scan whatever was scanned: a stage that counts as sampled
\* did look.
Honest(s) == Sampled(s.status) => s.real

LEMMA ScanDoes ==
  ASSUME Formed, NEW w \in Waves, Scan(w), Cardinality(wave[w].own) + 1 \in Stages
  PROVE  /\ Works(w) /\ wave[w].pc = "scan"
         /\ wave'[w].verdict = wave[w].verdict /\ wave'[w].status = wave[w].status
         /\ wave'[w].ver = wave[w].ver /\ wave'[w].met = wave[w].met
         /\ \E s \in ScanType :
              /\ s.ver = wave[w].ver /\ s.run = wave[w].run /\ s.turn = Turn(w)
              /\ s.stage = Cardinality(wave[w].own) + 1
              /\ Honest(s)
              /\ scans' = scans \cup {s}
              /\ wave'[w].pc = (IF s.stage = 5 THEN "review" ELSE "scan")
              /\ wave'[w].own = wave[w].own \cup {Id(s)}
<1>1. wave \in [Waves -> Locals] /\ wave[w].pc = "scan" /\ wave[w] \in Locals
  BY DEF Formed, Scan
<1>2. PICK stage \in Stages : stage = Cardinality(wave[w].own) + 1
  OBVIOUS
<1>3. PICK o \in Outcomes(w, stage, Item(w).content) :
        LET r == o.result
            s == [ver |-> wave[w].ver, run |-> wave[w].run, turn |-> Turn(w), stage |-> r.stage,
                 score |-> r.score, hard |-> r.hard, status |-> Status(r), real |-> o.real]
        IN /\ scans' = scans \cup {s}
           /\ wave' = [wave EXCEPT ![w].pc = IF r.stage = 5 THEN "review" ELSE "scan",
                                   ![w].own = @ \cup {Id(s)}]
  BY <1>2 DEF Scan
<1> DEFINE r == o.result
<1>4. r \in Results(stage) /\ o.real \in BOOLEAN /\ (~r.skipped => o.real)
  <2>1. Item(w).content \in Contents
    BY <1>1, ItemType, WaveAssumption
  <2> QED BY <2>1, OutcomeType
<1>5. /\ r.stage = stage /\ r.score \in 0..100 /\ r.hard \in BOOLEAN /\ r.skipped \in BOOLEAN
      /\ r.skipped => stage \in {2, 5}
  <2> HIDE DEF r
  <2> QED BY <1>4 DEF Results
<1>6. Status(r) \in Marks
  BY <1>5, StatusType
<1>7. wave[w].ver \in Nat /\ wave[w].run \in Nat /\ Turn(w) \in Nat
  BY <1>1, ItemType DEF Locals
<1> DEFINE s == [ver |-> wave[w].ver, run |-> wave[w].run, turn |-> Turn(w), stage |-> r.stage,
                 score |-> r.score, hard |-> r.hard, status |-> Status(r), real |-> o.real]
           new == [wave[w] EXCEPT !.pc = IF r.stage = 5 THEN "review" ELSE "scan",
                                  !.own = @ \cup {Id(s)}]
<1>8. s \in ScanType
  <2> HIDE DEF r
  <2> QED BY <1>4, <1>5, <1>6, <1>7 DEF ScanType
<1>9. Id(s) \in Ids
  BY <1>5, <1>7 DEF Id, Ids
<1>10. Honest(s)
  <2>1. s.real = o.real /\ s.status = Status(r)
    OBVIOUS
  <2> HIDE DEF r
  <2>2. r.skipped => Status(r) \in {"not_run", "not_sampled"}
    BY <1>5 DEF Status
  <2> HIDE DEF s
  <2> QED BY <1>4, <2>1, <2>2 DEF Honest, Sampled
<1>11. s.ver = wave[w].ver /\ s.run = wave[w].run /\ s.turn = Turn(w) /\ s.stage = stage
  BY <1>5
<1>12. scans' = scans \cup {s} /\ wave' = [wave EXCEPT ![w] = new]
  BY <1>1, <1>3
<1> HIDE DEF s
<1>13. new \in Locals
  BY <1>1, <1>9 DEF Locals, Pcs
<1>14. /\ new.pc = (IF r.stage = 5 THEN "review" ELSE "scan")
       /\ new.own = wave[w].own \cup {Id(s)}
       /\ new.verdict = wave[w].verdict /\ new.status = wave[w].status
       /\ new.ver = wave[w].ver /\ new.met = wave[w].met
       /\ new.run = wave[w].run /\ new.todo = wave[w].todo
  BY <1>1 DEF Locals
<1> HIDE DEF new
<1>15. wave'[w] = new /\ Works(w)
  BY <1>1, <1>12, <1>13, <1>14, Update DEF Works
<1> QED
  BY <1>1, <1>2, <1>5, <1>8, <1>10, <1>11, <1>12, <1>14, <1>15

LEMMA ReviewDoes ==
  ASSUME Formed, NEW w \in Waves, Review(w)
  PROVE  /\ Works(w) /\ wave[w].pc = "review"
         /\ \E e \in ReviewType :
              /\ e.ver = wave[w].ver /\ e.run = wave[w].run /\ e.turn = Turn(w)
              /\ e.refs = wave[w].own /\ e.met = wave[w].met
              /\ e.verdict = Verdict(Records(wave[w].own))
              /\ reviews' = Append(reviews, e)
              /\ Concluding(w, e.verdict)
<1>1. wave \in [Waves -> Locals] /\ wave[w].pc = "review" /\ wave[w] \in Locals
  BY DEF Formed, Review
<1> DEFINE records == Records(wave[w].own)
<1>2. records \in SUBSET ScanType
  BY DEF Formed, Records
<1>3. PICK verdict \in Verdicts : verdict = Verdict(records)
  BY VerdictType DEF Verdicts
<1>4. PICK aggregate \in Nat : aggregate = Aggregate(records)
  BY <1>2, AggregateType
<1> DEFINE e == [ver |-> wave[w].ver, run |-> wave[w].run, turn |-> Turn(w), refs |-> wave[w].own,
                 verdict |-> verdict, aggregate |-> aggregate,
                 judged |-> wave[w].required, met |-> wave[w].met]
<1>5. reviews' = Append(reviews, e)
  BY <1>3, <1>4 DEF Review, ScanRefs
<1>6. /\ wave[w].ver \in Nat /\ wave[w].run \in Nat /\ Turn(w) \in Nat /\ wave[w].own \in SUBSET Ids
      /\ wave[w].required \in BOOLEAN /\ wave[w].met \in Nat
  BY <1>1, ItemType DEF Locals
<1>7. e \in ReviewType
  BY <1>6 DEF ReviewType
<1>8. Works(w) /\ Concluding(w, verdict)
  <2>1. CASE \E r \in records : r.hard
    <3> DEFINE new == [wave[w] EXCEPT !.pc = "journal", !.verdict = verdict, !.status = "blocked"]
    <3>1. new \in Locals
      BY <1>1 DEF Locals, Pcs, Statuses
    <3>2. wave' = [wave EXCEPT ![w] = new]
      BY <1>1, <2>1, <1>3 DEF Review, ScanRefs
    <3>3. /\ new.pc = "journal" /\ new.ver = wave[w].ver /\ new.verdict = verdict
          /\ new.run = wave[w].run /\ new.todo = wave[w].todo /\ new.status = "blocked"
      BY <1>1 DEF Locals
    <3> HIDE DEF new
    <3>4. wave'[w] = new
      BY <1>1, <3>1, <3>2, Update
    <3>5. Concluding(w, verdict)
      BY <3>3, <3>4 DEF Concluding
    <3> QED BY <1>1, <3>1, <3>2, <3>3, <3>5, Update DEF Works
  <2>2. CASE ~ \E r \in records : r.hard
    <3>1. Conclude(w, verdict)
      BY <2>2, <1>3 DEF Review, ScanRefs
    <3> QED BY <1>1, <3>1, Concludes
  <2> QED BY <2>1, <2>2
<1>9. /\ e.ver = wave[w].ver /\ e.run = wave[w].run /\ e.turn = Turn(w)
      /\ e.refs = wave[w].own /\ e.met = wave[w].met /\ e.verdict = verdict
  OBVIOUS
<1> HIDE DEF e
<1> QED
  BY <1>1, <1>3, <1>5, <1>7, <1>8, <1>9

LEMMA ItemFailsDoes ==
  ASSUME Formed, NEW w \in Waves, ItemFails(w)
  PROVE  /\ Works(w)
         /\ wave'[w].pc = "journal" /\ wave'[w].verdict = "none" /\ wave'[w].status = "error"
<1>1. wave \in [Waves -> Locals] /\ wave[w].pc # "idle" /\ wave[w] \in Locals
  BY DEF Formed, ItemFails
<1> DEFINE new == [wave[w] EXCEPT !.pc = "journal", !.verdict = "none", !.status = "error"]
<1>2. new \in Locals
  BY <1>1 DEF Locals, Pcs, Statuses, Verdicts
<1>3. wave' = [wave EXCEPT ![w] = new]
  BY <1>1 DEF ItemFails
<1>4. /\ new.pc = "journal" /\ new.verdict = "none" /\ new.status = "error"
      /\ new.run = wave[w].run /\ new.todo = wave[w].todo
  BY <1>1 DEF Locals
<1> HIDE DEF new
<1> QED
  BY <1>1, <1>2, <1>3, <1>4, Update DEF Works

\* A wave that is over is as good as new.
LEMMA IdleType == Idle \in Locals /\ Idle.pc = "idle" /\ Idle.verdict = "none" /\ Idle.status = "none"
<1>1. <<>> \in Seq(Items)
  OBVIOUS
<1> QED
  BY <1>1 DEF Idle, Locals, Pcs, Verdicts, Statuses

\* A wave is over.
Ends(w) ==
  /\ wave' \in [Waves -> Locals] /\ wave'[w] = Idle
  /\ \A v \in Waves : v # w => wave'[v] = wave[v]

LEMMA StopDoes ==
  ASSUME Formed, NEW w \in Waves, Stop(w)
  PROVE  /\ Ends(w) /\ wave[w].pc # "idle"
         /\ runs' = [runs EXCEPT ![wave[w].run].ended = "stopped"]
<1>1. wave \in [Waves -> Locals] /\ wave[w].pc # "idle" /\ wave' = [wave EXCEPT ![w] = Idle]
  BY DEF Formed, Stop
<1> QED
  BY <1>1, IdleType, Update DEF Ends, Stop

LEMMA JournalDoes ==
  ASSUME Formed, NEW w \in Waves, Journal(w)
  PROVE  /\ wave[w].pc \in {"concluded", "journal"}
         /\ \E l \in LineType :
              /\ l = [run |-> wave[w].run, item |-> Item(w), status |-> wave[w].status,
                      ver |-> wave[w].ver, verdict |-> wave[w].verdict]
              /\ journal' = Append(journal, l)
         /\ \/ /\ Len(wave[w].todo) = 1 /\ Ends(w)
               /\ runs' = [runs EXCEPT ![wave[w].run].ended = "done"]
            \/ /\ Len(wave[w].todo) > 1 /\ UNCHANGED runs
               /\ wave' \in [Waves -> Locals]
               /\ \A v \in Waves : v # w => wave'[v] = wave[v]
               /\ wave'[w].pc = "lookup" /\ wave'[w].run = wave[w].run
               /\ wave'[w].todo = Tail(wave[w].todo)
               /\ wave'[w].verdict = "none" /\ wave'[w].status = "none"
<1>1. wave \in [Waves -> Locals] /\ wave[w].pc \in {"concluded", "journal"} /\ wave[w] \in Locals
  BY DEF Formed, Journal
<1>2. Item(w) \in Items /\ Len(wave[w].todo) \in Nat /\ Len(wave[w].todo) >= 1
  BY <1>1, ItemType DEF Turn
<1>3. /\ wave[w].run \in Nat /\ wave[w].status \in Statuses /\ wave[w].ver \in Nat
      /\ wave[w].verdict \in Verdicts /\ wave[w].todo \in Seq(Items)
  BY <1>1 DEF Locals
<1>4. journal' = Append(journal, [run |-> wave[w].run, item |-> Item(w), status |-> wave[w].status,
                                  ver |-> wave[w].ver, verdict |-> wave[w].verdict])
  BY DEF Journal, WithLine
<1>5. [run |-> wave[w].run, item |-> Item(w), status |-> wave[w].status,
       ver |-> wave[w].ver, verdict |-> wave[w].verdict] \in LineType
  BY <1>2, <1>3 DEF LineType
<1>6. CASE Len(wave[w].todo) = 1
  <2>1. wave' = [wave EXCEPT ![w] = Idle] /\ runs' = [runs EXCEPT ![wave[w].run].ended = "done"]
    BY <1>6 DEF Journal
  <2>2. Ends(w)
    BY <1>1, <2>1, IdleType, Update DEF Ends
  <2> QED BY <1>1, <1>4, <1>5, <1>6, <2>1, <2>2
<1>7. CASE Len(wave[w].todo) # 1
  <2> DEFINE new == [wave[w] EXCEPT !.pc = "lookup", !.todo = Tail(wave[w].todo), !.ver = 0,
                                    !.verdict = "none", !.status = "none"]
  <2>1. Tail(wave[w].todo) \in Seq(Items)
    BY <1>2, <1>3
  <2>2. new \in Locals
    BY <1>1, <2>1 DEF Locals, Pcs, Verdicts, Statuses
  <2>3. wave' = [wave EXCEPT ![w] = new] /\ UNCHANGED runs
    BY <1>1, <1>7 DEF Journal
  <2>4. /\ new.pc = "lookup" /\ new.run = wave[w].run /\ new.todo = Tail(wave[w].todo)
        /\ new.verdict = "none" /\ new.status = "none"
    BY <1>1 DEF Locals
  <2> HIDE DEF new
  <2>5. Len(wave[w].todo) > 1
    <3>1. \A k \in Nat : k >= 1 /\ k # 1 => k > 1
      OBVIOUS
    <3> QED BY <1>2, <1>7, <3>1
  <2>6. /\ wave' \in [Waves -> Locals] /\ wave'[w] = new
        /\ \A v \in Waves : v # w => wave'[v] = wave[v]
    BY <1>1, <2>2, <2>3, Update
  <2> QED BY <1>1, <1>4, <1>5, <2>3, <2>4, <2>5, <2>6
<1> QED
  BY <1>6, <1>7

LEMMA BeginDoes ==
  ASSUME Formed, NEW w \in Waves, Begin(w)
  PROVE  /\ wave[w].pc = "idle"
         /\ wave' \in [Waves -> Locals] /\ \A v \in Waves : v # w => wave'[v] = wave[v]
         /\ \E sel \in Seq(Items) :
              /\ sel # <<>>
              /\ runs' = Append(runs, [sel |-> sel, ended |-> "no"])
              /\ [sel |-> sel, ended |-> "no"] \in RunType
              /\ wave'[w].todo = sel
         /\ wave'[w].pc = "lookup" /\ wave'[w].run = Len(runs) + 1
         /\ wave'[w].verdict = "none" /\ wave'[w].status = "none"
<1>1. wave \in [Waves -> Locals] /\ wave[w].pc = "idle"
  BY DEF Formed, Begin
<1>2. PICK sel \in Selections, setup \in Setups :
        /\ Len(sel) \in 1..MaxBatch
        /\ runs' = Append(runs, [sel |-> sel, ended |-> "no"])
        /\ wave' = [wave EXCEPT ![w] = [Idle EXCEPT
             !.pc = "lookup", !.run = Len(runs) + 1, !.todo = sel,
             !.judge = setup.judge, !.required = setup.required]]
  BY DEF Begin
<1>3. sel \in Seq(Items) /\ sel # <<>>
  BY <1>2, SelectionType
<1>4. PICK n \in Nat : n = Len(runs) + 1
  BY Elements
<1>5. setup.judge \in BOOLEAN /\ setup.required \in BOOLEAN
  BY WaveAssumption
<1> DEFINE new == [Idle EXCEPT !.pc = "lookup", !.run = n, !.todo = sel,
                     !.judge = setup.judge, !.required = setup.required]
<1>6. new \in Locals
  BY <1>3, <1>5, IdleType DEF Locals, Pcs
<1>7. /\ new.pc = "lookup" /\ new.run = n /\ new.todo = sel
      /\ new.verdict = "none" /\ new.status = "none"
  BY DEF Idle
<1>8. wave' = [wave EXCEPT ![w] = new]
  BY <1>2, <1>4
<1> HIDE DEF new
<1>9. [sel |-> sel, ended |-> "no"] \in RunType
  BY <1>3 DEF RunType
<1>10. /\ wave' \in [Waves -> Locals] /\ wave'[w] = new
       /\ \A v \in Waves : v # w => wave'[v] = wave[v]
  BY <1>1, <1>6, <1>8, Update
<1> QED
  BY <1>1, <1>2, <1>3, <1>4, <1>7, <1>9, <1>10

\* Marking the end of one run changes nothing else about runs.
LEMMA RunEnds ==
  ASSUME Formed, NEW n \in Nat, NEW how \in {"no", "done", "stopped"},
         runs' = [runs EXCEPT ![n].ended = how]
  PROVE  /\ runs' \in Seq(RunType) /\ DOMAIN runs' = DOMAIN runs
         /\ \A m \in DOMAIN runs : /\ runs'[m].sel = runs[m].sel
                                   /\ m # n => runs'[m] = runs[m]
                                   /\ m = n => runs'[m].ended = how
<1>1. ASSUME NEW m \in DOMAIN runs
      PROVE  runs'[m] = IF m = n THEN [runs[m] EXCEPT !.ended = how] ELSE runs[m]
  BY DEF Formed
<1>2. DOMAIN runs' = DOMAIN runs /\ DOMAIN runs = 1..Len(runs) /\ Len(runs) \in Nat
  BY DEF Formed
<1>3. ASSUME NEW m \in DOMAIN runs
      PROVE  /\ runs'[m] \in RunType /\ runs'[m].sel = runs[m].sel
             /\ m # n => runs'[m] = runs[m]
             /\ m = n => runs'[m].ended = how
  <2>1. runs[m] \in RunType
    BY Elements
  <2> QED BY <1>1, <2>1 DEF RunType
<1>4. runs' \in [1..Len(runs) -> RunType]
  <2>1. runs \in [1..Len(runs) -> RunType]
    BY DEF Formed
  <2>2. CASE n \in 1..Len(runs)
    <3>1. [runs[n] EXCEPT !.ended = how] \in RunType
      BY <2>1, <2>2 DEF RunType
    <3>2. runs' = [runs EXCEPT ![n] = [runs[n] EXCEPT !.ended = how]]
      BY <2>1, <2>2
    <3> QED BY <2>1, <3>1, <3>2
  <2>3. CASE n \notin 1..Len(runs)
    <3>1. runs' = runs
      BY <2>1, <2>3
    <3> QED BY <2>1, <3>1
  <2> QED BY <2>2, <2>3
<1>5. runs' \in Seq(RunType)
  <2>1. Len(runs) \in Nat
    BY <1>2
  <2> QED BY <1>4, <2>1, FunctionIsSeq
<1> QED
  BY <1>2, <1>3, <1>5

-----------------------------------------------------------------------------
(* Everything is appended, and a wave scans stage by stage.                *)

\* What was appended stays.
Extends(s, t) == DOMAIN s \subseteq DOMAIN t /\ \A i \in DOMAIN s : t[i] = s[i]

\* Nothing that was written is rewritten or removed.
Grows ==
  /\ Extends(versions, versions') /\ Extends(reviews, reviews') /\ Extends(journal, journal')
  /\ scans \subseteq scans'
  /\ DOMAIN runs \subseteq DOMAIN runs' /\ \A n \in DOMAIN runs : runs'[n].sel = runs[n].sel

\* The identity of one scan.
Ref(ver, run, turn, stage) == [ver |-> ver, run |-> run, turn |-> turn, stage |-> stage]

\* The scans of stages 1 to k of one item.
Refs(ver, run, turn, k) == [ver : {ver}, run : {run}, turn : {turn}, stage : 1..k]

\* What wave w has scanned after k stages.
Made(w, k) == Refs(wave[w].ver, wave[w].run, Turn(w), k)

\* A wave scans stage by stage.
Gathering ==
  \A w \in Waves :
    /\ wave[w].pc = "scan" =>
         \E k \in 0..4 : /\ wave[w].own = Made(w, k) /\ Cardinality(wave[w].own) = k
                         /\ IsFiniteSet(wave[w].own)
    /\ wave[w].pc = "review" => wave[w].own = Made(w, 5)

\* A wave that scans has a stage left to run.
LEMMA NextStage ==
  ASSUME Gathering, NEW w \in Waves, Scan(w)
  PROVE  Cardinality(wave[w].own) + 1 \in Stages
BY DEF Gathering, Scan, Stages

\* Every step keeps the records well formed and only appends.
LEMMA FormedNext ==
  ASSUME Formed, Gathering, WaveNext
  PROVE  Formed' /\ Grows
<1> USE DEF Extends
<1>0. wave \in [Waves -> Locals] /\ \A v \in Waves : wave[v].pc # "idle" => wave[v].todo # <<>>
  BY DEF Formed
<1> DEFINE Store == /\ versions' \in Seq(VersionType) /\ scans' \subseteq ScanType
                    /\ reviews' \in Seq(ReviewType) /\ runs' \in Seq(RunType)
                    /\ journal' \in Seq(LineType)
           Busy == wave' \in [Waves -> Locals]
                   /\ \A v \in Waves : wave'[v].pc # "idle" => wave'[v].todo # <<>>
<1>1. SUFFICES Store /\ Busy /\ Grows
  BY DEF Formed
<1>2. PICK w \in Waves :
        \/ Begin(w) \/ Lookup(w) \/ Capture(w) \/ Security(w) \/ Scan(w) \/ Review(w)
        \/ Journal(w) \/ ItemFails(w) \/ Stop(w)
  BY DEF WaveNext
<1>3. ASSUME Works(w) PROVE Busy
  BY <1>0, <1>3 DEF Works
<1>4. ASSUME Ends(w) PROVE Busy
  <2>1. Idle.pc = "idle"
    BY IdleType
  <2> QED BY <1>0, <1>4, <2>1 DEF Ends
<1>5. CASE Begin(w)
  <2>1. PICK sel \in Seq(Items) :
          /\ sel # <<>> /\ runs' = Append(runs, [sel |-> sel, ended |-> "no"])
          /\ [sel |-> sel, ended |-> "no"] \in RunType /\ wave'[w].todo = sel
    BY <1>5, BeginDoes
  <2>2. UNCHANGED <<versions, scans, reviews, journal>>
    BY <1>5 DEF Begin
  <2>3. /\ runs' \in Seq(RunType) /\ DOMAIN runs \subseteq DOMAIN runs'
        /\ \A n \in DOMAIN runs : runs'[n] = runs[n]
    BY <2>1, AppendFacts DEF Formed
  <2>4. Store /\ Grows
    BY <2>2, <2>3 DEF Formed, Grows
  <2>5. Busy
    BY <1>0, <1>5, <2>1, BeginDoes
  <2> QED BY <2>4, <2>5
<1>6. CASE Lookup(w)
  <2>1. UNCHANGED <<versions, scans, reviews, runs, journal>>
    BY <1>6 DEF Lookup
  <2>2. Store /\ Grows
    BY <2>1 DEF Formed, Grows
  <2> QED BY <1>3, <1>6, <2>2, LookupDoes
<1>7. CASE Capture(w)
  <2>1. UNCHANGED <<scans, reviews, runs, journal>>
    BY <1>7 DEF Capture
  <2>2. PICK e \in VersionType : versions' = Append(versions, e)
    BY <1>7, CaptureDoes
  <2>3. versions' \in Seq(VersionType) /\ Extends(versions, versions')
    BY <2>2, AppendFacts DEF Formed
  <2>4. Store /\ Grows
    BY <2>1, <2>3 DEF Formed, Grows
  <2> QED BY <1>3, <1>7, <2>4, CaptureDoes
<1>8. CASE Security(w)
  <2>1. UNCHANGED <<versions, scans, reviews, runs, journal>>
    BY <1>8 DEF Security
  <2>2. Store /\ Grows
    BY <2>1 DEF Formed, Grows
  <2> QED BY <1>3, <1>8, <2>2, SecurityDoes
<1>9. CASE Scan(w)
  <2>1. UNCHANGED <<versions, reviews, runs, journal>>
    BY <1>9 DEF Scan
  <2>2. Cardinality(wave[w].own) + 1 \in Stages
    BY <1>9, NextStage
  <2>3. PICK s \in ScanType : scans' = scans \cup {s}
    BY <1>9, <2>2, ScanDoes
  <2>4. Store /\ Grows
    BY <2>1, <2>3 DEF Formed, Grows
  <2>5. Works(w)
    BY <1>9, <2>2, ScanDoes
  <2> QED BY <1>3, <2>4, <2>5
<1>10. CASE Review(w)
  <2>1. UNCHANGED <<versions, scans, runs, journal>>
    BY <1>10 DEF Review
  <2>2. PICK e \in ReviewType : reviews' = Append(reviews, e)
    BY <1>10, ReviewDoes
  <2>3. reviews' \in Seq(ReviewType) /\ Extends(reviews, reviews')
    BY <2>2, AppendFacts DEF Formed
  <2>4. Store /\ Grows
    BY <2>1, <2>3 DEF Formed, Grows
  <2> QED BY <1>3, <1>10, <2>4, ReviewDoes
<1>11. CASE Journal(w)
  <2>1. UNCHANGED <<versions, scans, reviews>>
    BY <1>11 DEF Journal
  <2>2. PICK l \in LineType : journal' = Append(journal, l)
    BY <1>11, JournalDoes
  <2>3. journal' \in Seq(LineType) /\ Extends(journal, journal')
    BY <2>2, AppendFacts DEF Formed
  <2>4. wave[w].run \in Nat
    BY <1>0 DEF Locals
  <2>5. /\ runs' \in Seq(RunType) /\ DOMAIN runs \subseteq DOMAIN runs'
        /\ \A n \in DOMAIN runs : runs'[n].sel = runs[n].sel
    <3>1. CASE UNCHANGED runs
      BY <3>1 DEF Formed
    <3>2. CASE runs' = [runs EXCEPT ![wave[w].run].ended = "done"]
      BY <3>2, <2>4, RunEnds
    <3> QED BY <3>1, <3>2, <1>11, JournalDoes
  <2>6. Store /\ Grows
    BY <2>1, <2>3, <2>5 DEF Formed, Grows
  <2>7. CASE Ends(w)
    BY <2>6, <2>7, <1>4
  <2>8. CASE /\ Len(wave[w].todo) > 1 /\ wave' \in [Waves -> Locals]
             /\ \A v \in Waves : v # w => wave'[v] = wave[v]
             /\ wave'[w].todo = Tail(wave[w].todo)
    <3>1. wave[w].todo \in Seq(Items)
      BY <1>0 DEF Locals
    <3>2. Tail(wave[w].todo) # <<>>
      BY <2>8, <3>1, TailFacts
    <3>3. Busy
      BY <1>0, <2>8, <3>2
    <3> QED BY <2>6, <3>3
  <2> QED BY <2>7, <2>8, <1>11, JournalDoes
<1>12. CASE ItemFails(w)
  <2>1. UNCHANGED <<versions, scans, reviews, runs, journal>>
    BY <1>12 DEF ItemFails
  <2>2. Store /\ Grows
    BY <2>1 DEF Formed, Grows
  <2> QED BY <1>3, <1>12, <2>2, ItemFailsDoes
<1>13. CASE Stop(w)
  <2>1. UNCHANGED <<versions, scans, reviews, journal>>
    BY <1>13 DEF Stop
  <2>2. wave[w].run \in Nat
    BY <1>0 DEF Locals
  <2>3. /\ runs' \in Seq(RunType) /\ DOMAIN runs \subseteq DOMAIN runs'
        /\ \A n \in DOMAIN runs : runs'[n].sel = runs[n].sel
    BY <1>13, <2>2, RunEnds, StopDoes
  <2>4. Store /\ Grows
    BY <2>1, <2>3 DEF Formed, Grows
  <2> QED BY <1>4, <1>13, <2>4, StopDoes
<1> QED
  BY <1>2, <1>5, <1>6, <1>7, <1>8, <1>9, <1>10, <1>11, <1>12, <1>13

\* One more stage scanned.
LEMMA MadeMore ==
  ASSUME NEW ver, NEW run, NEW turn, NEW k \in 0..4, NEW own, IsFiniteSet(own),
         own = Refs(ver, run, turn, k), Cardinality(own) = k,
         NEW id, id = Ref(ver, run, turn, k + 1)
  PROVE  /\ own \cup {id} = Refs(ver, run, turn, k + 1)
         /\ Cardinality(own \cup {id}) = k + 1 /\ IsFiniteSet(own \cup {id})
<1>1. id \notin own
  <2>1. \A x \in own : x.stage \in 1..k
    BY DEF Refs
  <2>2. id.stage = k + 1
    BY DEF Ref
  <2>3. k + 1 \notin 1..k
    OBVIOUS
  <2> QED BY <2>1, <2>2, <2>3
<1>2. 1..(k + 1) = (1..k) \cup {k + 1}
  OBVIOUS
<1>3. [ver : {ver}, run : {run}, turn : {turn}, stage : (1..k) \cup {k + 1}]
        = [ver : {ver}, run : {run}, turn : {turn}, stage : 1..k]
            \cup [ver : {ver}, run : {run}, turn : {turn}, stage : {k + 1}]
  OBVIOUS
<1>4. [ver : {ver}, run : {run}, turn : {turn}, stage : {k + 1}] = {id}
  <2> DEFINE one == [ver : {ver}, run : {run}, turn : {turn}, stage : {k + 1}]
  <2>1. id \in one
    BY DEF Ref
  <2>2. ASSUME NEW x \in one PROVE x = id
    <3>1. x = [ver |-> x.ver, run |-> x.run, turn |-> x.turn, stage |-> x.stage]
      OBVIOUS
    <3>2. x.ver = ver /\ x.run = run /\ x.turn = turn /\ x.stage = k + 1
      OBVIOUS
    <3> QED BY <3>1, <3>2 DEF Ref
  <2> HIDE DEF one
  <2>3. one = {id}
    BY <2>1, <2>2
  <2> QED BY <2>3 DEF one
<1>5. own \cup {id} = Refs(ver, run, turn, k + 1)
  BY <1>2, <1>3, <1>4 DEF Refs
<1>6. Cardinality(own \cup {id}) = k + 1 /\ IsFiniteSet(own \cup {id})
  BY <1>1, FS_AddElement
<1> QED
  BY <1>5, <1>6

\* Scanning goes from stage to stage and ends with all five.
LEMMA GatheringNext ==
  ASSUME Formed, Gathering, WaveNext
  PROVE  Gathering'
<1> DEFINE Own(v) == /\ wave'[v].pc = "scan" =>
                          \E k \in 0..4 : /\ wave'[v].own = Made(v, k)' /\ Cardinality(wave'[v].own) = k
                                          /\ IsFiniteSet(wave'[v].own)
                     /\ wave'[v].pc = "review" => wave'[v].own = Made(v, 5)'
<1>1. SUFFICES ASSUME NEW v \in Waves PROVE Own(v)
  BY DEF Gathering
<1>2. ASSUME wave'[v] = wave[v] PROVE Own(v)
  <2>1. \A k : Made(v, k)' = Made(v, k)
    BY <1>2 DEF Made, Turn
  <2> QED BY <1>2, <2>1 DEF Gathering
<1>3. ASSUME wave'[v].pc \notin {"scan", "review"} PROVE Own(v)
  BY <1>3
<1>4. PICK w \in Waves :
        \/ Begin(w) \/ Lookup(w) \/ Capture(w) \/ Security(w) \/ Scan(w) \/ Review(w)
        \/ Journal(w) \/ ItemFails(w) \/ Stop(w)
  BY DEF WaveNext
<1>5. CASE v # w
  <2>1. CASE Begin(w)
    BY <1>2, <1>5, <2>1, BeginDoes
  <2>2. CASE Lookup(w)
    BY <1>2, <1>5, <2>2, LookupDoes DEF Works
  <2>3. CASE Capture(w)
    BY <1>2, <1>5, <2>3, CaptureDoes DEF Works
  <2>4. CASE Security(w)
    BY <1>2, <1>5, <2>4, SecurityDoes DEF Works
  <2>5. CASE Scan(w)
    BY <1>2, <1>5, <2>5, NextStage, ScanDoes DEF Works
  <2>6. CASE Review(w)
    BY <1>2, <1>5, <2>6, ReviewDoes DEF Works
  <2>7. CASE Journal(w)
    BY <1>2, <1>5, <2>7, JournalDoes DEF Ends
  <2>8. CASE ItemFails(w)
    BY <1>2, <1>5, <2>8, ItemFailsDoes DEF Works
  <2>9. CASE Stop(w)
    BY <1>2, <1>5, <2>9, StopDoes DEF Ends
  <2> QED BY <1>4, <2>1, <2>2, <2>3, <2>4, <2>5, <2>6, <2>7, <2>8, <2>9
<1>6. CASE v = w
  <2>1. CASE Begin(w)
    BY <1>3, <1>6, <2>1, BeginDoes
  <2>2. CASE Lookup(w)
    BY <1>3, <1>6, <2>2, LookupDoes
  <2>3. CASE Capture(w)
    BY <1>3, <1>6, <2>3, CaptureDoes
  <2>4. CASE Security(w)
    <3>1. CASE wave'[w].pc = "scan" /\ wave'[w].own = {}
      <4>1. Made(v, 0)' = {}
        BY DEF Made, Refs
      <4>2. wave'[v].own = Made(v, 0)' /\ Cardinality(wave'[v].own) = 0 /\ IsFiniteSet(wave'[v].own)
        BY <3>1, <4>1, <1>6, FS_EmptySet
      <4>3. wave'[v].pc = "scan" /\ 0 \in 0..4
        BY <3>1, <1>6
      <4> QED BY <4>2, <4>3
    <3>2. CASE wave'[w].pc \in {"concluded", "journal"}
      BY <1>3, <1>6, <3>2
    <3> QED BY <3>1, <3>2, <2>4, SecurityDoes DEF Concluding
  <2>5. CASE Scan(w)
    <3>1. PICK k \in 0..4 : /\ wave[w].own = Made(w, k) /\ Cardinality(wave[w].own) = k
                            /\ IsFiniteSet(wave[w].own)
      BY <2>5 DEF Gathering, Scan
    <3>2. PICK s \in ScanType :
            /\ s.ver = wave[w].ver /\ s.run = wave[w].run /\ s.turn = Turn(w)
            /\ s.stage = k + 1
            /\ wave'[w].pc = (IF s.stage = 5 THEN "review" ELSE "scan")
            /\ wave'[w].own = wave[w].own \cup {Id(s)}
      BY <2>5, <3>1, NextStage, ScanDoes
    <3>3. Works(w) /\ wave'[w].ver = wave[w].ver
      BY <2>5, NextStage, ScanDoes
    <3>4. \A m : Made(w, m)' = Made(w, m)
      BY <3>3 DEF Made, Turn, Works
    <3>5. Id(s) = Ref(wave[w].ver, wave[w].run, Turn(w), k + 1)
      BY <3>2 DEF Id, Ref
    <3>6. /\ wave'[w].own = Made(w, k + 1) /\ Cardinality(wave'[w].own) = k + 1
          /\ IsFiniteSet(wave'[w].own)
      <4>1. PICK own : own = wave[w].own
        OBVIOUS
      <4>2. PICK id : id = Id(s)
        OBVIOUS
      <4>3. PICK ver, run, turn : ver = wave[w].ver /\ run = wave[w].run /\ turn = Turn(w)
        OBVIOUS
      <4>4. \A m : Made(w, m) = Refs(ver, run, turn, m)
        BY <4>3 DEF Made
      <4>5. /\ IsFiniteSet(own) /\ Cardinality(own) = k
            /\ own = Refs(ver, run, turn, k)
        BY <3>1, <4>1, <4>4
      <4>6. id = Ref(ver, run, turn, k + 1)
        BY <3>5, <4>2, <4>3
      <4>7. /\ own \cup {id} = Refs(ver, run, turn, k + 1)
            /\ Cardinality(own \cup {id}) = k + 1 /\ IsFiniteSet(own \cup {id})
        BY <4>5, <4>6, MadeMore
      <4>8. own \cup {id} = Made(w, k + 1)
        BY <4>4, <4>7
      <4> QED BY <3>2, <4>1, <4>2, <4>7, <4>8
    <3>7. CASE k = 4
      <4>1. wave'[w].pc = "review" /\ k + 1 = 5
        BY <3>2, <3>7
      <4> QED BY <4>1, <3>4, <3>6, <1>6
    <3>8. CASE k # 4
      <4>1. wave'[w].pc = "scan" /\ k + 1 \in 0..4
        BY <3>2, <3>8
      <4> QED BY <4>1, <3>4, <3>6, <1>6
    <3> QED BY <3>7, <3>8
  <2>6. CASE Review(w)
    BY <1>3, <1>6, <2>6, ReviewDoes DEF Concluding
  <2>7. CASE Journal(w)
    <3>1. wave'[w].pc \in {"idle", "lookup"}
      BY <2>7, JournalDoes, IdleType DEF Ends
    <3> QED BY <1>3, <1>6, <3>1
  <2>8. CASE ItemFails(w)
    BY <1>3, <1>6, <2>8, ItemFailsDoes
  <2>9. CASE Stop(w)
    BY <1>3, <1>6, <2>9, StopDoes, IdleType DEF Ends
  <2> QED BY <1>4, <2>1, <2>2, <2>3, <2>4, <2>5, <2>6, <2>7, <2>8, <2>9
<1> QED
  BY <1>5, <1>6

-----------------------------------------------------------------------------
(* Runs and the journal.                                                   *)

\* A step of one wave.
Step(w) ==
  \/ Begin(w) \/ Lookup(w) \/ Capture(w) \/ Security(w) \/ Scan(w) \/ Review(w)
  \/ Journal(w) \/ ItemFails(w) \/ Stop(w)

\* Only three actions touch a run or the journal, and none another wave.
LEMMA Kinds ==
  ASSUME Formed, Gathering, NEW w \in Waves, Step(w)
  PROVE  /\ \/ Begin(w) \/ Journal(w) \/ Stop(w)
            \/ Works(w) /\ UNCHANGED <<runs, journal>>
         /\ \A v \in Waves : v # w => wave'[v] = wave[v]
<1> DEFINE Goal == /\ \/ Begin(w) \/ Journal(w) \/ Stop(w)
                      \/ Works(w) /\ UNCHANGED <<runs, journal>>
                   /\ \A v \in Waves : v # w => wave'[v] = wave[v]
<1>1. SUFFICES Goal
  OBVIOUS
<1>2. ASSUME Works(w), UNCHANGED <<runs, journal>> PROVE Goal
  BY <1>2 DEF Works
<1>3. CASE Begin(w)
  BY <1>3, BeginDoes
<1>4. CASE Lookup(w)
  BY <1>2, <1>4, LookupDoes DEF Lookup
<1>5. CASE Capture(w)
  BY <1>2, <1>5, CaptureDoes DEF Capture
<1>6. CASE Security(w)
  BY <1>2, <1>6, SecurityDoes DEF Security
<1>7. CASE Scan(w)
  <2>1. Works(w)
    BY <1>7, NextStage, ScanDoes
  <2>2. UNCHANGED <<runs, journal>>
    BY <1>7 DEF Scan
  <2> QED BY <1>2, <2>1, <2>2
<1>8. CASE Review(w)
  <2>1. Works(w)
    BY <1>8, ReviewDoes
  <2>2. UNCHANGED <<runs, journal>>
    BY <1>8 DEF Review
  <2> QED BY <1>2, <2>1, <2>2
<1>9. CASE Journal(w)
  BY <1>9, JournalDoes DEF Ends
<1>10. CASE ItemFails(w)
  BY <1>2, <1>10, ItemFailsDoes DEF ItemFails
<1>11. CASE Stop(w)
  BY <1>11, StopDoes DEF Ends
<1> QED
  BY <1>3, <1>4, <1>5, <1>6, <1>7, <1>8, <1>9, <1>10, <1>11 DEF Step

\* A run that is under way is one wave's.
OwnRuns ==
  /\ \A w \in Waves : wave[w].pc # "idle" =>
       wave[w].run \in DOMAIN runs /\ runs[wave[w].run].ended = "no"
  /\ \A v, w \in Waves :
       v # w /\ wave[v].pc # "idle" /\ wave[w].pc # "idle" => wave[v].run # wave[w].run

\* Runs stay apart: a wave takes a number nobody has.
LEMMA OwnRunsNext ==
  ASSUME Formed, Gathering, OwnRuns, NEW w \in Waves, Step(w)
  PROVE  OwnRuns'
<1> USE DEF OwnRuns
<1>1. \A v \in Waves : v # w => wave'[v] = wave[v]
  BY Kinds
<1>2. CASE Begin(w)
  <2>1. PICK sel : /\ runs' = Append(runs, [sel |-> sel, ended |-> "no"])
                   /\ [sel |-> sel, ended |-> "no"] \in RunType
    BY <1>2, BeginDoes
  <2>2. PICK n \in Nat : n = Len(runs)
    BY Elements
  <2>3. /\ DOMAIN runs' = 1..(n + 1) /\ DOMAIN runs = 1..n
        /\ runs'[n + 1] = [sel |-> sel, ended |-> "no"] /\ \A m \in DOMAIN runs : runs'[m] = runs[m]
    BY <2>1, <2>2, AppendFacts DEF Formed
  <2>4. wave'[w].run = n + 1 /\ wave'[w].pc # "idle"
    BY <1>2, <2>2, BeginDoes
  <2>5. wave'[w].run \in DOMAIN runs' /\ runs'[wave'[w].run].ended = "no"
    BY <2>3, <2>4
  <2>6. ASSUME NEW v \in Waves, v # w, wave'[v].pc # "idle"
        PROVE  /\ wave'[v].run \in DOMAIN runs' /\ runs'[wave'[v].run].ended = "no"
               /\ wave'[v].run # wave'[w].run
    <3>1. wave'[v] = wave[v]
      BY <1>1, <2>6
    <3>2. wave[v].run \in DOMAIN runs /\ runs[wave[v].run].ended = "no"
      BY <2>6, <3>1
    <3>3. wave[v].run \in 1..n
      BY <3>2, <2>3
    <3> QED BY <2>3, <2>4, <3>1, <3>2, <3>3
  <2> QED BY <1>1, <2>5, <2>6
<1>3. ASSUME Works(w), UNCHANGED runs PROVE OwnRuns'
  <2>1. wave'[w].run = wave[w].run /\ wave[w].pc # "idle" /\ wave'[w].pc # "idle"
    BY <1>3 DEF Works
  <2> QED BY <1>1, <1>3, <2>1
<1>4. ASSUME NEW how \in {"done", "stopped"}, wave[w].pc # "idle", Ends(w),
             runs' = [runs EXCEPT ![wave[w].run].ended = how]
      PROVE  OwnRuns'
  <2>1. wave'[w].pc = "idle"
    BY <1>4, IdleType DEF Ends
  <2>2. wave[w].run \in Nat
    BY Elements DEF Locals
  <2>3. DOMAIN runs' = DOMAIN runs /\ \A m \in DOMAIN runs : m # wave[w].run => runs'[m] = runs[m]
    BY <1>4, <2>2, RunEnds
  <2>4. ASSUME NEW v \in Waves, v # w, wave'[v].pc # "idle"
        PROVE  wave'[v].run \in DOMAIN runs' /\ runs'[wave'[v].run].ended = "no"
    <3>1. wave'[v] = wave[v] /\ wave[v].run # wave[w].run
      BY <1>1, <1>4, <2>4
    <3> QED BY <2>3, <2>4, <3>1
  <2> QED BY <1>1, <2>1, <2>4
<1>5. CASE Journal(w)
  <2>1. wave[w].pc # "idle"
    BY <1>5 DEF Journal
  <2>2. CASE Ends(w) /\ runs' = [runs EXCEPT ![wave[w].run].ended = "done"]
    BY <1>4, <2>1, <2>2
  <2>3. CASE UNCHANGED runs /\ wave'[w].pc = "lookup" /\ wave'[w].run = wave[w].run
    BY <1>1, <2>1, <2>3
  <2> QED BY <1>5, <2>2, <2>3, JournalDoes
<1>6. CASE Stop(w)
  BY <1>4, <1>6, StopDoes
<1> QED
  BY <1>2, <1>3, <1>5, <1>6, Kinds

\* The lines of a run up to one of them.
Before(n, k) == {i \in Lines(n) : i <= k}

\* The lines of a run can be counted.
LEMMA LinesFinite ==
  ASSUME Formed, NEW n
  PROVE  /\ Lines(n) \subseteq 1..Len(journal) /\ Len(journal) \in Nat
         /\ IsFiniteSet(Lines(n)) /\ Cardinality(Lines(n)) \in Nat
<1>1. Lines(n) \subseteq 1..Len(journal) /\ Len(journal) \in Nat
  BY Elements DEF Lines
<1>2. IsFiniteSet(1..Len(journal))
  BY <1>1, FS_Interval
<1>3. IsFiniteSet(Lines(n))
  BY <1>1, <1>2, FS_Subset
<1> QED
  BY <1>1, <1>3, FS_CardinalityType

\* What a step does to the lines of each run.
LEMMA NoNewLine ==
  ASSUME UNCHANGED journal
  PROVE  \A n, k : Lines(n)' = Lines(n) /\ Before(n, k)' = Before(n, k)
BY DEF Lines, Before

LEMMA NewLine ==
  ASSUME Formed, NEW l \in LineType, journal' = Append(journal, l),
         NEW m \in Nat, m = Len(journal)
  PROVE  /\ \A n : n # l.run => Lines(n)' = Lines(n)
         /\ m + 1 \notin Lines(l.run)
         /\ Lines(l.run)' = Lines(l.run) \cup {m + 1}
         /\ Cardinality(Lines(l.run)') = Cardinality(Lines(l.run)) + 1
         /\ \A n : \A k \in Lines(n) : Before(n, k)' = Before(n, k) /\ journal'[k] = journal[k]
         /\ Before(l.run, m + 1)' = Lines(l.run)'
         /\ journal'[m + 1] = l
<1>2. /\ DOMAIN journal' = 1..(m + 1) /\ DOMAIN journal = 1..m
      /\ journal'[m + 1] = l /\ \A k \in 1..m : journal'[k] = journal[k]
  BY AppendFacts DEF Formed
<1>3. 1..(m + 1) = (1..m) \cup {m + 1} /\ m + 1 \notin 1..m
  OBVIOUS
<1>4. \A n : n # l.run => Lines(n)' = Lines(n)
  BY <1>2, <1>3 DEF Lines
<1>5. m + 1 \notin Lines(l.run) /\ Lines(l.run)' = Lines(l.run) \cup {m + 1}
  BY <1>2, <1>3 DEF Lines
<1>6. Cardinality(Lines(l.run)') = Cardinality(Lines(l.run)) + 1
  <2>1. IsFiniteSet(Lines(l.run))
    BY LinesFinite
  <2> QED BY <1>5, <2>1, FS_AddElement
<1>7. ASSUME NEW n, NEW k \in Lines(n)
      PROVE  Before(n, k)' = Before(n, k) /\ journal'[k] = journal[k]
  <2>1. k \in 1..m
    BY <1>2 DEF Lines
  <2>2. Lines(n)' \subseteq Lines(n) \cup {m + 1} /\ Lines(n) \subseteq Lines(n)'
    BY <1>4, <1>5
  <2>3. ~(m + 1 <= k)
    BY <2>1
  <2> QED BY <1>2, <2>1, <2>2, <2>3 DEF Before
<1>8. Before(l.run, m + 1)' = Lines(l.run)'
  <2>1. \A i \in Lines(l.run)' : i <= m + 1
    BY <1>2 DEF Lines
  <2> QED BY <2>1 DEF Before
<1> QED
  BY <1>2, <1>4, <1>5, <1>6, <1>7, <1>8

\* Where a run at work stands: what is left of its selection follows its lines.
StandsAt(n, c, todo) ==
  /\ Len(runs[n].sel) = c + Len(todo)
  /\ \A i \in 1..Len(todo) : todo[i] = runs[n].sel[c + i]

Stands(w) ==
  wave[w].pc # "idle" => StandsAt(wave[w].run, Cardinality(Lines(wave[w].run)), wave[w].todo)

\* Every line belongs to a run that was started.
LinesKnown == \A k \in DOMAIN journal : journal[k].run \in DOMAIN runs

\* What makes the journal exact: every run at work stands behind its last line.
Progress == LinesKnown /\ \A w \in Waves : Stands(w)

\* One run of JournalIsExact.
ExactRun(n) ==
  /\ \A k \in Lines(n) : /\ Cardinality(Before(n, k)) <= Len(runs[n].sel)
                         /\ journal[k].item = runs[n].sel[Cardinality(Before(n, k))]
  /\ runs[n].ended = "done" => Cardinality(Lines(n)) = Len(runs[n].sel)

LEMMA ExactRuns == JournalIsExact <=> \A n \in DOMAIN runs : ExactRun(n)
BY DEF JournalIsExact, ExactRun, Before

\* The first part of the invariant.
Journaled == Formed /\ Gathering /\ OwnRuns /\ Progress /\ JournalIsExact

\* A run whose lines and selection stay is as exact as it was.
LEMMA ExactKept ==
  ASSUME NEW n, ExactRun(n), Lines(n)' = Lines(n),
         \A k \in Lines(n) : Before(n, k)' = Before(n, k) /\ journal'[k] = journal[k],
         runs'[n].sel = runs[n].sel,
         runs'[n].ended = "done" => runs[n].ended = "done"
  PROVE  ExactRun(n)'
<1>1. ASSUME NEW k \in Lines(n)'
      PROVE  /\ Cardinality(Before(n, k)') <= Len(runs'[n].sel)
             /\ journal'[k].item = runs'[n].sel[Cardinality(Before(n, k)')]
  BY <1>1 DEF ExactRun
<1>2. runs'[n].ended = "done" => Cardinality(Lines(n)') = Len(runs'[n].sel)
  BY DEF ExactRun
<1> QED
  BY <1>1, <1>2 DEF ExactRun

\* A wave whose run gained no line stands where it stood.
LEMMA StandsKept ==
  ASSUME NEW v \in Waves, Stands(v), wave[v].pc # "idle", NEW n, n = wave[v].run,
         wave'[v].run = n, wave'[v].todo = wave[v].todo,
         Lines(n)' = Lines(n), runs'[n].sel = runs[n].sel
  PROVE  Stands(v)'
<1>1. PICK c : c = Cardinality(Lines(n))
  OBVIOUS
<1>2. StandsAt(n, c, wave[v].todo)
  BY <1>1 DEF Stands
<1>3. Cardinality(Lines(n)') = c
  BY <1>1
<1>4. Len(runs'[n].sel) = c + Len(wave'[v].todo)
      /\ \A i \in 1..Len(wave'[v].todo) : wave'[v].todo[i] = runs'[n].sel[c + i]
  BY <1>2 DEF StandsAt
<1> QED
  BY <1>3, <1>4 DEF Stands, StandsAt, Lines

\* A step that writes no line, and the step that writes one.
LEMMA JournaledQuiet ==
  ASSUME Journaled, NEW w \in Waves, Step(w), Grows, UNCHANGED journal
  PROVE  /\ LinesKnown' /\ \A n \in DOMAIN runs' : ExactRun(n)'
         /\ \A v \in Waves : Stands(v)'
<1>1. Formed /\ Gathering /\ OwnRuns /\ LinesKnown /\ \A v \in Waves : Stands(v)
  BY DEF Journaled, Progress
<1>2. \A n \in DOMAIN runs : ExactRun(n)
  BY ExactRuns DEF Journaled
<1>3. DOMAIN runs \subseteq DOMAIN runs' /\ \A n \in DOMAIN runs : runs'[n].sel = runs[n].sel
  BY DEF Grows
<1>4. LinesKnown'
  BY <1>1, <1>3 DEF LinesKnown
<1>5. \A n, k : Lines(n)' = Lines(n) /\ Before(n, k)' = Before(n, k)
  BY NoNewLine
<1>6. ~Journal(w)
  <2>1. SUFFICES ASSUME Journal(w) PROVE FALSE
    OBVIOUS
  <2>2. PICK l \in LineType : journal' = Append(journal, l)
    BY <1>1, <2>1, JournalDoes
  <2>3. Len(journal') = Len(journal) + 1 /\ Len(journal) \in Nat
    BY <1>1, <2>2, AppendFacts DEF Formed
  <2> QED BY <2>3
<1>7. ASSUME NEW v \in Waves, wave[v].pc # "idle", wave'[v].run = wave[v].run,
             wave'[v].todo = wave[v].todo
      PROVE  Stands(v)'
  <2>1. PICK n : n = wave[v].run
    OBVIOUS
  <2>2. n \in DOMAIN runs
    BY <1>1, <1>7, <2>1 DEF OwnRuns
  <2> QED BY <1>1, <1>3, <1>5, <1>7, <2>1, <2>2, StandsKept
<1>8. ASSUME NEW v \in Waves, v # w PROVE Stands(v)'
  <2>1. wave'[v] = wave[v]
    BY <1>1, <1>8, Kinds
  <2>2. CASE wave[v].pc = "idle"
    BY <2>1, <2>2 DEF Stands
  <2>3. CASE wave[v].pc # "idle"
    BY <1>7, <2>1, <2>3
  <2> QED BY <2>2, <2>3
<1>9. ASSUME NEW n \in DOMAIN runs, runs'[n].ended = "done" => runs[n].ended = "done"
      PROVE  ExactRun(n)'
  BY <1>2, <1>3, <1>5, <1>9, ExactKept
<1>10. CASE Begin(w)
  <2>1. PICK sel \in Seq(Items) :
          /\ runs' = Append(runs, [sel |-> sel, ended |-> "no"])
          /\ [sel |-> sel, ended |-> "no"] \in RunType /\ wave'[w].todo = sel
    BY <1>1, <1>10, BeginDoes
  <2>2. PICK n \in Nat : n = Len(runs)
    BY <1>1, Elements
  <2>3. /\ DOMAIN runs' = 1..(n + 1) /\ DOMAIN runs = 1..n
        /\ runs'[n + 1] = [sel |-> sel, ended |-> "no"] /\ \A m \in DOMAIN runs : runs'[m] = runs[m]
    BY <1>1, <2>1, <2>2, AppendFacts DEF Formed
  <2>4. PICK r \in Nat : r = n + 1
    OBVIOUS
  <2>5. Lines(r)' = {}
    <3>1. Lines(r) = {}
      BY <1>1, <2>3, <2>4 DEF LinesKnown, Lines
    <3> QED BY <3>1, <1>5
  <2>6. ExactRun(r)'
    BY <2>3, <2>4, <2>5 DEF ExactRun
  <2>7. ASSUME NEW m \in DOMAIN runs' PROVE ExactRun(m)'
    <3>1. m = r \/ m \in DOMAIN runs
      BY <2>3, <2>4
    <3> QED BY <3>1, <2>3, <2>6, <1>9
  <2>8. Stands(w)'
    <3>1. wave'[w].run = r /\ wave'[w].todo = sel
      BY <1>1, <1>10, <2>1, <2>2, <2>4, BeginDoes
    <3>2. Cardinality(Lines(r)') = 0
      BY <2>5, FS_EmptySet
    <3>3. runs'[r].sel = sel /\ Len(sel) \in Nat
      BY <2>3, <2>4
    <3>4. StandsAt(r, 0, sel)'
      BY <3>3 DEF StandsAt
    <3> QED BY <3>1, <3>2, <3>4 DEF Stands, Lines
  <2> QED BY <1>4, <1>8, <2>7, <2>8
<1>11. CASE Stop(w)
  <2>1. Ends(w) /\ runs' = [runs EXCEPT ![wave[w].run].ended = "stopped"]
    BY <1>1, <1>11, StopDoes
  <2>2. wave[w].run \in Nat
    BY <1>1, Elements DEF Locals
  <2>3. Stands(w)'
    BY <2>1, IdleType DEF Ends, Stands
  <2>4. ASSUME NEW m \in DOMAIN runs' PROVE ExactRun(m)'
    <3>1. m \in DOMAIN runs /\ (runs'[m].ended = "stopped" \/ runs'[m] = runs[m])
      BY <1>1, <2>1, <2>2, RunEnds
    <3> QED BY <3>1, <1>9
  <2> QED BY <1>4, <1>8, <2>3, <2>4
<1>12. CASE Works(w) /\ UNCHANGED runs
  <2>1. Stands(w)'
    BY <1>7, <1>12 DEF Works
  <2>2. \A m \in DOMAIN runs' : ExactRun(m)'
    BY <1>9, <1>12
  <2> QED BY <1>4, <1>8, <2>1, <2>2
<1> QED
  BY <1>1, <1>6, <1>10, <1>11, <1>12, Kinds

LEMMA JournaledLine ==
  ASSUME Journaled, NEW w \in Waves, Journal(w), Grows
  PROVE  /\ LinesKnown' /\ \A n \in DOMAIN runs' : ExactRun(n)'
         /\ \A v \in Waves : Stands(v)'
<1>1. Formed /\ Gathering /\ OwnRuns /\ LinesKnown /\ \A v \in Waves : Stands(v)
  BY DEF Journaled, Progress
<1>2. \A n \in DOMAIN runs : ExactRun(n)
  BY ExactRuns DEF Journaled
<1>3. DOMAIN runs \subseteq DOMAIN runs' /\ \A n \in DOMAIN runs : runs'[n].sel = runs[n].sel
  BY DEF Grows
<1>4. PICK l \in LineType : l.run = wave[w].run /\ l.item = Item(w) /\ journal' = Append(journal, l)
  <2>1. PICK l \in LineType :
          /\ l = [run |-> wave[w].run, item |-> Item(w), status |-> wave[w].status,
                  ver |-> wave[w].ver, verdict |-> wave[w].verdict]
          /\ journal' = Append(journal, l)
    BY <1>1, JournalDoes
  <2>2. l.run = wave[w].run /\ l.item = Item(w)
    BY <2>1
  <2> QED BY <2>1, <2>2
<1>5. PICK m \in Nat : m = Len(journal)
  BY <1>1, Elements
<1>6. PICK r : r = l.run
  OBVIOUS
<1>7. wave[w].pc # "idle" /\ r = wave[w].run /\ r \in DOMAIN runs /\ r \in Nat
  BY <1>1, <1>4, <1>6, Elements DEF Journal, OwnRuns, Locals
<1>8. PICK c \in Nat : c = Cardinality(Lines(r))
  BY <1>1, LinesFinite
<1>9. PICK todo \in Seq(Items) : todo = wave[w].todo
  BY <1>1, Elements DEF Locals
<1>10. StandsAt(r, c, todo) /\ todo # <<>> /\ Len(todo) \in Nat /\ Len(todo) >= 1
  <2>1. todo # <<>>
    BY <1>1, <1>7, <1>9 DEF Formed
  <2>2. StandsAt(r, c, todo)
    BY <1>1, <1>7, <1>8, <1>9 DEF Stands
  <2> QED BY <2>1, <2>2
<1>11. Item(w) = runs[r].sel[c + 1] /\ c + 1 <= Len(runs[r].sel)
  <2>1. Item(w) = todo[1]
    BY <1>9, <1>10 DEF Item
  <2> QED BY <2>1, <1>10 DEF StandsAt
<1>12. /\ \A n : n # r => Lines(n)' = Lines(n)
       /\ Lines(r)' = Lines(r) \cup {m + 1}
       /\ Cardinality(Lines(r)') = c + 1
       /\ \A n : \A k \in Lines(n) : Before(n, k)' = Before(n, k) /\ journal'[k] = journal[k]
       /\ Before(r, m + 1)' = Lines(r)'
       /\ journal'[m + 1] = l
  BY <1>1, <1>4, <1>5, <1>6, <1>8, NewLine
<1>13. LinesKnown'
  <2>1. DOMAIN journal' = 1..(m + 1) /\ DOMAIN journal = 1..m /\ \A k \in 1..m : journal'[k] = journal[k]
    BY <1>1, <1>4, <1>5, AppendFacts DEF Formed
  <2>2. ASSUME NEW k \in DOMAIN journal' PROVE journal'[k].run \in DOMAIN runs'
    <3>1. CASE k = m + 1
      BY <3>1, <1>3, <1>6, <1>7, <1>12
    <3>2. CASE k \in 1..m
      BY <3>2, <2>1, <1>1, <1>3 DEF LinesKnown
    <3> QED BY <2>1, <3>1, <3>2
  <2> QED BY <2>2 DEF LinesKnown
<1>14. /\ DOMAIN runs' = DOMAIN runs
       /\ \A n \in DOMAIN runs : n # r => runs'[n] = runs[n]
       /\ runs'[r].ended = "done" => Len(todo) = 1 \/ runs[r].ended = "done"
  <2>1. CASE UNCHANGED runs
    BY <2>1
  <2>2. CASE Len(todo) = 1 /\ runs' = [runs EXCEPT ![r].ended = "done"]
    BY <1>1, <1>7, <2>2, RunEnds
  <2> QED BY <1>1, <1>7, <1>9, <2>1, <2>2, JournalDoes
<1>15. ASSUME NEW n \in DOMAIN runs, n # r PROVE ExactRun(n)'
  BY <1>2, <1>12, <1>14, <1>15, ExactKept
<1>16. ExactRun(r)'
  <2>1. ASSUME NEW k \in Lines(r)'
        PROVE  /\ Cardinality(Before(r, k)') <= Len(runs'[r].sel)
               /\ journal'[k].item = runs'[r].sel[Cardinality(Before(r, k)')]
    <3>1. CASE k = m + 1
      <4>1. Cardinality(Before(r, k)') = c + 1
        BY <3>1, <1>12
      <4>2. journal'[k].item = Item(w)
        BY <3>1, <1>12, <1>4
      <4> QED BY <4>1, <4>2, <1>11, <1>3, <1>7
    <3>2. CASE k \in Lines(r)
      BY <3>2, <1>2, <1>3, <1>7, <1>12 DEF ExactRun
    <3> QED BY <3>1, <3>2, <1>12, <2>1
  <2>2. ASSUME runs'[r].ended = "done" PROVE Cardinality(Lines(r)') = Len(runs'[r].sel)
    <3>1. runs[r].ended = "no"
      BY <1>1, <1>7 DEF OwnRuns
    <3>2. Len(todo) = 1
      BY <2>2, <3>1, <1>14
    <3> QED BY <3>2, <1>10, <1>12, <1>3, <1>7 DEF StandsAt
  <2> QED BY <2>1, <2>2 DEF ExactRun
<1>17. ASSUME NEW v \in Waves, v # w PROVE Stands(v)'
  <2>1. wave'[v] = wave[v]
    BY <1>1, <1>17, Kinds DEF Step
  <2>2. CASE wave[v].pc = "idle"
    BY <2>1, <2>2 DEF Stands
  <2>3. CASE wave[v].pc # "idle"
    <3>1. PICK n : n = wave[v].run
      OBVIOUS
    <3>2. n # r /\ n \in DOMAIN runs
      BY <1>1, <1>7, <1>17, <2>3, <3>1 DEF OwnRuns
    <3> QED BY <1>1, <1>3, <1>12, <2>1, <2>3, <3>1, <3>2, StandsKept
  <2> QED BY <2>2, <2>3
<1>18. Stands(w)'
  <2>1. CASE Ends(w)
    BY <2>1, IdleType DEF Ends, Stands
  <2>2. CASE Len(todo) > 1 /\ wave'[w].run = r /\ wave'[w].todo = Tail(todo)
    <3>1. /\ Len(Tail(todo)) = Len(todo) - 1
          /\ \A i \in 1..(Len(todo) - 1) : Tail(todo)[i] = todo[i + 1]
      BY <2>2, TailFacts
    <3>2. Len(runs'[r].sel) = (c + 1) + Len(Tail(todo))
      <4>1. PICK k \in Nat : k = Len(todo)
        BY <1>10
      <4>2. Len(runs'[r].sel) = c + k
        BY <4>1, <1>3, <1>7, <1>10 DEF StandsAt
      <4>3. Len(Tail(todo)) = k - 1
        BY <3>1, <4>1
      <4>4. c + k = (c + 1) + (k - 1)
        OBVIOUS
      <4> QED BY <4>2, <4>3, <4>4
    <3>3. ASSUME NEW i \in 1..Len(Tail(todo)) PROVE Tail(todo)[i] = runs'[r].sel[(c + 1) + i]
      <4>1. i + 1 \in 1..Len(todo) /\ i \in 1..(Len(todo) - 1)
        BY <3>1, <1>10
      <4>2. Tail(todo)[i] = runs[r].sel[c + (i + 1)]
        BY <3>1, <4>1, <1>10 DEF StandsAt
      <4>3. c + (i + 1) = (c + 1) + i
        BY <4>1
      <4> QED BY <4>2, <4>3, <1>3, <1>7
    <3>4. StandsAt(r, c + 1, Tail(todo))'
      BY <3>2, <3>3, <2>2, <1>9 DEF StandsAt
    <3> QED BY <2>2, <3>4, <1>12 DEF Stands, Lines
  <2> QED BY <1>1, <1>7, <1>9, <2>1, <2>2, JournalDoes
<1> QED
  BY <1>13, <1>14, <1>15, <1>16, <1>17, <1>18

\* The first part of the invariant is inductive by itself.
LEMMA JournaledNext ==
  ASSUME Journaled, WaveNext
  PROVE  Journaled' /\ Grows
<1>1. Formed /\ Gathering /\ OwnRuns
  BY DEF Journaled
<1>2. Formed' /\ Grows /\ Gathering'
  BY <1>1, FormedNext, GatheringNext
<1>3. PICK w \in Waves : Step(w)
  BY DEF WaveNext, Step
<1>4. OwnRuns'
  BY <1>1, <1>3, OwnRunsNext
<1>5. /\ LinesKnown' /\ \A n \in DOMAIN runs' : ExactRun(n)'
      /\ \A v \in Waves : Stands(v)'
  <2>1. CASE Journal(w)
    BY <2>1, <1>2, JournaledLine
  <2>2. CASE UNCHANGED journal
    BY <2>2, <1>2, <1>3, JournaledQuiet
  <2>3. Begin(w) \/ Stop(w) => UNCHANGED journal
    BY DEF Begin, Stop
  <2> QED BY <2>1, <2>2, <2>3, <1>1, <1>3, Kinds
<1>6. JournalIsExact'
  BY <1>5 DEF JournalIsExact, ExactRun, Before
<1>7. Progress'
  BY <1>5 DEF Progress
<1> QED
  BY <1>2, <1>4, <1>6, <1>7 DEF Journaled

LEMMA JournaledInit == WaveInit => Journaled
<1> SUFFICES ASSUME WaveInit PROVE Journaled
  OBVIOUS
<1>1. /\ versions = <<>> /\ scans = {} /\ reviews = <<>> /\ runs = <<>> /\ journal = <<>>
      /\ wave = [w \in Waves |-> Idle]
  BY DEF WaveInit
<1>2. Formed
  BY <1>1, IdleType DEF Formed
<1>3. \A w \in Waves : wave[w].pc = "idle"
  BY <1>1, IdleType
<1>4. Gathering /\ OwnRuns
  BY <1>3 DEF Gathering, OwnRuns
<1>5. Progress
  BY <1>1, <1>3 DEF Progress, LinesKnown, Stands
<1>6. JournalIsExact
  BY <1>1 DEF JournalIsExact
<1> QED
  BY <1>2, <1>4, <1>5, <1>6 DEF Journaled

-----------------------------------------------------------------------------
(* What waves and lines say is in the store.                               *)

\* Version ver was captured from the item.
IsItem(ver, item) == ver \in DOMAIN versions /\ versions[ver].item = item

\* Some aggregate of the version has this verdict.
Backed(ver, item, verdict) ==
  /\ IsItem(ver, item)
  /\ \E i \in DOMAIN reviews : reviews[i].ver = ver /\ reviews[i].verdict = verdict

\* What a wave at work holds about its item is what the store says.
Placed(w) ==
  /\ wave[w].pc \in {"security", "scan", "review", "concluded"} => IsItem(wave[w].ver, Item(w))
  /\ wave[w].pc \notin {"concluded", "journal"} =>
       wave[w].verdict = "none" /\ wave[w].status = "none"
  /\ wave[w].verdict # "none" => Backed(wave[w].ver, Item(w), wave[w].verdict)
  /\ wave[w].status = "awaiting" => wave[w].verdict = "approve"

\* What a line says is what the store says.
BackedLine(l) ==
  /\ l.verdict # "none" => Backed(l.ver, l.item, l.verdict)
  /\ l.status = "awaiting" => l.verdict = "approve"

\* The second part of the invariant.
Told ==
  /\ \A w \in Waves : Placed(w)
  /\ \A k \in DOMAIN journal : BackedLine(journal[k])

\* The store only grows, so what was true of it stays true.
LEMMA BackedKept ==
  ASSUME Grows, NEW ver, NEW item
  PROVE  /\ IsItem(ver, item) => IsItem(ver, item)'
         /\ \A verdict : Backed(ver, item, verdict) => Backed(ver, item, verdict)'
<1>1. IsItem(ver, item) => IsItem(ver, item)'
  BY DEF Grows, Extends, IsItem
<1>2. ASSUME NEW verdict, Backed(ver, item, verdict) PROVE Backed(ver, item, verdict)'
  <2>1. PICK i \in DOMAIN reviews : reviews[i].ver = ver /\ reviews[i].verdict = verdict
    BY <1>2 DEF Backed
  <2>2. i \in DOMAIN reviews' /\ reviews'[i] = reviews[i]
    BY DEF Grows, Extends
  <2> QED BY <1>1, <1>2, <2>1, <2>2 DEF Backed
<1> QED
  BY <1>1, <1>2

\* Every action of a wave, and of any other, keeps what it holds true.
LEMMA PlacedNext ==
  ASSUME Formed, Gathering, Grows, Told, NEW w \in Waves, Step(w), NEW v \in Waves
  PROVE  Placed(v)'
<1> DEFINE Goal == Placed(v)'
<1>0. SUFFICES Goal
  OBVIOUS
<1>1. Placed(v)
  BY DEF Told
<1>2. PICK item : item = Item(v)
  OBVIOUS
<1>3. ASSUME wave'[v] = wave[v] PROVE Goal
  <2>1. Item(v)' = item
    BY <1>2, <1>3 DEF Item
  <2> QED BY <1>1, <1>2, <1>3, <2>1, BackedKept DEF Placed
<1>4. CASE v # w
  BY <1>3, <1>4, Kinds
<1>5. ASSUME wave'[v].pc \in {"idle", "lookup", "capture", "journal"},
             wave'[v].verdict = "none", wave'[v].status \in {"none", "error"},
             wave'[v].pc # "journal" => wave'[v].status = "none"
      PROVE  Goal
  BY <1>5 DEF Placed
<1>6. ASSUME Works(v), wave'[v].pc \in {"security", "scan", "review"},
             NEW ver, wave'[v].ver = ver, IsItem(ver, item)',
             wave'[v].verdict = "none", wave'[v].status = "none"
      PROVE  Goal
  <2>1. Item(v)' = item
    BY <1>2, <1>6 DEF Item, Works
  <2>2. IsItem(wave[v].ver, Item(v))'
    BY <1>6, <2>1 DEF IsItem
  <2> QED BY <1>6, <2>2 DEF Placed
<1>7. ASSUME Works(v), NEW verdict, Concluding(v, verdict),
             NEW ver, wave'[v].ver = ver, Backed(ver, item, verdict)'
      PROVE  Goal
  <2>1. Item(v)' = item
    BY <1>2, <1>7 DEF Item, Works
  <2>2. Backed(wave[v].ver, Item(v), wave[v].verdict)'
    BY <1>7, <2>1 DEF Backed, IsItem, Concluding
  <2>3. IsItem(wave[v].ver, Item(v))'
    BY <2>2 DEF Backed, IsItem
  <2> QED BY <1>7, <2>2, <2>3 DEF Placed, Concluding
<1>8. CASE v = w
  <2>0. PICK ver : ver = wave[v].ver
    OBVIOUS
  <2>1. CASE Begin(w)
    BY <1>5, <1>8, <2>1, BeginDoes
  <2>2. CASE Lookup(w)
    <3>1. Works(w) /\ wave'[w].verdict = "none" /\ wave[w].status = "none"
      BY <1>1, <1>8, <2>2, LookupDoes DEF Placed
    <3>2. CASE wave'[w].pc = "security" /\ wave'[w].ver \in Exact(w) /\ wave'[w].status = wave[w].status
      <4>1. PICK i : i = wave'[w].ver
        OBVIOUS
      <4>2. IsItem(i, item)'
        BY <4>1, <3>2, <1>2, <1>8, BackedKept DEF Exact, IsItem
      <4> QED BY <1>6, <1>8, <3>1, <3>2, <4>1, <4>2
    <3>3. CASE wave'[w].pc = "journal" /\ wave'[w].status = "error"
      BY <1>5, <1>8, <3>1, <3>3
    <3>4. CASE wave'[w].pc = "capture" /\ wave'[w].status = wave[w].status
      BY <1>5, <1>8, <3>1, <3>4
    <3> QED BY <2>2, <3>2, <3>3, <3>4, LookupDoes
  <2>3. CASE Capture(w)
    <3>1. PICK e : e = [item |-> Item(w), saw |-> wave[w].saw]
      OBVIOUS
    <3>2. /\ Works(w) /\ wave[w].pc = "capture" /\ wave'[w].pc = "security"
          /\ wave'[w].verdict = wave[w].verdict /\ wave'[w].status = wave[w].status
          /\ wave'[w].ver = Len(versions) + 1 /\ e \in VersionType /\ versions' = Append(versions, e)
      BY <2>3, <3>1, CaptureDoes
    <3>3. PICK n \in Nat : n = Len(versions) + 1
      BY Elements
    <3>4. DOMAIN versions' = 1..n /\ n >= 1 /\ versions'[n] = e
      BY <3>2, <3>3, AppendFacts DEF Formed
    <3>5. IsItem(n, item)'
      BY <3>1, <3>4, <1>2, <1>8 DEF IsItem
    <3>6. wave'[w].verdict = "none" /\ wave'[w].status = "none"
      BY <1>1, <1>8, <3>2 DEF Placed
    <3> QED BY <1>6, <1>8, <3>2, <3>3, <3>5, <3>6
  <2>4. CASE Security(w)
    <3>1. Works(w) /\ wave[w].pc = "security" /\ IsItem(ver, item)
          /\ wave[w].verdict = "none" /\ wave[w].status = "none"
      BY <2>4, <1>1, <1>2, <1>8, <2>0, SecurityDoes DEF Placed
    <3>2. IsItem(ver, item)'
      BY <3>1, BackedKept
    <3>3. CASE /\ wave'[w].pc = "scan" /\ wave'[w].ver = wave[w].ver
               /\ wave'[w].verdict = wave[w].verdict /\ wave'[w].status = wave[w].status
      BY <1>6, <1>8, <2>0, <3>1, <3>2, <3>3
    <3>4. ASSUME NEW i \in ReviewsOf(w), Concluding(w, reviews[i].verdict) PROVE Goal
      <4>1. PICK verdict : verdict = reviews[i].verdict
        OBVIOUS
      <4>2. Backed(ver, item, verdict)
        BY <3>1, <3>4, <4>1, <2>0, <1>8 DEF Backed, ReviewsOf
      <4>3. Backed(ver, item, verdict)'
        BY <4>2, BackedKept
      <4>4. wave'[v].ver = ver
        BY <3>4, <2>0, <1>8 DEF Concluding
      <4> QED BY <1>7, <1>8, <3>1, <3>4, <4>1, <4>3, <4>4
    <3> QED BY <2>4, <3>3, <3>4, SecurityDoes
  <2>5. CASE Scan(w)
    <3>1. /\ Works(w) /\ wave[w].pc = "scan" /\ wave'[w].pc \in {"scan", "review"}
          /\ wave'[w].verdict = wave[w].verdict /\ wave'[w].status = wave[w].status
          /\ wave'[w].ver = wave[w].ver
      BY <2>5, NextStage, ScanDoes
    <3>2. IsItem(ver, item) /\ wave[w].verdict = "none" /\ wave[w].status = "none"
      BY <1>1, <1>2, <1>8, <2>0, <3>1 DEF Placed
    <3>3. IsItem(ver, item)'
      BY <3>2, BackedKept
    <3> QED BY <1>6, <1>8, <2>0, <3>1, <3>2, <3>3
  <2>6. CASE Review(w)
    <3>1. PICK e \in ReviewType : /\ e.ver = wave[w].ver /\ reviews' = Append(reviews, e)
                                  /\ Concluding(w, e.verdict)
      BY <2>6, ReviewDoes
    <3>2. Works(w) /\ wave[w].pc = "review"
      BY <2>6, ReviewDoes
    <3>3. IsItem(ver, item)
      BY <1>1, <1>2, <1>8, <2>0, <3>2 DEF Placed
    <3>4. IsItem(ver, item)'
      BY <3>3, BackedKept
    <3>5. \E i \in DOMAIN reviews' : reviews'[i].ver = ver /\ reviews'[i].verdict = e.verdict
      <4>1. PICK n \in Nat : n = Len(reviews) + 1
        BY Elements
      <4>2. DOMAIN reviews' = 1..n /\ n >= 1 /\ reviews'[n] = e
        BY <3>1, <4>1, AppendFacts DEF Formed
      <4> QED BY <4>2, <3>1, <2>0, <1>8
    <3>6. Backed(ver, item, e.verdict)'
      BY <3>4, <3>5 DEF Backed
    <3>7. wave'[v].ver = ver
      BY <3>1, <2>0, <1>8 DEF Concluding
    <3> QED BY <1>7, <1>8, <3>1, <3>2, <3>6, <3>7
  <2>7. CASE Journal(w)
    <3>1. /\ wave'[w].pc \in {"idle", "lookup"}
          /\ wave'[w].verdict = "none" /\ wave'[w].status = "none"
      BY <2>7, JournalDoes, IdleType DEF Ends
    <3> QED BY <1>5, <1>8, <3>1
  <2>8. CASE ItemFails(w)
    BY <1>5, <1>8, <2>8, ItemFailsDoes
  <2>9. CASE Stop(w)
    <3>1. /\ wave'[w].pc = "idle"
          /\ wave'[w].verdict = "none" /\ wave'[w].status = "none"
      BY <2>9, StopDoes, IdleType DEF Ends
    <3> QED BY <1>5, <1>8, <3>1
  <2> QED BY <2>1, <2>2, <2>3, <2>4, <2>5, <2>6, <2>7, <2>8, <2>9 DEF Step
<1> QED
  BY <1>4, <1>8

LEMMA ToldNext ==
  ASSUME Formed, Gathering, Grows, Told, NEW w \in Waves, Step(w)
  PROVE  Told'
<1>1. \A v \in Waves : Placed(v)'
  BY PlacedNext
<1>2. ASSUME NEW l, BackedLine(l) PROVE BackedLine(l)'
  BY <1>2, BackedKept DEF BackedLine
<1>3. CASE Journal(w)
  <2>1. PICK l \in LineType :
          /\ l = [run |-> wave[w].run, item |-> Item(w), status |-> wave[w].status,
                  ver |-> wave[w].ver, verdict |-> wave[w].verdict]
          /\ journal' = Append(journal, l)
    BY <1>3, JournalDoes
  <2>2. BackedLine(l)
    <3>1. Placed(w)
      BY DEF Told
    <3>2. l.ver = wave[w].ver /\ l.item = Item(w) /\ l.status = wave[w].status
          /\ l.verdict = wave[w].verdict
      BY <2>1
    <3> QED BY <3>1, <3>2 DEF Placed, BackedLine
  <2>3. PICK n \in Nat : n = Len(journal)
    BY Elements
  <2>4. /\ DOMAIN journal' = 1..(n + 1) /\ DOMAIN journal = 1..n
        /\ journal'[n + 1] = l /\ \A k \in DOMAIN journal : journal'[k] = journal[k]
    BY <2>1, <2>3, AppendFacts DEF Formed
  <2>5. ASSUME NEW k \in DOMAIN journal' PROVE BackedLine(journal[k])'
    <3>1. PICK x : x = journal'[k]
      OBVIOUS
    <3>2. x = l \/ (k \in DOMAIN journal /\ x = journal[k])
      BY <2>4, <3>1
    <3>3. BackedLine(x)
      BY <2>2, <3>2 DEF Told
    <3>4. BackedLine(x)'
      BY <3>3, <1>2
    <3> QED BY <3>1, <3>4 DEF BackedLine, Backed, IsItem
  <2> QED BY <1>1, <2>5 DEF Told
<1>4. CASE UNCHANGED journal
  <2>1. ASSUME NEW k \in DOMAIN journal' PROVE BackedLine(journal[k])'
    <3>1. PICK x : x = journal[k]
      OBVIOUS
    <3>2. BackedLine(x)'
      BY <1>2, <1>4, <3>1 DEF Told
    <3> QED BY <1>4, <3>1, <3>2 DEF BackedLine, Backed, IsItem
  <2> QED BY <1>1, <2>1 DEF Told
<1>5. Begin(w) \/ Stop(w) => UNCHANGED journal
  BY DEF Begin, Stop
<1> QED
  BY <1>3, <1>4, <1>5, Kinds

-----------------------------------------------------------------------------
(* What a wave looked up is what it found, but for races.                  *)

\* No version of this slug and number was there at the lookup.
Unseen(saw, item) ==
  \A i \in DOMAIN versions :
    versions[i].item.slug = item.slug /\ versions[i].item.number = item.number => saw < i

\* No aggregate of the version was there at the lookup.
Unmet(met, ver) == \A i \in DOMAIN reviews : reviews[i].ver = ver => met < i

\* What a wave has looked up and not yet used.
LookedUp(w) ==
  /\ wave[w].pc = "capture" => wave[w].saw <= Len(versions) /\ Unseen(wave[w].saw, Item(w))
  /\ wave[w].pc \in {"scan", "review"} =>
       wave[w].met <= Len(reviews) /\ Unmet(wave[w].met, wave[w].ver)

\* The third part of the invariant.
Races ==
  /\ \A i \in DOMAIN versions : versions[i].saw < i
  /\ \A i \in DOMAIN reviews : reviews[i].met < i
  /\ SameNumberIsRaced /\ SecondVerdictIsRaced
  /\ \A w \in Waves : LookedUp(w)

\* A version or an aggregate that is appended had not been there at the lookup.
LEMMA NewVersion ==
  ASSUME Formed, Races, NEW e \in VersionType, versions' = Append(versions, e),
         e.saw <= Len(versions), Unseen(e.saw, e.item)
  PROVE  /\ \A i \in DOMAIN versions' : versions'[i].saw < i
         /\ SameNumberIsRaced'
         /\ Len(versions') = Len(versions) + 1
         /\ \A saw \in Nat : \A item : saw <= Len(versions) /\ Unseen(saw, item) => Unseen(saw, item)'
<1>1. PICK n \in Nat : n = Len(versions)
  BY Elements
<1>2. /\ DOMAIN versions' = 1..(n + 1) /\ DOMAIN versions = 1..n /\ Len(versions') = n + 1
      /\ versions'[n + 1] = e /\ \A i \in 1..n : versions'[i] = versions[i]
  BY <1>1, AppendFacts DEF Formed
<1>3. e.saw \in Nat
  BY DEF VersionType
<1>4. \A i \in 1..n : versions[i].saw < i
  BY <1>2 DEF Races
<1>5. ASSUME NEW i \in DOMAIN versions' PROVE versions'[i].saw < i
  <2>1. CASE i = n + 1
    BY <2>1, <1>1, <1>2, <1>3
  <2>2. CASE i \in 1..n
    BY <2>2, <1>2, <1>4
  <2> QED BY <2>1, <2>2, <1>2
<1>6. ASSUME NEW i \in DOMAIN versions', NEW j \in DOMAIN versions', i < j,
             versions'[i].item.slug = versions'[j].item.slug,
             versions'[i].item.number = versions'[j].item.number
      PROVE  versions'[j].saw < i
  <2>1. i \in 1..n
    BY <1>2, <1>6
  <2>2. CASE j \in 1..n
    BY <2>1, <2>2, <1>2, <1>6 DEF Races, SameNumberIsRaced
  <2>3. CASE j = n + 1
    BY <2>1, <2>3, <1>2, <1>6 DEF Unseen
  <2> QED BY <2>2, <2>3, <1>2
<1>7. ASSUME NEW saw \in Nat, NEW item, saw <= Len(versions), Unseen(saw, item) PROVE Unseen(saw, item)'
  <2>1. ASSUME NEW i \in DOMAIN versions', versions'[i].item.slug = item.slug,
               versions'[i].item.number = item.number
        PROVE  saw < i
    <3>1. CASE i \in 1..n
      BY <3>1, <2>1, <1>2, <1>7 DEF Unseen
    <3>2. CASE i = n + 1
      BY <3>2, <1>1, <1>7
    <3> QED BY <3>1, <3>2, <1>2
  <2> QED BY <2>1 DEF Unseen
<1>8. SameNumberIsRaced'
  BY <1>6 DEF SameNumberIsRaced
<1> QED
  BY <1>1, <1>2, <1>5, <1>7, <1>8

LEMMA NewReview ==
  ASSUME Formed, Races, NEW e \in ReviewType, reviews' = Append(reviews, e),
         e.met <= Len(reviews), Unmet(e.met, e.ver)
  PROVE  /\ \A i \in DOMAIN reviews' : reviews'[i].met < i
         /\ SecondVerdictIsRaced'
         /\ Len(reviews') = Len(reviews) + 1
         /\ \A met \in Nat : \A ver : met <= Len(reviews) /\ Unmet(met, ver) => Unmet(met, ver)'
<1>1. PICK n \in Nat : n = Len(reviews)
  BY Elements
<1>2. /\ DOMAIN reviews' = 1..(n + 1) /\ DOMAIN reviews = 1..n /\ Len(reviews') = n + 1
      /\ reviews'[n + 1] = e /\ \A i \in 1..n : reviews'[i] = reviews[i]
  BY <1>1, AppendFacts DEF Formed
<1>3. e.met \in Nat
  BY DEF ReviewType
<1>4. \A i \in 1..n : reviews[i].met < i
  BY <1>2 DEF Races
<1>5. ASSUME NEW i \in DOMAIN reviews' PROVE reviews'[i].met < i
  <2>1. CASE i = n + 1
    BY <2>1, <1>1, <1>2, <1>3
  <2>2. CASE i \in 1..n
    BY <2>2, <1>2, <1>4
  <2> QED BY <2>1, <2>2, <1>2
<1>6. ASSUME NEW i \in DOMAIN reviews', NEW j \in DOMAIN reviews', i < j,
             reviews'[i].ver = reviews'[j].ver
      PROVE  reviews'[j].met < i
  <2>1. i \in 1..n
    BY <1>2, <1>6
  <2>2. CASE j \in 1..n
    BY <2>1, <2>2, <1>2, <1>6 DEF Races, SecondVerdictIsRaced
  <2>3. CASE j = n + 1
    BY <2>1, <2>3, <1>2, <1>6 DEF Unmet
  <2> QED BY <2>2, <2>3, <1>2
<1>7. ASSUME NEW met \in Nat, NEW ver, met <= Len(reviews), Unmet(met, ver) PROVE Unmet(met, ver)'
  <2>1. ASSUME NEW i \in DOMAIN reviews', reviews'[i].ver = ver
        PROVE  met < i
    <3>1. CASE i \in 1..n
      BY <3>1, <2>1, <1>2, <1>7 DEF Unmet
    <3>2. CASE i = n + 1
      BY <3>2, <1>1, <1>7
    <3> QED BY <3>1, <3>2, <1>2
  <2> QED BY <2>1 DEF Unmet
<1>8. SecondVerdictIsRaced'
  BY <1>6 DEF SecondVerdictIsRaced
<1> QED
  BY <1>1, <1>2, <1>5, <1>7, <1>8

LEMMA RacesNext ==
  ASSUME Formed, Gathering, Grows, Races, NEW w \in Waves, Step(w)
  PROVE  Races'
<1> DEFINE Steady == /\ \A saw \in Nat : \A item : saw <= Len(versions) /\ Unseen(saw, item) =>
                          saw <= Len(versions') /\ Unseen(saw, item)'
                     /\ \A met \in Nat : \A ver : met <= Len(reviews) /\ Unmet(met, ver) =>
                          met <= Len(reviews') /\ Unmet(met, ver)'
           Store == /\ \A i \in DOMAIN versions' : versions'[i].saw < i
                    /\ \A i \in DOMAIN reviews' : reviews'[i].met < i
                    /\ SameNumberIsRaced' /\ SecondVerdictIsRaced'
<1>1. Len(versions) \in Nat /\ Len(reviews) \in Nat /\ \A v \in Waves : wave[v] \in Locals
  BY Elements
<1>2. ASSUME UNCHANGED <<versions, reviews>> PROVE Store /\ Steady
  BY <1>2 DEF Races, SameNumberIsRaced, SecondVerdictIsRaced, Unseen, Unmet
<1>3. ASSUME Steady, NEW v \in Waves, wave'[v] = wave[v] PROVE LookedUp(v)'
  <2>1. PICK item : item = Item(v)
    OBVIOUS
  <2>2. PICK r \in Locals : r = wave[v]
    BY <1>1
  <2>22. r.saw \in Nat /\ r.met \in Nat
    BY DEF Locals
  <2>3. Item(v)' = item
    BY <1>3, <2>1 DEF Item
  <2>4. /\ r.pc = "capture" => r.saw <= Len(versions) /\ Unseen(r.saw, item)
        /\ r.pc \in {"scan", "review"} => r.met <= Len(reviews) /\ Unmet(r.met, r.ver)
    BY <2>1, <2>2 DEF Races, LookedUp
  <2>5. /\ r.pc = "capture" => r.saw <= Len(versions') /\ Unseen(r.saw, item)'
        /\ r.pc \in {"scan", "review"} => r.met <= Len(reviews') /\ Unmet(r.met, r.ver)'
    BY <2>4, <2>22, <1>3
  <2> QED BY <1>3, <2>2, <2>3, <2>5 DEF LookedUp, Unseen, Unmet
<1>4. ASSUME NEW v \in Waves, wave'[v].pc \notin {"capture", "scan", "review"} PROVE LookedUp(v)'
  BY <1>4 DEF LookedUp
<1>5. ASSUME Steady, NEW v \in Waves, v # w PROVE LookedUp(v)'
  BY <1>3, <1>5, Kinds
<1>6. SUFFICES Store /\ Steady /\ LookedUp(w)'
  BY <1>5 DEF Races
<1>7. CASE Begin(w)
  BY <1>2, <1>4, <1>7, BeginDoes DEF Begin
<1>8. CASE Lookup(w)
  <2>1. UNCHANGED <<versions, reviews>>
    BY <1>8 DEF Lookup
  <2>2. CASE wave'[w].pc \in {"security", "journal"}
    BY <1>2, <1>4, <2>1, <2>2
  <2>3. CASE /\ Works(w) /\ Collisions(w) = {} /\ wave'[w].saw = Len(versions)
             /\ wave'[w].pc = "capture"
    <3>1. PICK item : item = Item(w)
      OBVIOUS
    <3>2. Item(w)' = item
      BY <2>3, <3>1 DEF Works, Item
    <3>3. PICK n \in Nat : n = Len(versions)
      BY <1>1
    <3>4. Unseen(n, item)
      BY <2>3, <3>1 DEF Collisions, Unseen
    <3>5. LookedUp(w)'
      BY <2>1, <2>3, <3>2, <3>3, <3>4 DEF LookedUp, Unseen
    <3> QED BY <1>2, <2>1, <3>5
  <2> QED BY <1>8, <2>2, <2>3, LookupDoes
<1>9. CASE Capture(w)
  <2>1. PICK e \in VersionType : e.item = Item(w) /\ e.saw = wave[w].saw /\ versions' = Append(versions, e)
    BY <1>9, CaptureDoes
  <2>2. wave[w].pc = "capture" /\ wave'[w].pc = "security" /\ UNCHANGED reviews
    BY <1>9, CaptureDoes DEF Capture
  <2>3. e.saw <= Len(versions) /\ Unseen(e.saw, e.item)
    BY <2>1, <2>2 DEF Races, LookedUp
  <2>4. /\ \A i \in DOMAIN versions' : versions'[i].saw < i
        /\ SameNumberIsRaced'
        /\ Len(versions') = Len(versions) + 1
        /\ \A saw \in Nat : \A item : saw <= Len(versions) /\ Unseen(saw, item) => Unseen(saw, item)'
    BY <2>1, <2>3, NewVersion
  <2>5. Store
    BY <2>2, <2>4 DEF Races, SecondVerdictIsRaced
  <2>6. Steady
    <3>1. \A saw \in Nat : \A item : saw <= Len(versions) /\ Unseen(saw, item) =>
                          saw <= Len(versions') /\ Unseen(saw, item)'
      <4>1. \A saw \in Nat : saw <= Len(versions) => saw <= Len(versions')
        BY <1>1, <2>4
      <4> QED BY <4>1, <2>4
    <3>2. \A met \in Nat : \A ver : met <= Len(reviews) /\ Unmet(met, ver) =>
                          met <= Len(reviews') /\ Unmet(met, ver)'
      BY <2>2 DEF Unmet
    <3> QED BY <3>1, <3>2
  <2> QED BY <2>2, <2>5, <2>6, <1>4
<1>10. CASE Security(w)
  <2>1. UNCHANGED <<versions, reviews>>
    BY <1>10 DEF Security
  <2>2. CASE /\ ReviewsOf(w) = {} /\ wave'[w].pc = "scan" /\ wave'[w].met = Len(reviews)
             /\ wave'[w].ver = wave[w].ver
    <3>1. PICK n \in Nat : n = Len(reviews)
      BY <1>1
    <3>2. PICK ver : ver = wave[w].ver
      OBVIOUS
    <3>3. Unmet(n, ver)
      BY <2>2, <3>2 DEF Unmet, ReviewsOf
    <3>4. LookedUp(w)'
      BY <2>1, <2>2, <3>1, <3>2, <3>3 DEF LookedUp, Unmet
    <3> QED BY <1>2, <2>1, <3>4
  <2>3. CASE wave'[w].pc \in {"concluded", "journal"}
    BY <1>2, <1>4, <2>1, <2>3
  <2> QED BY <1>10, <2>2, <2>3, SecurityDoes DEF Concluding
<1>11. CASE Scan(w)
  <2>1. /\ wave[w].pc = "scan" /\ wave'[w].pc \in {"scan", "review"} /\ wave'[w].ver = wave[w].ver
        /\ wave'[w].met = wave[w].met
    BY <1>11, NextStage, ScanDoes
  <2>2. UNCHANGED <<versions, reviews>>
    BY <1>11 DEF Scan
  <2>3. wave[w].met <= Len(reviews) /\ Unmet(wave[w].met, wave[w].ver)
    BY <2>1 DEF Races, LookedUp
  <2>4. LookedUp(w)'
    BY <2>1, <2>2, <2>3 DEF LookedUp, Unmet
  <2> QED BY <1>2, <2>2, <2>4
<1>12. CASE Review(w)
  <2>1. PICK e \in ReviewType : /\ e.ver = wave[w].ver /\ e.met = wave[w].met
                                /\ reviews' = Append(reviews, e) /\ Concluding(w, e.verdict)
    BY <1>12, ReviewDoes
  <2>2. wave[w].pc = "review" /\ UNCHANGED versions
    BY <1>12, ReviewDoes DEF Review
  <2>3. e.met <= Len(reviews) /\ Unmet(e.met, e.ver)
    BY <2>1, <2>2 DEF Races, LookedUp
  <2>4. /\ \A i \in DOMAIN reviews' : reviews'[i].met < i
        /\ SecondVerdictIsRaced'
        /\ Len(reviews') = Len(reviews) + 1
        /\ \A met \in Nat : \A ver : met <= Len(reviews) /\ Unmet(met, ver) => Unmet(met, ver)'
    BY <2>1, <2>3, NewReview
  <2>5. Store
    BY <2>2, <2>4 DEF Races, SameNumberIsRaced
  <2>6. Steady
    <3>1. \A met \in Nat : \A ver : met <= Len(reviews) /\ Unmet(met, ver) =>
                          met <= Len(reviews') /\ Unmet(met, ver)'
      <4>1. \A met \in Nat : met <= Len(reviews) => met <= Len(reviews')
        BY <1>1, <2>4
      <4> QED BY <4>1, <2>4
    <3>2. \A saw \in Nat : \A item : saw <= Len(versions) /\ Unseen(saw, item) =>
                          saw <= Len(versions') /\ Unseen(saw, item)'
      BY <2>2 DEF Unseen
    <3> QED BY <3>1, <3>2
  <2>7. LookedUp(w)'
    BY <2>1, <1>4 DEF Concluding
  <2> QED BY <2>5, <2>6, <2>7
<1>13. CASE Journal(w)
  <2>1. wave'[w].pc \in {"idle", "lookup"}
    BY <1>13, JournalDoes, IdleType DEF Ends
  <2>2. UNCHANGED <<versions, reviews>>
    BY <1>13 DEF Journal
  <2> QED BY <1>2, <1>4, <2>1, <2>2
<1>14. CASE ItemFails(w)
  BY <1>2, <1>4, <1>14, ItemFailsDoes DEF ItemFails
<1>15. CASE Stop(w)
  <2>1. wave'[w].pc = "idle" /\ UNCHANGED <<versions, reviews>>
    BY <1>15, StopDoes, IdleType DEF Ends, Stop
  <2> QED BY <1>2, <1>4, <2>1
<1> QED
  BY <1>7, <1>8, <1>9, <1>10, <1>11, <1>12, <1>13, <1>14, <1>15 DEF Step

-----------------------------------------------------------------------------
(* The evidence an aggregate rests on.                                     *)

\* Every one of these references has its scan.
Stored(refs) == \A id \in refs : \E s \in scans : Id(s) = id

\* No scan of the run is of this item or a later one, except its own.
ScansAbove(run, turn, own) == \A s \in scans : s.run = run => s.turn > turn \/ Id(s) \in own

\* The aggregates of the run are of earlier items.
ReviewsAbove(run, turn) == \A i \in DOMAIN reviews : reviews[i].run = run => reviews[i].turn > turn

\* An aggregate rests on one scan of each stage, and says what they say.
Rests(r) ==
  /\ r.run \in DOMAIN runs
  /\ r.refs = Refs(r.ver, r.run, r.turn, 5)
  /\ Stored(r.refs)
  /\ r.verdict = Verdict(Records(r.refs))

\* What the run of a wave has written is of earlier items, but for the scans
\* of the item it is at.
Apart(w) ==
  /\ wave[w].pc \in {"lookup", "capture", "security"} =>
       ScansAbove(wave[w].run, Turn(w), {}) /\ ReviewsAbove(wave[w].run, Turn(w))
  /\ wave[w].pc \in {"scan", "review"} =>
       /\ ScansAbove(wave[w].run, Turn(w), wave[w].own) /\ ReviewsAbove(wave[w].run, Turn(w))
       /\ Stored(wave[w].own)
  /\ wave[w].pc \in {"concluded", "journal"} =>
       ScansAbove(wave[w].run, Turn(w) - 1, {}) /\ ReviewsAbove(wave[w].run, Turn(w) - 1)

\* The fourth part of the invariant.
Evidence ==
  /\ \A s \in scans : s.run \in DOMAIN runs /\ s.ver \in DOMAIN versions /\ Honest(s)
  /\ \A s, t \in scans : Id(s) = Id(t) => s = t
  /\ \A i \in DOMAIN reviews : Rests(reviews[i])
  /\ \A i, j \in DOMAIN reviews :
       i # j => reviews[i].run # reviews[j].run \/ reviews[i].turn # reviews[j].turn
  /\ \A w \in Waves : Apart(w)

\* What is new in the store is of this run and item.
Writes(run, turn) ==
  /\ \A s \in scans' : s \in scans \/ (s.run = run /\ s.turn = turn)
  /\ \A i \in DOMAIN reviews' :
       \/ i \in DOMAIN reviews /\ reviews'[i] = reviews[i]
       \/ reviews'[i].run = run /\ reviews'[i].turn = turn

\* A step that writes neither scans nor aggregates.
LEMMA Quiet ==
  ASSUME UNCHANGED <<scans, reviews>>
  PROVE  /\ \A run, turn : Writes(run, turn)
         /\ \A run, turn, own : ScansAbove(run, turn, own)' <=> ScansAbove(run, turn, own)
         /\ \A run, turn : ReviewsAbove(run, turn)' <=> ReviewsAbove(run, turn)
         /\ \A refs : Stored(refs)' <=> Stored(refs)
BY DEF Writes, ScansAbove, ReviewsAbove, Stored, Id

\* A step writes for the item its wave is at.
LEMMA StepWrites ==
  ASSUME Formed, Gathering, NEW w \in Waves, Step(w)
  PROVE  /\ UNCHANGED <<scans, reviews>> \/ wave[w].pc # "idle"
         /\ Writes(wave[w].run, Turn(w))
<1>1. CASE Scan(w)
  <2>1. PICK s : /\ s.run = wave[w].run /\ s.turn = Turn(w) /\ scans' = scans \cup {s}
    BY <1>1, NextStage, ScanDoes
  <2>2. UNCHANGED reviews /\ wave[w].pc = "scan"
    BY <1>1 DEF Scan
  <2> QED BY <2>1, <2>2 DEF Writes
<1>2. CASE Review(w)
  <2>1. PICK e \in ReviewType : /\ e.run = wave[w].run /\ e.turn = Turn(w)
                                /\ reviews' = Append(reviews, e)
    BY <1>2, ReviewDoes
  <2>2. UNCHANGED scans /\ wave[w].pc = "review"
    BY <1>2 DEF Review
  <2>3. PICK n \in Nat : n = Len(reviews)
    BY Elements
  <2>4. /\ DOMAIN reviews' = 1..(n + 1) /\ DOMAIN reviews = 1..n
        /\ reviews'[n + 1] = e /\ \A i \in DOMAIN reviews : reviews'[i] = reviews[i]
    BY <2>1, <2>3, AppendFacts DEF Formed
  <2>5. \A i \in 1..(n + 1) : i \in 1..n \/ i = n + 1
    OBVIOUS
  <2> QED BY <2>1, <2>2, <2>4, <2>5 DEF Writes
<1>3. CASE ~Scan(w) /\ ~Review(w)
  <2>1. UNCHANGED <<scans, reviews>>
    BY <1>3 DEF Step, Begin, Lookup, Capture, Security, Journal, ItemFails, Stop
  <2> QED BY <2>1, Quiet
<1> QED
  BY <1>1, <1>2, <1>3

\* What a wave of another run has written does not concern this one.
LEMMA OthersAbove ==
  ASSUME Grows, NEW run, NEW turn, Writes(run, turn), NEW mine, mine # run
  PROVE  /\ \A m, own : ScansAbove(mine, m, own) => ScansAbove(mine, m, own)'
         /\ \A m : ReviewsAbove(mine, m) => ReviewsAbove(mine, m)'
<1>1. ASSUME NEW m, NEW own, ScansAbove(mine, m, own) PROVE ScansAbove(mine, m, own)'
  BY <1>1 DEF Writes, ScansAbove, Id
<1>2. ASSUME NEW m, ReviewsAbove(mine, m) PROVE ReviewsAbove(mine, m)'
  BY <1>2 DEF Writes, ReviewsAbove
<1> QED BY <1>1, <1>2

\* Scans stay in the store.
LEMMA StoredKept ==
  ASSUME scans \subseteq scans', NEW refs, Stored(refs)
  PROVE  Stored(refs)'
BY DEF Stored, Id

\* A step of one wave leaves the others apart.
LEMMA ApartOthers ==
  ASSUME Formed, Gathering, Grows, OwnRuns, Evidence, NEW w \in Waves, Step(w),
         NEW v \in Waves, v # w
  PROVE  Apart(v)'
<1>1. wave'[v] = wave[v]
  BY Kinds
<1>2. PICK run, turn, own, pc :
        run = wave[v].run /\ turn = Turn(v) /\ own = wave[v].own /\ pc = wave[v].pc
  OBVIOUS
<1>3. wave'[v].run = run /\ Turn(v)' = turn /\ wave'[v].own = own /\ wave'[v].pc = pc
  BY <1>1, <1>2 DEF Turn
<1>4. /\ pc \in {"lookup", "capture", "security"} =>
           ScansAbove(run, turn, {}) /\ ReviewsAbove(run, turn)
      /\ pc \in {"scan", "review"} =>
           /\ ScansAbove(run, turn, own) /\ ReviewsAbove(run, turn)
           /\ Stored(own)
      /\ pc \in {"concluded", "journal"} =>
           ScansAbove(run, turn - 1, {}) /\ ReviewsAbove(run, turn - 1)
  BY <1>2 DEF Evidence, Apart
<1>5. pc # "idle" =>
        /\ \A m, o : ScansAbove(run, m, o) => ScansAbove(run, m, o)'
        /\ \A m : ReviewsAbove(run, m) => ReviewsAbove(run, m)'
  <2>1. CASE UNCHANGED <<scans, reviews>>
    BY <2>1, Quiet
  <2>2. CASE pc # "idle" /\ wave[w].pc # "idle"
    <3>1. PICK r, t : r = wave[w].run /\ t = Turn(w)
      OBVIOUS
    <3>2. Writes(r, t) /\ run # r
      BY <1>2, <2>2, <3>1, StepWrites DEF OwnRuns
    <3> QED BY <3>2, OthersAbove
  <2> QED BY <2>1, <2>2, StepWrites
<1>6. Stored(own) => Stored(own)'
  BY StoredKept DEF Grows
<1>7. /\ pc \in {"lookup", "capture", "security"} =>
           ScansAbove(run, turn, {})' /\ ReviewsAbove(run, turn)'
      /\ pc \in {"scan", "review"} =>
           /\ ScansAbove(run, turn, own)' /\ ReviewsAbove(run, turn)'
           /\ Stored(own)'
      /\ pc \in {"concluded", "journal"} =>
           ScansAbove(run, turn - 1, {})' /\ ReviewsAbove(run, turn - 1)'
  BY <1>4, <1>5, <1>6
<1> QED
  BY <1>3, <1>7 DEF Apart, ScansAbove, ReviewsAbove, Stored

\* An aggregate keeps resting on its scans: no step adds one with their identity.
LEMMA RestsKept ==
  ASSUME Grows, NEW r, Rests(r), Records(r.refs)' = Records(r.refs)
  PROVE  Rests(r)'
<1>1. r.run \in DOMAIN runs' /\ Stored(r.refs)'
  BY StoredKept DEF Grows, Rests
<1>2. PICK records : records = Records(r.refs)
  OBVIOUS
<1>3. r.verdict = Verdict(records)
  BY <1>2 DEF Rests
<1>4. Records(r.refs)' = records
  BY <1>2
<1> QED
  BY <1>1, <1>3, <1>4 DEF Rests, Records, Id

\* The evidence of what was written before the step.
Old ==
  /\ \A s \in scans : s.run \in DOMAIN runs' /\ s.ver \in DOMAIN versions' /\ Honest(s)
  /\ \A i \in DOMAIN reviews : i \in DOMAIN reviews' /\ reviews'[i] = reviews[i]

LEMMA OldKept ==
  ASSUME Grows, Evidence
  PROVE  Old
BY DEF Old, Grows, Extends, Evidence

\* The evidence after a step that writes none, a scan or an aggregate.
LEMMA EvidenceQuiet ==
  ASSUME Formed, Gathering, Grows, OwnRuns, Evidence, NEW w \in Waves, Step(w),
         UNCHANGED <<scans, reviews>>, Apart(w)'
  PROVE  Evidence'
<1>1. \A s \in scans' : s.run \in DOMAIN runs' /\ s.ver \in DOMAIN versions' /\ Honest(s)
  BY OldKept DEF Old
<1>2. \A s, t \in scans' : Id(s) = Id(t) => s = t
  BY DEF Evidence
<1>3. ASSUME NEW i \in DOMAIN reviews' PROVE Rests(reviews[i])'
  <2>1. PICK r : r = reviews[i]
    OBVIOUS
  <2>2. Rests(r)
    BY <2>1 DEF Evidence
  <2>3. Records(r.refs)' = Records(r.refs)
    BY DEF Records, Id
  <2>4. Rests(r)'
    BY <2>2, <2>3, RestsKept
  <2> QED BY <2>1, <2>4 DEF Rests, Records, Stored, Id
<1>4. \A i, j \in DOMAIN reviews' :
       i # j => reviews'[i].run # reviews'[j].run \/ reviews'[i].turn # reviews'[j].turn
  BY DEF Evidence
<1>5. \A v \in Waves : Apart(v)'
  BY ApartOthers
<1> QED
  BY <1>1, <1>2, <1>3, <1>4, <1>5 DEF Evidence, Honest, Id

\* The scan that is added is the first of its run, item and stage.
LEMMA EvidenceScan ==
  ASSUME Formed, Gathering, Grows, OwnRuns, Evidence, NEW w \in Waves, Scan(w),
         wave[w].ver \in DOMAIN versions
  PROVE  Evidence'
<1>1. PICK k \in 0..4 : wave[w].own = Made(w, k) /\ Cardinality(wave[w].own) = k
  BY DEF Gathering, Scan
<1>2. PICK s \in ScanType :
        /\ s.ver = wave[w].ver /\ s.run = wave[w].run /\ s.turn = Turn(w)
        /\ s.stage = k + 1
        /\ Honest(s)
        /\ scans' = scans \cup {s}
        /\ wave'[w].pc = (IF s.stage = 5 THEN "review" ELSE "scan")
        /\ wave'[w].own = wave[w].own \cup {Id(s)}
  BY <1>1, NextStage, ScanDoes
<1>3. UNCHANGED <<versions, reviews, runs>> /\ wave[w].pc = "scan" /\ Works(w)
  BY NextStage, ScanDoes DEF Scan
<1>4. PICK run, turn, own : run = wave[w].run /\ turn = Turn(w) /\ own = wave[w].own
  OBVIOUS
<1>5. ScansAbove(run, turn, own) /\ ReviewsAbove(run, turn) /\ Stored(own)
  BY <1>3, <1>4 DEF Evidence, Apart
<1>6. turn \in Nat
  BY <1>3, <1>4, ItemType
<1>7. Id(s) \notin own
  <2>1. \A id \in own : id.stage \in 1..k
    BY <1>1, <1>4 DEF Made, Refs
  <2>2. Id(s).stage = k + 1
    BY <1>2 DEF Id
  <2>3. k + 1 \notin 1..k
    OBVIOUS
  <2> QED BY <2>1, <2>2, <2>3
<1>8. ASSUME NEW t \in scans, Id(t) = Id(s) PROVE FALSE
  <2>1. t.run = run /\ t.turn = turn
    BY <1>2, <1>4, <1>8 DEF Id
  <2>2. Id(t) \in own
    BY <1>5, <1>6, <2>1 DEF ScansAbove
  <2> QED BY <2>2, <1>7, <1>8
<1>9. ASSUME NEW i \in DOMAIN reviews PROVE Id(s) \notin reviews[i].refs
  <2>1. SUFFICES ASSUME Id(s) \in reviews[i].refs PROVE FALSE
    OBVIOUS
  <2>2. reviews[i].refs = Refs(reviews[i].ver, reviews[i].run, reviews[i].turn, 5)
    BY DEF Evidence, Rests
  <2>3. Id(s).run = reviews[i].run /\ Id(s).turn = reviews[i].turn
    BY <2>1, <2>2 DEF Refs
  <2>4. reviews[i].run = run /\ reviews[i].turn = turn
    BY <2>3, <1>2, <1>4 DEF Id
  <2> QED BY <2>4, <1>5, <1>6 DEF ReviewsAbove
<1>10. \A t \in scans' : t.run \in DOMAIN runs' /\ t.ver \in DOMAIN versions' /\ Honest(t)
  <2>1. s.run \in DOMAIN runs
    BY <1>2, <1>3 DEF OwnRuns
  <2> QED BY <2>1, <1>2, <1>3, OldKept DEF Old
<1>11. \A t, u \in scans' : Id(t) = Id(u) => t = u
  BY <1>2, <1>8 DEF Evidence
<1>12. ASSUME NEW i \in DOMAIN reviews' PROVE Rests(reviews[i])'
  <2>1. PICK r : r = reviews[i]
    OBVIOUS
  <2>2. Rests(r) /\ Id(s) \notin r.refs
    BY <1>3, <1>9, <2>1 DEF Evidence
  <2>3. Records(r.refs)' = Records(r.refs)
    BY <1>2, <2>2 DEF Records, Id
  <2>4. Rests(r)'
    BY <2>2, <2>3, RestsKept
  <2> QED BY <1>3, <2>1, <2>4 DEF Rests, Records, Stored, Id
<1>13. \A i, j \in DOMAIN reviews' :
        i # j => reviews'[i].run # reviews'[j].run \/ reviews'[i].turn # reviews'[j].turn
  BY <1>3 DEF Evidence
<1>14. Apart(w)'
  <2>1. wave'[w].run = run /\ Turn(w)' = turn /\ wave'[w].pc \in {"scan", "review"}
    BY <1>2, <1>3, <1>4 DEF Works, Turn
  <2>2. PICK more : more = own \cup {Id(s)}
    OBVIOUS
  <2>3. wave'[w].own = more
    BY <1>2, <1>4, <2>2
  <2>4. ScansAbove(run, turn, more)'
    BY <1>2, <1>5, <2>2 DEF ScansAbove, Id
  <2>5. ReviewsAbove(run, turn)'
    BY <1>3, <1>5 DEF ReviewsAbove
  <2>6. Stored(more)'
    BY <1>2, <1>5, <2>2 DEF Stored, Id
  <2> QED BY <2>1, <2>3, <2>4, <2>5, <2>6 DEF Apart, ScansAbove, ReviewsAbove, Stored
<1>15. \A v \in Waves : Apart(v)'
  BY <1>14, ApartOthers DEF Step
<1> QED
  BY <1>10, <1>11, <1>12, <1>13, <1>15 DEF Evidence, Honest, Id

\* Whatever a wave is doing, what its run wrote is of this item or an earlier one.
LEMMA NoneLater ==
  ASSUME Formed, Gathering, Evidence, NEW w \in Waves, wave[w].pc # "idle"
  PROVE  ScansAbove(wave[w].run, Turn(w) - 1, {}) /\ ReviewsAbove(wave[w].run, Turn(w) - 1)
<1>1. PICK run, turn, own : run = wave[w].run /\ turn = Turn(w) /\ own = wave[w].own
  OBVIOUS
<1>2. turn \in Nat
  BY <1>1, ItemType
<1>3. \A s \in scans : s.turn \in Nat
  BY DEF Formed, ScanType
<1>4. \A i \in DOMAIN reviews : reviews[i].turn \in Nat
  BY Elements DEF ReviewType
<1>40. turn > turn - 1 /\ \A a \in Nat : a > turn => a > turn - 1
  BY <1>2
<1>5. ASSUME ReviewsAbove(run, turn) PROVE ReviewsAbove(run, turn - 1)
  <2>1. ASSUME NEW i \in DOMAIN reviews, reviews[i].run = run PROVE reviews[i].turn > turn - 1
    <3>1. PICK a \in Nat : a = reviews[i].turn
      BY <1>4
    <3>2. a > turn
      BY <1>5, <2>1, <3>1 DEF ReviewsAbove
    <3> QED BY <1>40, <3>1, <3>2
  <2> QED BY <2>1 DEF ReviewsAbove
<1>6. ASSUME ScansAbove(run, turn, {}) PROVE ScansAbove(run, turn - 1, {})
  BY <1>2, <1>3, <1>6 DEF ScansAbove
<1>7. ASSUME ScansAbove(run, turn, own), \A id \in own : id.turn = turn
      PROVE  ScansAbove(run, turn - 1, {})
  <2>1. ASSUME NEW s \in scans, s.run = run PROVE s.turn > turn - 1
    <3>1. CASE s.turn > turn
      BY <1>3, <1>40, <3>1
    <3>2. CASE Id(s) \in own
      <4>1. s.turn = turn
        BY <1>7, <3>2 DEF Id
      <4> QED BY <1>40, <4>1
    <3> QED BY <1>7, <2>1, <3>1, <3>2 DEF ScansAbove
  <2> QED BY <2>1 DEF ScansAbove
<1>8. Apart(w)
  BY DEF Evidence
<1>9. CASE wave[w].pc \in {"lookup", "capture", "security"}
  BY <1>1, <1>5, <1>6, <1>8, <1>9 DEF Apart
<1>10. CASE wave[w].pc \in {"scan", "review"}
  <2>1. \E k : own = Made(w, k)
    BY <1>1, <1>10 DEF Gathering
  <2>2. \E k : own = Refs(wave[w].ver, run, turn, k)
    BY <1>1, <2>1 DEF Made
  <2>3. \A id \in own : id.turn = turn
    BY <2>2 DEF Refs
  <2> QED BY <2>3, <1>1, <1>5, <1>7, <1>8, <1>10 DEF Apart
<1>11. CASE wave[w].pc \in {"concluded", "journal"}
  BY <1>8, <1>11 DEF Apart
<1>12. wave[w].pc \in Pcs
  BY Elements DEF Locals
<1> QED
  BY <1>9, <1>10, <1>11, <1>12 DEF Pcs

\* The aggregate that is added is the first of its run and item.
LEMMA EvidenceReview ==
  ASSUME Formed, Gathering, Grows, OwnRuns, Evidence, NEW w \in Waves, Review(w)
  PROVE  Evidence'
<1>1. PICK e \in ReviewType :
        /\ e.ver = wave[w].ver /\ e.run = wave[w].run /\ e.turn = Turn(w)
        /\ e.refs = wave[w].own
        /\ e.verdict = Verdict(Records(wave[w].own))
        /\ reviews' = Append(reviews, e)
        /\ Concluding(w, e.verdict)
  BY ReviewDoes
<1>2. UNCHANGED <<versions, scans, runs>> /\ wave[w].pc = "review" /\ Works(w)
  BY ReviewDoes DEF Review
<1>3. PICK run, turn : run = wave[w].run /\ turn = Turn(w)
  OBVIOUS
<1>4. ReviewsAbove(run, turn) /\ Stored(e.refs)
  BY <1>1, <1>2, <1>3 DEF Evidence, Apart
<1>5. turn \in Nat
  BY <1>2, <1>3, ItemType
<1>6. PICK n \in Nat : n = Len(reviews)
  BY Elements
<1>7. /\ DOMAIN reviews' = 1..(n + 1) /\ DOMAIN reviews = 1..n
      /\ reviews'[n + 1] = e /\ \A i \in DOMAIN reviews : reviews'[i] = reviews[i]
  BY <1>1, <1>6, AppendFacts DEF Formed
<1>8. \A i \in 1..(n + 1) : i \in 1..n \/ i = n + 1
  OBVIOUS
<1>9. \A s \in scans' : s.run \in DOMAIN runs' /\ s.ver \in DOMAIN versions' /\ Honest(s)
  BY <1>2, OldKept DEF Old
<1>10. \A s, t \in scans' : Id(s) = Id(t) => s = t
  BY <1>2 DEF Evidence
<1>11. \A r : Records(r.refs)' = Records(r.refs)
  BY <1>2 DEF Records, Id
<1>12. Rests(e)
  <2>1. e.run \in DOMAIN runs
    BY <1>1, <1>2 DEF OwnRuns
  <2>2. e.refs = Refs(e.ver, e.run, e.turn, 5)
    BY <1>1, <1>2 DEF Gathering, Made
  <2> QED BY <2>1, <2>2, <1>1, <1>4 DEF Rests
<1>13. ASSUME NEW i \in DOMAIN reviews' PROVE Rests(reviews[i])'
  <2>1. PICK r : r = reviews'[i]
    OBVIOUS
  <2>2. Rests(r)
    BY <1>7, <1>8, <1>12, <2>1 DEF Evidence
  <2>3. Rests(r)'
    BY <1>11, <2>2, RestsKept
  <2> QED BY <2>1, <2>3 DEF Rests, Records, Stored, Id
<1>14. ASSUME NEW i \in DOMAIN reviews' , NEW j \in DOMAIN reviews', i # j
       PROVE  reviews'[i].run # reviews'[j].run \/ reviews'[i].turn # reviews'[j].turn
  <2>1. \A k \in DOMAIN reviews : reviews[k].run # e.run \/ reviews[k].turn # e.turn
    BY <1>1, <1>3, <1>4, <1>5 DEF ReviewsAbove
  <2>2. CASE i \in DOMAIN reviews /\ j \in DOMAIN reviews
    BY <2>2, <1>7, <1>14 DEF Evidence
  <2>3. CASE i \in DOMAIN reviews /\ j = n + 1
    BY <2>1, <2>3, <1>7
  <2>4. CASE i = n + 1 /\ j \in DOMAIN reviews
    BY <2>1, <2>4, <1>7
  <2> QED BY <2>2, <2>3, <2>4, <1>7, <1>8, <1>14
<1>15. Apart(w)'
  <2>1. /\ wave'[w].run = run /\ Turn(w)' = turn
        /\ wave'[w].pc \in {"concluded", "journal"}
    BY <1>1, <1>2, <1>3 DEF Works, Turn, Concluding
  <2>2. ScansAbove(run, turn - 1, {}) /\ ReviewsAbove(run, turn - 1)
    BY <1>2, <1>3, NoneLater
  <2>3. ScansAbove(run, turn - 1, {})'
    BY <1>2, <2>2 DEF ScansAbove, Id
  <2>4. ReviewsAbove(run, turn - 1)'
    <3>1. e.turn > turn - 1
      BY <1>1, <1>3, <1>5
    <3> QED BY <3>1, <1>7, <1>8, <2>2 DEF ReviewsAbove
  <2> QED BY <2>1, <2>3, <2>4 DEF Apart, ScansAbove, ReviewsAbove
<1>16. \A v \in Waves : Apart(v)'
  BY <1>15, ApartOthers DEF Step
<1> QED
  BY <1>9, <1>10, <1>13, <1>14, <1>16 DEF Evidence, Honest, Id

\* The fourth part of the invariant is preserved.
LEMMA EvidenceNext ==
  ASSUME Formed, Gathering, Grows, OwnRuns, Told, Evidence, NEW w \in Waves, Step(w)
  PROVE  Evidence'
<1>1. CASE Scan(w)
  <2>1. wave[w].ver \in DOMAIN versions
    BY <1>1 DEF Told, Placed, IsItem, Scan
  <2> QED BY <1>1, <2>1, EvidenceScan
<1>2. CASE Review(w)
  BY <1>2, EvidenceReview
<1>3. CASE ~Scan(w) /\ ~Review(w)
  <2>1. UNCHANGED <<scans, reviews>>
    BY <1>3 DEF Step, Begin, Lookup, Capture, Security, Journal, ItemFails, Stop
  <2>2. SUFFICES Apart(w)'
    BY <2>1, EvidenceQuiet
  <2>3. /\ \A r, t, own : ScansAbove(r, t, own)' <=> ScansAbove(r, t, own)
        /\ \A r, t : ReviewsAbove(r, t)' <=> ReviewsAbove(r, t)
    BY <2>1, Quiet
  <2>4. PICK run, turn : run = wave[w].run /\ turn = Turn(w)
    OBVIOUS
  <2>5. wave[w].pc \in {"lookup", "capture", "security"} =>
           ScansAbove(run, turn, {}) /\ ReviewsAbove(run, turn)
    BY <2>4 DEF Evidence, Apart
  <2>6. wave[w].pc # "idle" => ScansAbove(run, turn - 1, {}) /\ ReviewsAbove(run, turn - 1)
    BY <2>4, NoneLater
  <2>7. ASSUME Works(w), wave'[w].pc \in {"capture", "security"},
               wave[w].pc \in {"lookup", "capture", "security"}
        PROVE  Apart(w)'
    <3>1. wave'[w].run = run /\ Turn(w)' = turn
      BY <2>4, <2>7 DEF Works, Turn
    <3>2. ScansAbove(run, turn, {})' /\ ReviewsAbove(run, turn)'
      BY <2>3, <2>5, <2>7
    <3> QED BY <2>7, <3>1, <3>2 DEF Apart, ScansAbove, ReviewsAbove
  <2>8. ASSUME Works(w), wave'[w].pc \in {"concluded", "journal"} PROVE Apart(w)'
    <3>1. wave'[w].run = run /\ Turn(w)' = turn /\ wave[w].pc # "idle"
      BY <2>4, <2>8 DEF Works, Turn
    <3>2. ScansAbove(run, turn - 1, {})' /\ ReviewsAbove(run, turn - 1)'
      BY <2>3, <2>6, <3>1
    <3> QED BY <2>8, <3>1, <3>2 DEF Apart, ScansAbove, ReviewsAbove
  <2>9. ASSUME wave'[w].pc = "idle" PROVE Apart(w)'
    BY <2>9 DEF Apart
  <2>10. CASE Begin(w)
    <3>1. PICK n \in Nat : n = Len(runs) + 1
      BY Elements
    <3>2. wave'[w].run = n /\ wave'[w].pc = "lookup"
      BY <2>10, <3>1, BeginDoes
    <3>3. n \notin DOMAIN runs
      BY <3>1, Elements
    <3>4. \A t : ScansAbove(n, t, {}) /\ ReviewsAbove(n, t)
      BY <3>3 DEF Evidence, Rests, ScansAbove, ReviewsAbove
    <3>5. \A t : ScansAbove(n, t, {})' /\ ReviewsAbove(n, t)'
      BY <2>3, <3>4
    <3>6. ScansAbove(wave[w].run, Turn(w), {})' /\ ReviewsAbove(wave[w].run, Turn(w))'
      BY <3>2, <3>5 DEF ScansAbove, ReviewsAbove
    <3> QED BY <3>2, <3>6 DEF Apart
  <2>11. CASE Lookup(w)
    BY <2>7, <2>8, <2>11, LookupDoes
  <2>12. CASE Capture(w)
    BY <2>7, <2>12, CaptureDoes
  <2>13. CASE Security(w)
    <3>1. Works(w) /\ wave[w].pc = "security"
      BY <2>13, SecurityDoes
    <3>2. CASE wave'[w].pc = "scan" /\ wave'[w].own = {}
      <4>1. wave'[w].run = run /\ Turn(w)' = turn
        BY <2>4, <3>1 DEF Works, Turn
      <4>2. ScansAbove(run, turn, {})' /\ ReviewsAbove(run, turn)'
        BY <2>3, <2>5, <3>1
      <4> QED BY <3>2, <4>1, <4>2 DEF Apart, ScansAbove, ReviewsAbove, Stored
    <3>3. CASE wave'[w].pc \in {"concluded", "journal"}
      BY <3>1, <3>3, <2>8
    <3> QED BY <2>13, <3>2, <3>3, SecurityDoes DEF Concluding
  <2>14. CASE Journal(w)
    <3>1. CASE wave'[w].pc = "idle"
      BY <2>9, <3>1
    <3>2. CASE /\ Len(wave[w].todo) > 1 /\ wave'[w].pc = "lookup" /\ wave'[w].run = wave[w].run
               /\ wave'[w].todo = Tail(wave[w].todo)
      <4>1. wave[w].todo \in Seq(Items)
        BY Elements DEF Locals
      <4>2. Len(Tail(wave[w].todo)) = Len(wave[w].todo) - 1
        BY <3>2, <4>1, TailFacts
      <4>3. wave'[w].run = run /\ Turn(w)' = turn - 1
        BY <2>4, <3>2, <4>2 DEF Turn
      <4>4. ScansAbove(run, turn - 1, {})' /\ ReviewsAbove(run, turn - 1)'
        BY <2>3, <2>6, <2>14 DEF Journal
      <4> QED BY <3>2, <4>3, <4>4 DEF Apart, ScansAbove, ReviewsAbove
    <3> QED BY <2>14, <3>1, <3>2, JournalDoes, IdleType DEF Ends
  <2>15. CASE ItemFails(w)
    BY <2>8, <2>15, ItemFailsDoes
  <2>16. CASE Stop(w)
    BY <2>9, <2>16, StopDoes, IdleType DEF Ends
  <2> QED BY <1>3, <2>10, <2>11, <2>12, <2>13, <2>14, <2>15, <2>16 DEF Step
<1> QED
  BY <1>1, <1>2, <1>3

-----------------------------------------------------------------------------
(* What follows from the invariant.                                        *)

\* The invariant of the wave driver.
WaveInv == Journaled /\ Told /\ Races /\ Evidence

\* A set with two members is counted as more than one.
LEMMA TwoMembers ==
  ASSUME NEW n \in Nat, NEW T \in SUBSET (1..n), NEW a \in T, NEW b \in T, a # b
  PROVE  Cardinality(T) > 1
<1>1. IsFiniteSet(T)
  <2>1. IsFiniteSet(1..n)
    BY FS_Interval
  <2> QED BY <2>1, FS_Subset
<1>2. Cardinality({a}) = 1 /\ IsFiniteSet({a})
  BY FS_Singleton
<1>3. Cardinality({a} \cup {b}) = 2
  <2>1. b \notin {a}
    OBVIOUS
  <2> QED BY <2>1, <1>2, FS_AddElement
<1>4. ({a} \cup {b}) \in SUBSET T
  OBVIOUS
<1>5. Cardinality({a} \cup {b}) <= Cardinality(T)
  BY <1>1, <1>4, FS_Subset
<1>6. Cardinality(T) \in Nat
  BY <1>1, FS_CardinalityType
<1> QED
  BY <1>3, <1>5, <1>6

\* An aggregate has exactly one scan of each stage.
LEMMA FiveScans ==
  ASSUME Formed, Evidence, NEW i \in DOMAIN reviews
  PROVE  /\ Cardinality(Records(reviews[i].refs)) = Cardinality(Stages)
         /\ reviews[i].refs = [ver : {reviews[i].ver}, run : {reviews[i].run},
                               turn : {reviews[i].turn}, stage : Stages]
<1>1. PICK r : r = reviews[i]
  OBVIOUS
<1>2. r.refs = Refs(r.ver, r.run, r.turn, 5) /\ Stored(r.refs)
  BY <1>1 DEF Evidence, Rests
<1>3. r.refs = [ver : {r.ver}, run : {r.run}, turn : {r.turn}, stage : Stages]
  BY <1>2 DEF Refs, Stages
<1> DEFINE S == Records(r.refs)
           f == [s \in S |-> s.stage]
<1>4. f \in [S -> Stages]
  BY DEF Records, Formed, ScanType
<1>5. ASSUME NEW s \in S, NEW t \in S, f[s] = f[t] PROVE s = t
  <2>1. s \in scans /\ t \in scans /\ Id(s) \in r.refs /\ Id(t) \in r.refs
    BY DEF Records
  <2>2. s.ver = r.ver /\ s.run = r.run /\ s.turn = r.turn
    BY <1>3, <2>1 DEF Id
  <2>3. t.ver = r.ver /\ t.run = r.run /\ t.turn = r.turn
    BY <1>3, <2>1 DEF Id
  <2>4. s.stage = t.stage
    BY <1>5
  <2>5. Id(s) = Id(t)
    BY <2>2, <2>3, <2>4 DEF Id
  <2> QED BY <2>1, <2>5 DEF Evidence
<1>6. ASSUME NEW k \in Stages PROVE \E s \in S : f[s] = k
  <2>1. Ref(r.ver, r.run, r.turn, k) \in r.refs
    BY <1>3 DEF Ref
  <2>2. PICK s \in scans : Id(s) = Ref(r.ver, r.run, r.turn, k)
    BY <1>2, <2>1 DEF Stored
  <2>3. s \in S /\ s.stage = k
    BY <2>1, <2>2 DEF Records, Id, Ref
  <2> QED BY <2>3
<1>7. IsFiniteSet(Stages)
  <2>1. PICK n \in Nat : n = 5
    OBVIOUS
  <2>2. IsFiniteSet(1..n)
    BY FS_Interval
  <2> QED BY <2>1, <2>2 DEF Stages
<1> HIDE DEF f
<1>8. f \in Injection(S, Stages)
  BY <1>4, <1>5 DEF Injection, IsInjective
<1>9. f \in Surjection(S, Stages)
  BY <1>4, <1>6 DEF Surjection
<1>10. Cardinality(S) = Cardinality(Stages)
  BY <1>7, <1>8, <1>9, FS_Injection
<1> QED
  BY <1>1, <1>3, <1>10

\* The invariant gives what the run of the driver checks.
LEMMA EvidenceIsSound ==
  ASSUME WaveInv
  PROVE  EvidenceSound
<1>1. Formed /\ OwnRuns /\ Evidence /\ Races
  BY DEF WaveInv, Journaled
<1>2. WaveTypeOK
  <2>1. \A i \in DOMAIN versions : versions[i].item \in Items /\ versions[i].saw \in 0..(i - 1)
    <3>1. SUFFICES ASSUME NEW i \in DOMAIN versions
                   PROVE  versions[i].item \in Items /\ versions[i].saw \in 0..(i - 1)
      OBVIOUS
    <3>2. PICK saw \in Nat : saw = versions[i].saw
      BY <1>1, Elements DEF VersionType
    <3>3. saw < i /\ i \in Nat
      BY <1>1, <3>2, Elements DEF Races
    <3>4. versions[i].item \in Items
      BY <1>1, Elements DEF VersionType
    <3> QED BY <3>2, <3>3, <3>4
  <2>2. \A s \in scans : s.ver \in DOMAIN versions /\ s.stage \in Stages /\ s.score \in 0..100
    BY <1>1 DEF Evidence, Formed, ScanType
  <2>3. \A i \in DOMAIN reviews : reviews[i].met \in 0..(i - 1)
    <3>1. SUFFICES ASSUME NEW i \in DOMAIN reviews PROVE reviews[i].met \in 0..(i - 1)
      OBVIOUS
    <3>2. PICK met \in Nat : met = reviews[i].met
      BY <1>1, Elements DEF ReviewType
    <3>3. met < i /\ i \in Nat
      BY <1>1, <3>2, Elements DEF Races
    <3> QED BY <3>2, <3>3
  <2>4. \A w \in Waves : wave[w].pc \in
          {"idle", "lookup", "capture", "security", "scan", "review", "concluded", "journal"}
    BY <1>1, Elements DEF Locals, Pcs
  <2>5. \A w \in Waves : wave[w].pc # "idle" => wave[w].todo # <<>> /\ wave[w].run \in DOMAIN runs
    BY <1>1 DEF Formed, OwnRuns
  <2> QED BY <2>1, <2>2, <2>3, <2>4, <2>5 DEF WaveTypeOK
<1>3. EvidenceIsOneRuns
  <2>1. ASSUME NEW i \in DOMAIN reviews, NEW j \in DOMAIN reviews, i # j,
               NEW id \in reviews[i].refs \cap reviews[j].refs
        PROVE  FALSE
    <3>1. ASSUME NEW k \in DOMAIN reviews, id \in reviews[k].refs
          PROVE  id.run = reviews[k].run /\ id.turn = reviews[k].turn
      <4>1. reviews[k].refs = [ver : {reviews[k].ver}, run : {reviews[k].run},
                               turn : {reviews[k].turn}, stage : Stages]
        BY <1>1, FiveScans
      <4> QED BY <3>1, <4>1
    <3>2. id.run = reviews[i].run /\ id.run = reviews[j].run
          /\ id.turn = reviews[i].turn /\ id.turn = reviews[j].turn
      BY <3>1
    <3> QED BY <1>1, <2>1, <3>1, <3>2 DEF Evidence
  <2>2. \A i, j \in DOMAIN reviews : i # j => reviews[i].refs \cap reviews[j].refs = {}
    BY <2>1
  <2> QED BY <1>1, <2>2, FiveScans DEF EvidenceIsOneRuns
<1>4. AbsentIsNotPass
  <2>1. SUFFICES ASSUME NEW i \in DOMAIN reviews, NEW required \in BOOLEAN,
                        Credited(reviews[i].verdict, reviews[i].judged, required,
                                 Records(reviews[i].refs)),
                        NEW s \in Records(reviews[i].refs), s.stage # 5 \/ required
                 PROVE  s.real
    BY DEF AbsentIsNotPass
  <2>2. s.status = "passed"
    <3>1. CASE s.stage # 5
      BY <2>1, <3>1 DEF Credited
    <3>2. CASE s.stage = 5 /\ required
      BY <2>1, <3>2 DEF Credited
    <3> QED BY <2>1, <3>1, <3>2
  <2>3. Honest(s)
    BY <1>1 DEF Evidence, Records
  <2> QED BY <2>2, <2>3 DEF Honest, Sampled
<1> QED
  BY <1>1, <1>2, <1>3, <1>4 DEF EvidenceSound, Races

\* What an approving verdict says of its scans.
LEMMA Approval ==
  ASSUME NEW records \in SUBSET ScanType, Verdict(records) = "approve"
  PROVE  \A s \in records : ~s.hard /\ (Sampled(s.status) => s.score >= 80)
<1>1. (~ \E r \in records : r.hard) /\ Aggregate(records) >= 80
  BY DEF Verdict
<1> DEFINE measured == {s.score : s \in {r \in records : Sampled(r.status)}}
<1>2. Aggregate(records) = IF measured = {} THEN 100 ELSE Min(measured)
  BY DEF Aggregate
<1>3. measured \in SUBSET Nat
  BY DEF ScanType
<1>4. ASSUME NEW s \in records, Sampled(s.status) PROVE s.score >= 80
  <2>2. s.score \in measured
    BY <1>4
  <2>3. Min(measured) <= s.score /\ Min(measured) \in Nat /\ s.score \in Nat
    BY <1>3, <2>2, MinIs
  <2>4. Min(measured) >= 80
    BY <1>1, <1>2, <2>2
  <2> QED BY <2>3, <2>4
<1> QED
  BY <1>1, <1>4

\* What is queued was proven, and a rejection is overturned only by a race.
LEMMA QueueIsSound ==
  ASSUME WaveInv
  PROVE  QueueSound
<1>1. Formed /\ Evidence /\ Told /\ JournalIsExact
  BY DEF WaveInv, Journaled
<1>2. ASSUME NEW k \in DOMAIN journal, journal[k].status = "awaiting"
      PROVE  /\ journal[k].verdict = "approve"
             /\ Backed(journal[k].ver, journal[k].item, "approve")
  BY <1>1, <1>2 DEF Told, BackedLine
<1>3. ASSUME NEW i \in DOMAIN reviews, reviews[i].verdict = "approve"
      PROVE  \A s \in Records(reviews[i].refs) : ~s.hard /\ (Sampled(s.status) => s.score >= 80)
  <2>1. PICK records : records = Records(reviews[i].refs)
    OBVIOUS
  <2>2. records \in SUBSET ScanType
    BY <1>1, <2>1 DEF Formed, Records
  <2>3. Verdict(records) = "approve"
    BY <1>1, <1>3, <2>1 DEF Evidence, Rests
  <2> QED BY <2>1, <2>2, <2>3, Approval
<1>4. QueuedIsProven
  <2>1. SUFFICES ASSUME NEW l \in Range(journal), l.status = "awaiting"
                 PROVE  /\ versions[l.ver].item = l.item
                        /\ \E i \in DOMAIN reviews :
                             /\ reviews[i].ver = l.ver /\ reviews[i].verdict = "approve"
                             /\ \A s \in Records(reviews[i].refs) : ~s.hard /\ (Sampled(s.status) => s.score >= 80)
    BY DEF QueuedIsProven
  <2>2. PICK k \in DOMAIN journal : l = journal[k]
    BY DEF Range
  <2>3. Backed(l.ver, l.item, "approve")
    BY <1>2, <2>1, <2>2
  <2>4. PICK i \in DOMAIN reviews : reviews[i].ver = l.ver /\ reviews[i].verdict = "approve"
    BY <2>3 DEF Backed
  <2>5. versions[l.ver].item = l.item
    BY <2>3 DEF Backed, IsItem
  <2> QED BY <1>3, <2>4, <2>5
<1>5. RejectionSticks
  <2>1. SUFFICES ASSUME NEW i \in DOMAIN journal, NEW j \in DOMAIN journal,
                        journal[i].item = journal[j].item,
                        journal[i].verdict \in {"reject", "request-changes"},
                        journal[j].status = "awaiting"
                 PROVE  \/ Cardinality({v \in DOMAIN versions : versions[v].item = journal[i].item}) > 1
                        \/ Cardinality({r \in DOMAIN reviews : reviews[r].ver = journal[j].ver}) > 1
    BY DEF RejectionSticks
  <2>2. PICK item, u, v, verdict : /\ item = journal[i].item /\ u = journal[i].ver
                                   /\ v = journal[j].ver /\ verdict = journal[i].verdict
    OBVIOUS
  <2>3. Backed(u, item, verdict) /\ verdict # "approve"
    BY <1>1, <2>1, <2>2 DEF Told, BackedLine
  <2>4. Backed(v, item, "approve")
    BY <1>2, <2>1, <2>2
  <2>5. CASE u # v
    <3> DEFINE T == {x \in DOMAIN versions : versions[x].item = item}
    <3>1. u \in T /\ v \in T
      BY <2>3, <2>4 DEF Backed, IsItem
    <3>2. Len(versions) \in Nat /\ T \in SUBSET (1..Len(versions))
      BY <1>1, Elements
    <3> HIDE DEF T
    <3>3. Cardinality(T) > 1
      BY <2>5, <3>1, <3>2, TwoMembers
    <3> QED BY <3>3, <2>2 DEF T
  <2>6. CASE u = v
    <3> DEFINE T == {r \in DOMAIN reviews : reviews[r].ver = v}
    <3>1. PICK a \in T : reviews[a].verdict = verdict
      BY <2>3, <2>6 DEF Backed
    <3>2. PICK b \in T : reviews[b].verdict = "approve"
      BY <2>4 DEF Backed
    <3>3. a # b
      BY <2>3, <3>1, <3>2
    <3>4. Len(reviews) \in Nat /\ T \in SUBSET (1..Len(reviews))
      BY <1>1, Elements
    <3> HIDE DEF T
    <3>5. Cardinality(T) > 1
      BY <3>1, <3>2, <3>3, <3>4, TwoMembers
    <3> QED BY <3>5, <2>2 DEF T
  <2> QED BY <2>5, <2>6
<1> QED
  BY <1>1, <1>4, <1>5 DEF QueueSound

\* The invariant holds at first, after every step and after none.
LEMMA WaveInvInit == WaveInit => WaveInv
<1> SUFFICES ASSUME WaveInit PROVE WaveInv
  OBVIOUS
<1>1. Journaled
  BY JournaledInit
<1>2. /\ versions = <<>> /\ scans = {} /\ reviews = <<>> /\ journal = <<>>
      /\ wave = [w \in Waves |-> Idle]
  BY DEF WaveInit
<1>3. \A w \in Waves : wave[w].pc = "idle" /\ wave[w].verdict = "none" /\ wave[w].status = "none"
  BY <1>2, IdleType
<1>4. Told
  BY <1>2, <1>3 DEF Told, Placed
<1>5. Races
  BY <1>2, <1>3 DEF Races, LookedUp, SameNumberIsRaced, SecondVerdictIsRaced
<1>6. Evidence
  BY <1>2, <1>3 DEF Evidence, Apart
<1> QED
  BY <1>1, <1>4, <1>5, <1>6 DEF WaveInv

LEMMA WaveInvNext ==
  ASSUME WaveInv, WaveNext
  PROVE  WaveInv'
<1>1. Formed /\ Gathering /\ OwnRuns /\ Told /\ Races /\ Evidence
  BY DEF WaveInv, Journaled
<1>2. Journaled' /\ Grows
  BY JournaledNext DEF WaveInv
<1>3. PICK w \in Waves : Step(w)
  BY DEF WaveNext, Step
<1>4. Told'
  BY <1>1, <1>2, <1>3, ToldNext
<1>5. Races'
  BY <1>1, <1>2, <1>3, RacesNext
<1>6. Evidence'
  BY <1>1, <1>2, <1>3, EvidenceNext
<1> QED
  BY <1>2, <1>4, <1>5, <1>6 DEF WaveInv

LEMMA WaveInvStutter ==
  ASSUME WaveInv, UNCHANGED waveVars
  PROVE  WaveInv'
<1>1. UNCHANGED <<versions, scans, reviews, runs, journal, wave, faults>>
  BY DEF waveVars
<1>2. Formed' /\ OwnRuns'
  BY <1>1 DEF WaveInv, Journaled, Formed, OwnRuns
<1>3. Gathering'
  BY <1>1 DEF WaveInv, Journaled, Gathering, Made, Turn
<1>4. Progress' /\ JournalIsExact'
  <2>1. \A n : Lines(n)' = Lines(n)
    BY <1>1 DEF Lines
  <2>2. ASSUME NEW w \in Waves PROVE Stands(w)'
    <3>1. Stands(w)
      BY DEF WaveInv, Journaled, Progress
    <3>2. CASE wave[w].pc = "idle"
      BY <1>1, <3>2 DEF Stands
    <3>3. CASE wave[w].pc # "idle"
      <4>1. PICK n : n = wave[w].run
        OBVIOUS
      <4> QED BY <1>1, <2>1, <3>1, <3>3, <4>1, StandsKept
    <3> QED BY <3>2, <3>3
  <2>3. LinesKnown'
    BY <1>1 DEF WaveInv, Journaled, Progress, LinesKnown
  <2>4. JournalIsExact'
    <3>1. \A n \in DOMAIN runs : ExactRun(n)
      BY ExactRuns DEF WaveInv, Journaled
    <3>2. \A n, k : Lines(n)' = Lines(n) /\ Before(n, k)' = Before(n, k)
      BY <1>1, NoNewLine
    <3>3. \A n \in DOMAIN runs' : ExactRun(n)'
      BY <1>1, <3>1, <3>2, ExactKept
    <3> QED BY <3>3 DEF JournalIsExact, ExactRun, Before
  <2> QED BY <2>2, <2>3, <2>4 DEF Progress
<1>5. Told'
  BY <1>1 DEF WaveInv, Told, Placed, BackedLine, Backed, IsItem, Item
<1>6. Races'
  BY <1>1 DEF WaveInv, Races, LookedUp, Unseen, Unmet, Item, SameNumberIsRaced, SecondVerdictIsRaced
<1>7. Evidence'
  <2>1. Evidence
    BY DEF WaveInv
  <2>2. \A refs : (Records(refs)' = Records(refs)) /\ (Stored(refs)' <=> Stored(refs))
    BY <1>1 DEF Records, Stored, Id
  <2>3. ASSUME NEW i \in DOMAIN reviews' PROVE Rests(reviews[i])'
    <3>1. PICK r : r = reviews[i]
      OBVIOUS
    <3>2. Rests(r)
      BY <1>1, <2>1, <3>1 DEF Evidence
    <3>3. r.verdict = Verdict(Records(r.refs)')
      BY <2>2, <3>2 DEF Rests
    <3>4. r.run \in DOMAIN runs' /\ r.refs = Refs(r.ver, r.run, r.turn, 5) /\ Stored(r.refs)'
      BY <1>1, <2>2, <3>2 DEF Rests
    <3>5. reviews'[i] = r
      BY <1>1, <3>1
    <3> QED BY <3>3, <3>4, <3>5 DEF Rests, Records, Stored, Id
  <2>4. ASSUME NEW w \in Waves PROVE Apart(w)'
    <3>1. /\ \A r, t, own : ScansAbove(r, t, own)' <=> ScansAbove(r, t, own)
          /\ \A r, t : ReviewsAbove(r, t)' <=> ReviewsAbove(r, t)
      BY <1>1, Quiet
    <3>2. Apart(w)
      BY <2>1 DEF Evidence
    <3> QED BY <1>1, <3>2 DEF Apart, ScansAbove, ReviewsAbove, Stored, Id, Turn
  <2> QED BY <1>1, <2>1, <2>3, <2>4 DEF Evidence, Honest, Id
<1> QED
  BY <1>2, <1>3, <1>4, <1>5, <1>6, <1>7 DEF WaveInv, Journaled

\* Every security aggregate (_write_review) rests on exactly one scan of each
\* stage, of its own version and made by its own run for that item; no scan
\* serves two aggregates, a stage that did not look never earns credit in the
\* projection, and a version number or a verdict is given twice only by waves
\* that raced (run_wave, run_pipeline): for any number of operators, waves,
\* skills, faults and deaths.
THEOREM WaveEvidence == WaveSpec => []EvidenceSound
<1>1. WaveInit => WaveInv
  BY WaveInvInit
<1>2. WaveInv /\ [WaveNext]_waveVars => WaveInv'
  BY WaveInvNext, WaveInvStutter
<1>3. WaveInv => EvidenceSound
  BY EvidenceIsSound
<1> QED
  BY <1>1, <1>2, <1>3, PTL DEF WaveSpec

\* The journal run_wave writes is exact: a run's lines are the items of its
\* selection in order, all of them when it ended normally; a version it queues
\* for a human has an approving aggregate whose measured stages reach 0.8 and
\* have no must-block finding, and a payload once turned down is queued later
\* only after a race.  It holds for waves of any size, started any number of
\* times and stopped anywhere.
THEOREM WaveQueue == WaveSpec => []QueueSound
<1>1. WaveInit => WaveInv
  BY WaveInvInit
<1>2. WaveInv /\ [WaveNext]_waveVars => WaveInv'
  BY WaveInvNext, WaveInvStutter
<1>3. WaveInv => QueueSound
  BY QueueIsSound
<1> QED
  BY <1>1, <1>2, <1>3, PTL DEF WaveSpec

-----------------------------------------------------------------------------
(* The capture of working trees.                                           *)

\* A file with text.
TextNode == {x \in Node : x.kind = "text"}

\* Sets of text files.
Texts == UNION {[D -> TextNode] : D \in SUBSET Range(Names)}

\* Membership in a set of functions with many domains.
LEMMA TextsAre ==
  ASSUME NEW f
  PROVE  f \in Texts <=> DOMAIN f \in SUBSET Range(Names) /\ f \in [DOMAIN f -> TextNode]
BY DEF Texts

\* Two sets of files merged, the first one winning.
LEMMA TogetherType ==
  ASSUME NEW f \in Texts, NEW g \in Texts
  PROVE  /\ Together(f, g) \in Texts
         /\ DOMAIN Together(f, g) = DOMAIN f \cup DOMAIN g
         /\ \A n \in DOMAIN f : Together(f, g)[n] = f[n]
         /\ \A n \in DOMAIN g : n \notin DOMAIN f => Together(f, g)[n] = g[n]
<1>1. /\ DOMAIN Together(f, g) = DOMAIN f \cup DOMAIN g
      /\ \A n \in DOMAIN f : Together(f, g)[n] = f[n]
      /\ \A n \in DOMAIN g : n \notin DOMAIN f => Together(f, g)[n] = g[n]
  BY DEF Together
<1>2. /\ \A n \in DOMAIN f : f[n] \in TextNode
      /\ \A n \in DOMAIN g : g[n] \in TextNode
      /\ DOMAIN f \cup DOMAIN g \in SUBSET Range(Names)
  BY TextsAre
<1>3. Together(f, g) \in [DOMAIN f \cup DOMAIN g -> TextNode]
  BY <1>2 DEF Together
<1>4. Together(f, g) \in Texts
  BY <1>1, <1>2, <1>3, TextsAre
<1> QED
  BY <1>1, <1>4

\* What the loader has taken, is reading, and holds.
Payloads == [skill : Paths, files : Texts, own : SUBSET Range(Names)]

Sessions == [path : Paths, held : Trees \cup {"none"}, list : SUBSET Range(Names), got : Texts,
             quiet : BOOLEAN]

Loaders == [pc : {"open", "list", "read", "loaded", "refused"}, todo : Seq(Range(Skills)),
            bundle : Texts, items : Seq(Payloads), s : Sessions]

\* What is known of a directory being read.
Listing(s) ==
  /\ \A n \in DOMAIN s.got : s.got[n].tree = s.held
  /\ "review.json" \notin DOMAIN s.got \cup s.list
  /\ s.path = "_shared" => DOMAIN s.got \cup s.list = Canonical
  /\ s.path # "_shared" => "SKILL.md" \in DOMAIN s.got \cup s.list

\* A payload taken with this bundle.
Taken(item, bundle) ==
  /\ item.own \subseteq DOMAIN item.files
  /\ DOMAIN item.files \ item.own = DOMAIN bundle
  /\ \A n \in DOMAIN bundle : item.files[n] = bundle[n]
  /\ \A m, n \in item.own : item.files[m].tree = item.files[n].tree
  /\ "SKILL.md" \in DOMAIN item.files /\ "review.json" \notin DOMAIN item.files
  /\ Cardinality(DOMAIN item.files) <= MaxFiles
  /\ Refers(item.files) => Canonical \subseteq DOMAIN item.files

Settled(bundle, items) ==
  /\ DOMAIN bundle \in {{}, Canonical} /\ "review.json" \notin DOMAIN bundle
  /\ \A i \in DOMAIN items : Taken(items[i], bundle)

\* Whose turn it is: the bundle's, before anything was taken, or the next skill's.
InOrder(l) ==
  /\ l.s.path = "_shared" => l.items = <<>> /\ l.bundle = Unset
  /\ l.s.path # "_shared" => l.todo # <<>>

LoaderOK(l) ==
  /\ l \in Loaders
  /\ l.pc \in {"list", "read"} => l.s.held \in Trees
  /\ l.pc \in {"open", "list"} => l.s.got = Unset
  /\ l.pc = "read" => Listing(l.s)
  /\ l.pc \in {"open", "list", "read"} => InOrder(l)
  /\ Settled(l.bundle, l.items)

\* What was read of a directory nobody touched is what lies there.
Untouched(l) ==
  l.pc = "read" /\ l.s.quiet =>
    /\ DOMAIN l.s.got \cup l.s.list = Present(l.s.held)
    /\ \A n \in DOMAIN l.s.got : l.s.got[n] = node[l.s.held][n]

\* The working tree is a tree of directories.
TreeOK ==
  /\ root \in [Paths -> Trees \cup {"none", "link"}]
  /\ node \in [Trees -> [Range(Names) -> Node]]
  /\ \A t \in Trees, n \in Range(Names) : node[t][n].tree = t
  /\ changes \in 0..MaxChanges

\* The invariant of the capture.
IntakeInv == TreeOK /\ LoaderOK(loader) /\ Untouched(loader)

\* The empty set of files, and the beginning of a session.
LEMMA UnsetType == Unset \in Texts /\ DOMAIN Unset = {}
<1>1. DOMAIN Unset = {}
  BY DEF Unset
<1>2. Unset \in [{} -> TextNode]
  BY DEF Unset
<1> QED
  BY <1>1, <1>2, TextsAre

LEMMA SessionType ==
  ASSUME NEW path \in Paths
  PROVE  /\ [Session EXCEPT !.path = path] \in Sessions
         /\ [Session EXCEPT !.path = path].path = path
         /\ [Session EXCEPT !.path = path].got = Unset
         /\ [Session EXCEPT !.path = path].list = {}
BY UnsetType DEF Session, Sessions

LEMMA SessionIs == Session \in Sessions
<1>1. "_shared" \in Paths
  BY DEF Paths
<1> QED
  BY <1>1, UnsetType DEF Session, Sessions

\* The invariant holds at first.
LEMMA IntakeInitOK == IntakeInit => IntakeInv
<1> SUFFICES ASSUME IntakeInit PROVE IntakeInv
  OBVIOUS
<1>1. /\ root \in FirstRoots /\ node = FirstNodes /\ changes = 0
      /\ loader = [pc |-> "open", todo |-> Skills, bundle |-> Unset, items |-> <<>>, s |-> Session]
  BY DEF IntakeInit
<1>2. root \in [Paths -> Trees \cup {"none", "link"}]
  BY <1>1, IntakeAssumption DEF Paths
<1>3. node \in [Trees -> [Range(Names) -> Node]]
  <2>1. {0} \subseteq 0..MaxChanges
    BY IntakeAssumption
  <2>2. [kind : {"absent", "text", "binary", "link"}, tree : Trees, rev : {0}, refers : BOOLEAN]
          \subseteq Node
    BY <2>1 DEF Node
  <2> QED BY <1>1, <2>2, IntakeAssumption
<1>4. TreeOK
  BY <1>1, <1>2, <1>3, IntakeAssumption DEF TreeOK
<1>5. loader \in Loaders
  <2>1. Skills \in Seq(Range(Skills)) /\ <<>> \in Seq(Payloads)
    BY IntakeAssumption
  <2> QED BY <1>1, <2>1, UnsetType, SessionIs DEF Loaders
<1>6. LoaderOK(loader)
  <2>1. loader.s.path = "_shared" /\ loader.s.got = Unset
    BY <1>1 DEF Session
  <2>2. InOrder(loader)
    BY <1>1, <2>1 DEF InOrder
  <2>3. Settled(loader.bundle, loader.items)
    BY <1>1, UnsetType DEF Settled
  <2> QED BY <1>1, <1>5, <2>1, <2>2, <2>3 DEF LoaderOK
<1>7. Untouched(loader)
  BY <1>1 DEF Untouched
<1> QED
  BY <1>4, <1>6, <1>7 DEF IntakeInv

\* The loader turns to the next directory.
LEMMA NextSkillOK ==
  ASSUME LoaderOK(loader), NEW bundle \in Texts, NEW items \in Seq(Payloads),
         NEW todo \in Seq(Range(Skills)), Settled(bundle, items),
         NextSkill(bundle, items, todo)
  PROVE  LoaderOK(loader') /\ Untouched(loader)' /\ loader'.items = items
<1>1. PICK l \in Loaders : l = loader
  BY DEF LoaderOK
<1>2. CASE todo = <<>>
  <2> DEFINE new == [l EXCEPT !.bundle = bundle, !.items = items, !.todo = todo,
                              !.pc = "loaded", !.s = Session]
  <2>1. loader' = new
    BY <1>1, <1>2 DEF NextSkill
  <2>2. new \in Loaders
    BY SessionIs DEF Loaders
  <2>3. new.pc = "loaded" /\ new.bundle = bundle /\ new.items = items
    BY DEF Loaders
  <2> HIDE DEF new
  <2>4. LoaderOK(new)
    BY <2>2, <2>3 DEF LoaderOK
  <2> QED BY <2>1, <2>3, <2>4 DEF Untouched
<1>3. CASE todo # <<>>
  <2>1. Head(todo) \in Range(Skills)
    <3>1. PICK S : S = Range(Skills)
      OBVIOUS
    <3>2. todo \in Seq(S) /\ todo # <<>>
      BY <1>3, <3>1
    <3>3. Head(todo) \in S
      BY <3>2, HeadTailProperties
    <3> QED BY <3>1, <3>3
  <2>11. "_shared" \notin Range(Skills)
    BY IntakeAssumption
  <2>2. PICK path \in Paths : path = Head(todo) /\ path # "_shared"
    <3>1. PICK p \in Range(Skills) : p = Head(todo)
      BY <2>1
    <3>2. p \in Paths
      BY DEF Paths
    <3>3. p # "_shared"
      BY <2>11
    <3> QED BY <3>1, <3>2, <3>3
  <2> DEFINE s == [Session EXCEPT !.path = path]
  <2>3. s \in Sessions /\ s.path = path /\ s.got = Unset
    BY SessionType
  <2> DEFINE new == [l EXCEPT !.bundle = bundle, !.items = items, !.todo = todo,
                              !.pc = "open", !.s = s]
  <2>4. loader' = new
    BY <1>1, <1>3, <2>2, <2>3 DEF NextSkill
  <2> HIDE DEF s
  <2>5. new \in Loaders
    BY <2>3 DEF Loaders
  <2>6. new.pc = "open" /\ new.bundle = bundle /\ new.items = items /\ new.todo = todo /\ new.s = s
    BY DEF Loaders
  <2> HIDE DEF new
  <2>7. InOrder(new)
    BY <1>3, <2>2, <2>3, <2>6 DEF InOrder
  <2>8. LoaderOK(new)
    BY <2>3, <2>5, <2>6, <2>7 DEF LoaderOK
  <2> QED BY <2>4, <2>6, <2>8 DEF Untouched
<1> QED
  BY <1>2, <1>3

\* A refusal takes nothing.
LEMMA RefuseOK ==
  ASSUME LoaderOK(loader), RefuseTree
  PROVE  LoaderOK(loader') /\ Untouched(loader)' /\ loader'.items = loader.items
<1>1. PICK l \in Loaders : l = loader
  BY DEF LoaderOK
<1> DEFINE new == [l EXCEPT !.pc = "refused"]
<1>2. loader' = new
  BY <1>1 DEF RefuseTree
<1>3. new \in Loaders /\ new.pc = "refused" /\ new.bundle = l.bundle /\ new.items = l.items
  BY DEF Loaders
<1> HIDE DEF new
<1>4. LoaderOK(new)
  BY <1>1, <1>3 DEF LoaderOK
<1> QED
  BY <1>1, <1>2, <1>3, <1>4 DEF Untouched

\* The actions in which the loader does not turn to another directory.
LEMMA OpenOK ==
  ASSUME IntakeInv, loader.pc = "open", Openable,
         loader' = [loader EXCEPT !.pc = "list", !.s.held = root[Target]]
  PROVE  LoaderOK(loader') /\ Untouched(loader)' /\ loader'.items = loader.items
<1>1. PICK l \in Loaders : l = loader
  BY DEF IntakeInv, LoaderOK
<1>2. PICK t \in Trees : t = root[Target]
  BY DEF Openable
<1> DEFINE s == [l.s EXCEPT !.held = t]
           new == [l EXCEPT !.pc = "list", !.s = s]
<1>3. l.s \in Sessions
  BY DEF Loaders
<1>4. s \in Sessions /\ s.held = t /\ s.path = l.s.path /\ s.got = l.s.got
  BY <1>3 DEF Sessions
<1>5. loader' = new
  BY <1>1, <1>2
<1>6. new \in Loaders /\ new.pc = "list" /\ new.bundle = l.bundle /\ new.items = l.items
      /\ new.todo = l.todo /\ new.s = s
  BY <1>4 DEF Loaders
<1> HIDE DEF s, new
<1>7. InOrder(new)
  BY <1>1, <1>4, <1>6 DEF IntakeInv, LoaderOK, InOrder
<1>8. LoaderOK(new)
  BY <1>1, <1>4, <1>6, <1>7 DEF IntakeInv, LoaderOK
<1> QED
  BY <1>1, <1>5, <1>6, <1>8 DEF Untouched

LEMMA ListOK ==
  ASSUME IntakeInv, List
  PROVE  LoaderOK(loader') /\ Untouched(loader)' /\ loader'.items = loader.items
<1>1. PICK l \in Loaders : l = loader
  BY DEF IntakeInv, LoaderOK
<1>2. CASE ~Listable(loader.s.held)
  BY <1>2, RefuseOK DEF IntakeInv, List
<1>3. CASE Listable(loader.s.held)
  <2>1. PICK t \in Trees : t = l.s.held
    BY <1>1 DEF IntakeInv, LoaderOK, List
  <2>2. PICK present : present = Present(t)
    OBVIOUS
  <2>3. present \in SUBSET Range(Names)
    BY <2>2 DEF Present
  <2> DEFINE s == [l.s EXCEPT !.list = present]
             new == [l EXCEPT !.pc = "read", !.s = s]
  <2>4. l.s \in Sessions
    BY DEF Loaders
  <2>5. s \in Sessions /\ s.held = t /\ s.path = l.s.path /\ s.got = l.s.got /\ s.list = present
    BY <2>1, <2>3, <2>4 DEF Sessions
  <2>6. loader' = new /\ UNCHANGED <<root, node>>
    BY <1>1, <1>3, <2>1, <2>2 DEF List
  <2>7. new \in Loaders /\ new.pc = "read" /\ new.bundle = l.bundle /\ new.items = l.items
        /\ new.todo = l.todo /\ new.s = s
    BY <2>5 DEF Loaders
  <2> HIDE DEF s, new
  <2>8. s.got = Unset /\ DOMAIN s.got = {}
    BY <1>1, <2>5, UnsetType DEF IntakeInv, LoaderOK, List
  <2>9. /\ "review.json" \notin present
        /\ l.s.path = "_shared" => present = Canonical
        /\ l.s.path # "_shared" => "SKILL.md" \in present
    BY <1>1, <1>3, <2>1, <2>2 DEF Listable, Target
  <2>10. Listing(s)
    BY <2>5, <2>8, <2>9 DEF Listing
  <2>11. InOrder(new)
    BY <1>1, <2>5, <2>7 DEF IntakeInv, LoaderOK, InOrder, List
  <2>12. LoaderOK(new)
    BY <1>1, <2>5, <2>7, <2>10, <2>11 DEF IntakeInv, LoaderOK
  <2>13. Present(t)' = present
    BY <2>2, <2>6 DEF Present
  <2>14. Untouched(loader)'
    BY <2>5, <2>6, <2>7, <2>8, <2>13 DEF Untouched, Present
  <2> QED BY <1>1, <2>6, <2>7, <2>12, <2>14
<1> QED
  BY <1>2, <1>3

LEMMA ReadOK ==
  ASSUME IntakeInv, Read
  PROVE  LoaderOK(loader') /\ Untouched(loader)' /\ loader'.items = loader.items
<1>1. PICK l \in Loaders : l = loader
  BY DEF IntakeInv, LoaderOK
<1>2. PICK k \in DOMAIN Names :
        /\ Names[k] \in loader.s.list
        /\ IF Opened(Names[k]).kind = "text"
           THEN loader' = [loader EXCEPT !.s.list = @ \ {Names[k]},
                  !.s.got = Together([n \in {Names[k]} |-> Opened(n)], @)]
           ELSE RefuseTree
  BY DEF Read
<1>3. PICK name \in Range(Names) : name = Names[k] /\ name \in l.s.list
  BY <1>1, <1>2 DEF Range
<1>4. CASE Opened(name).kind # "text"
  BY <1>2, <1>3, <1>4, RefuseOK DEF IntakeInv
<1>5. CASE Opened(name).kind = "text"
  <2>1. PICK t \in Trees : t = l.s.held
    BY <1>1 DEF IntakeInv, LoaderOK, Read
  <2>2. PICK x \in TextNode : x = node[t][name] /\ x.tree = t
    BY <1>1, <1>5, <2>1 DEF IntakeInv, TreeOK, Opened, TextNode
  <2>3. PICK one : one = [n \in {name} |-> x]
    OBVIOUS
  <2>4. one \in Texts /\ DOMAIN one = {name} /\ one[name] = x
    BY <2>3, TextsAre
  <2>5. l.s \in Sessions /\ l.s.got \in Texts
    BY DEF Loaders, Sessions
  <2>6. PICK got \in Texts : got = Together(one, l.s.got)
    BY <2>4, <2>5, TogetherType
  <2>7. /\ DOMAIN got = {name} \cup DOMAIN l.s.got /\ got[name] = x
        /\ \A n \in DOMAIN l.s.got : n # name => got[n] = l.s.got[n]
    <3>1. PICK g \in Texts : g = l.s.got
      BY <2>5
    <3>2. /\ DOMAIN Together(one, g) = DOMAIN one \cup DOMAIN g
          /\ \A n \in DOMAIN one : Together(one, g)[n] = one[n]
          /\ \A n \in DOMAIN g : n \notin DOMAIN one => Together(one, g)[n] = g[n]
      BY <2>4, TogetherType
    <3> QED BY <2>4, <2>6, <3>1, <3>2
  <2> DEFINE s == [l.s EXCEPT !.list = @ \ {name}, !.got = got]
             new == [l EXCEPT !.s = s]
  <2>8. /\ s \in Sessions /\ s.held = t /\ s.path = l.s.path /\ s.got = got
        /\ s.list = l.s.list \ {name} /\ s.quiet = l.s.quiet
    BY <2>1, <2>5 DEF Sessions
  <2>9. loader' = new /\ UNCHANGED <<root, node>>
    <3>1. [n \in {name} |-> Opened(n)] = one
      BY <1>1, <2>1, <2>2, <2>3 DEF Opened
    <3>2. loader' = [l EXCEPT !.s.list = @ \ {name}, !.s.got = Together(one, @)]
      BY <1>1, <1>2, <1>3, <1>5, <3>1
    <3>3. loader' = new
      BY <2>5, <2>6, <3>2 DEF Sessions
    <3> QED BY <3>3 DEF Read
  <2>10. new \in Loaders /\ new.pc = l.pc /\ new.bundle = l.bundle /\ new.items = l.items
         /\ new.todo = l.todo /\ new.s = s
    BY <2>8 DEF Loaders
  <2> HIDE DEF s, new
  <2>11. l.pc = "read" /\ Listing(l.s) /\ InOrder(l) /\ Settled(l.bundle, l.items) /\ Untouched(l)
    BY <1>1 DEF IntakeInv, LoaderOK, Read, Untouched
  <2>12. DOMAIN s.got \cup s.list = DOMAIN l.s.got \cup l.s.list
    BY <1>3, <2>7, <2>8
  <2>13. Listing(s)
    <3>1. \A n \in DOMAIN s.got : s.got[n].tree = s.held
      BY <2>1, <2>2, <2>7, <2>8, <2>11 DEF Listing
    <3> QED BY <2>8, <2>11, <2>12, <3>1 DEF Listing
  <2>14. InOrder(new)
    BY <2>8, <2>10, <2>11 DEF InOrder
  <2>15. LoaderOK(new)
    BY <2>1, <2>8, <2>10, <2>11, <2>13, <2>14 DEF LoaderOK
  <2>16. Untouched(new)
    BY <2>1, <2>2, <2>7, <2>8, <2>10, <2>11, <2>12 DEF Untouched
  <2>17. Untouched(new)'
    BY <2>9, <2>16 DEF Untouched, Present
  <2> QED BY <1>1, <2>9, <2>10, <2>15, <2>17 DEF Untouched
<1> QED
  BY <1>4, <1>5

\* A payload that was added is what was read, and the bundle.
Exactly ==
  Len(loader.items') > Len(loader.items) /\ loader.s.quiet =>
    LET item == Last(loader'.items)
    IN [n \in item.own |-> item.files[n]] = Whole(loader.s.held)

\* A step that adds no payload is exact.
LEMMA NothingTaken ==
  ASSUME LoaderOK(loader), loader'.items = loader.items
  PROVE  Exactly
<1>1. PICK n \in Nat : n = Len(loader.items)
  BY DEF LoaderOK, Loaders
<1>2. Len(loader.items') = n
  BY <1>1
<1> QED
  BY <1>1, <1>2 DEF Exactly

\* The payload of a skill whose files and whose bundle may be merged.
LEMMA MergedIsTaken ==
  ASSUME NEW s \in Sessions, NEW bundle \in Texts, Listing(s), s.list = {}, s.path # "_shared",
         DOMAIN bundle \in {{}, Canonical}, "review.json" \notin DOMAIN bundle,
         NEW merged, merged = Together(s.got, bundle),
         SharedIn(s.got) = {} \/ bundle = Unset,
         Refers(merged) => Canonical \subseteq DOMAIN merged,
         WithinBudget(merged),
         NEW item, item = [skill |-> s.path, files |-> merged, own |-> DOMAIN s.got]
  PROVE  /\ item \in Payloads /\ Taken(item, bundle)
         /\ item.own = DOMAIN s.got /\ \A n \in item.own : item.files[n] = s.got[n]
<1>1. s.got \in Texts /\ s.path \in Paths
  BY DEF Sessions
<1>2. /\ merged \in Texts /\ DOMAIN merged = DOMAIN s.got \cup DOMAIN bundle
      /\ \A n \in DOMAIN s.got : merged[n] = s.got[n]
      /\ \A n \in DOMAIN bundle : n \notin DOMAIN s.got => merged[n] = bundle[n]
  <2>1. PICK got \in Texts : got = s.got
    BY <1>1
  <2>2. /\ Together(got, bundle) \in Texts
        /\ DOMAIN Together(got, bundle) = DOMAIN got \cup DOMAIN bundle
        /\ \A n \in DOMAIN got : Together(got, bundle)[n] = got[n]
        /\ \A n \in DOMAIN bundle : n \notin DOMAIN got => Together(got, bundle)[n] = bundle[n]
    BY TogetherType
  <2> QED BY <2>1, <2>2
<1>3. item.files = merged /\ item.own = DOMAIN s.got
  OBVIOUS
<1>4. item \in Payloads
  <2>1. DOMAIN s.got \in SUBSET Range(Names)
    BY <1>1, TextsAre
  <2> QED BY <1>1, <1>2, <2>1 DEF Payloads
<1>5. DOMAIN s.got \cap DOMAIN bundle = {}
  BY UnsetType DEF SharedIn
<1>6. "SKILL.md" \in DOMAIN s.got /\ "review.json" \notin DOMAIN s.got
      /\ \A n \in DOMAIN s.got : s.got[n].tree = s.held
  BY DEF Listing
<1>7. Taken(item, bundle)
  <2>1. PICK got : got = s.got /\ item.own = DOMAIN got
    BY <1>3
  <2>2. item.own \subseteq DOMAIN item.files /\ DOMAIN item.files \ item.own = DOMAIN bundle
    BY <1>2, <1>3, <1>5, <2>1
  <2>3. \A n \in DOMAIN bundle : item.files[n] = bundle[n]
    BY <1>2, <1>3, <1>5, <2>1
  <2>4. \A m, n \in item.own : item.files[m].tree = item.files[n].tree
    BY <1>2, <1>3, <1>6, <2>1
  <2>5. "SKILL.md" \in DOMAIN item.files /\ "review.json" \notin DOMAIN item.files
    BY <1>2, <1>3, <1>6
  <2>6. Cardinality(DOMAIN item.files) <= MaxFiles
    BY <1>3 DEF WithinBudget
  <2>7. Refers(item.files) => Canonical \subseteq DOMAIN item.files
    BY <1>3
  <2> QED BY <2>2, <2>3, <2>4, <2>5, <2>6, <2>7 DEF Taken
<1> QED
  BY <1>2, <1>3, <1>4, <1>7

\* A skill is taken, or the loader refuses.
LEMMA MergeOK ==
  ASSUME IntakeInv, Merge
  PROVE  LoaderOK(loader') /\ Untouched(loader)' /\ Exactly
<1>1. PICK l \in Loaders : l = loader
  BY DEF IntakeInv, LoaderOK
<1>2. /\ l.pc = "read" /\ l.s.list = {} /\ Listing(l.s) /\ InOrder(l)
      /\ Settled(l.bundle, l.items) /\ LoaderOK(loader)
  BY <1>1 DEF IntakeInv, LoaderOK, Merge
<1>3. /\ l.s \in Sessions /\ l.s.got \in Texts /\ l.bundle \in Texts /\ l.items \in Seq(Payloads)
      /\ l.todo \in Seq(Range(Skills))
  BY DEF Loaders, Sessions
<1>4. CASE l.s.path = "_shared"
  <2>1. NextSkill(l.s.got, l.items, l.todo)
    BY <1>1, <1>4 DEF Merge, Target
  <2>2. Settled(l.s.got, l.items)
    BY <1>2, <1>4 DEF Settled, Listing, InOrder
  <2>3. LoaderOK(loader') /\ Untouched(loader)' /\ loader'.items = l.items
    BY <1>2, <1>3, <2>1, <2>2, NextSkillOK
  <2> QED BY <1>1, <1>2, <2>3, NothingTaken
<1>5. CASE l.s.path # "_shared" /\ RefuseTree
  BY <1>2, <1>5, RefuseOK, NothingTaken
<1>6. CASE l.s.path # "_shared" /\ ~RefuseTree
  <2>1. PICK merged : merged = Together(l.s.got, l.bundle)
    OBVIOUS
  <2>2. PICK item : item = [skill |-> l.s.path, files |-> merged, own |-> DOMAIN l.s.got]
    OBVIOUS
  <2>3. Mergeable(l.s.got, merged) /\ NextSkill(l.bundle, Append(l.items, item), Tail(l.todo))
    BY <1>1, <1>6, <2>1, <2>2 DEF Merge, Target, Bundle
  <2>4. /\ item \in Payloads /\ Taken(item, l.bundle)
        /\ item.own = DOMAIN l.s.got /\ \A n \in item.own : item.files[n] = l.s.got[n]
    <3>1. SharedIn(l.s.got) = {} \/ l.bundle = Unset
      BY <1>1, <2>3 DEF Mergeable, Bundle
    <3>2. (Refers(merged) => Canonical \subseteq DOMAIN merged) /\ WithinBudget(merged)
      BY <2>3 DEF Mergeable
    <3>3. DOMAIN l.bundle \in {{}, Canonical} /\ "review.json" \notin DOMAIN l.bundle
      BY <1>2 DEF Settled
    <3> QED BY <1>2, <1>3, <1>6, <2>1, <2>2, <3>1, <3>2, <3>3, MergedIsTaken
  <2>5. PICK items \in Seq(Payloads) :
          /\ items = Append(l.items, item)
          /\ DOMAIN items = 1..(Len(l.items) + 1) /\ DOMAIN l.items = 1..Len(l.items)
          /\ Len(l.items) \in Nat /\ Len(items) = Len(l.items) + 1
          /\ items[Len(l.items) + 1] = item
          /\ \A i \in DOMAIN l.items : items[i] = l.items[i]
    <3>1. PICK before \in Seq(Payloads) : before = l.items
      BY <1>3
    <3>2. PICK after : after = Append(before, item)
      OBVIOUS
    <3>3. item \in Payloads
      BY <2>4
    <3>4. /\ after \in Seq(Payloads) /\ Len(after) = Len(before) + 1
          /\ DOMAIN after = 1..(Len(before) + 1) /\ DOMAIN before = 1..Len(before)
          /\ after[Len(before) + 1] = item
          /\ \A i \in DOMAIN before : after[i] = before[i]
      BY <3>2, <3>3, AppendFacts
    <3>5. Len(before) \in Nat
      OBVIOUS
    <3> QED BY <3>1, <3>2, <3>4, <3>5
  <2>6. Settled(l.bundle, items)
    <3>1. \A i \in DOMAIN items : i \in DOMAIN l.items \/ i = Len(l.items) + 1
      BY <2>5
    <3>2. \A i \in DOMAIN items : Taken(items[i], l.bundle)
      BY <1>2, <2>4, <2>5, <3>1 DEF Settled
    <3> QED BY <1>2, <3>2 DEF Settled
  <2>7. Tail(l.todo) \in Seq(Range(Skills))
    <3>1. PICK S : S = Range(Skills)
      OBVIOUS
    <3>2. l.todo \in Seq(S) /\ l.todo # <<>>
      BY <1>2, <1>3, <1>6, <3>1 DEF InOrder
    <3>3. Tail(l.todo) \in Seq(S)
      BY <3>2, HeadTailProperties
    <3> QED BY <3>1, <3>3
  <2>8. LoaderOK(loader') /\ Untouched(loader)' /\ loader'.items = items
    BY <1>2, <1>3, <2>3, <2>5, <2>6, <2>7, NextSkillOK
  <2>9. ASSUME l.s.quiet PROVE [n \in item.own |-> item.files[n]] = Whole(l.s.held)
    <3>1. /\ DOMAIN l.s.got = Present(l.s.held)
          /\ \A n \in DOMAIN l.s.got : l.s.got[n] = node[l.s.held][n]
      BY <1>1, <1>2, <2>9 DEF IntakeInv, Untouched
    <3>2. Whole(l.s.held) = [n \in Present(l.s.held) |-> node[l.s.held][n]]
      BY DEF Whole, Present
    <3> QED BY <2>4, <3>1, <3>2
  <2>10. Last(loader'.items) = item
    BY <2>5, <2>8 DEF Last
  <2> QED BY <1>1, <2>8, <2>9, <2>10 DEF Exactly
<1> QED
  BY <1>4, <1>5, <1>6

\* Somebody edits a file: what was read of it stays read, and the directory is
\* no longer quiet.
LEMMA EditOK ==
  ASSUME IntakeInv, EditFile
  PROVE  IntakeInv' /\ loader'.items = loader.items
<1>1. PICK l \in Loaders : l = loader
  BY DEF IntakeInv, LoaderOK
<1>2. PICK t \in Trees, name \in Range(Names), kind \in {"absent", "text", "binary", "link"},
           refers \in BOOLEAN :
        /\ t = "shared" => name \in Canonical
        /\ refers => kind = "text"
        /\ node' = [node EXCEPT ![t][name] =
             [kind |-> kind, tree |-> t, rev |-> changes + 1, refers |-> refers]]
        /\ loader' = [loader EXCEPT !.s.quiet = @ /\ t # loader.s.held]
  BY Zenon DEF EditFile
<1>3. changes \in Nat /\ changes' = changes + 1 /\ changes' \in 0..MaxChanges /\ UNCHANGED root
  <2>1. changes < MaxChanges /\ changes' = changes + 1 /\ UNCHANGED root
    BY Zenon DEF EditFile
  <2>2. changes \in 0..MaxChanges /\ MaxChanges \in Nat
    BY IntakeAssumption DEF IntakeInv, TreeOK
  <2> QED BY <2>1, <2>2
<1>4. PICK x \in Node : x.tree = t /\ node' = [node EXCEPT ![t][name] = x]
  <2>1. [kind |-> kind, tree |-> t, rev |-> changes + 1, refers |-> refers] \in Node
    BY <1>3 DEF Node
  <2> QED BY <1>2, <2>1
<1>5. /\ node \in [Trees -> [Range(Names) -> Node]]
      /\ \A u \in Trees, n \in Range(Names) : node[u][n].tree = u
  BY DEF IntakeInv, TreeOK
<1>6. /\ node' \in [Trees -> [Range(Names) -> Node]]
      /\ \A u \in Trees : u # t => node'[u] = node[u]
      /\ \A n \in Range(Names) : node'[t][n] = IF n = name THEN x ELSE node[t][n]
  BY <1>4, <1>5
<1>7. TreeOK'
  <2>1. \A u \in Trees, n \in Range(Names) : node'[u][n].tree = u
    BY <1>4, <1>5, <1>6
  <2> QED BY <1>3, <1>6, <2>1 DEF TreeOK, IntakeInv
<1>8. PICK quiet \in BOOLEAN : quiet = (l.s.quiet /\ t # l.s.held)
  OBVIOUS
<1> DEFINE s == [l.s EXCEPT !.quiet = quiet]
           new == [l EXCEPT !.s = s]
<1>9. l.s \in Sessions
  BY DEF Loaders
<1>10. /\ s \in Sessions /\ s.held = l.s.held /\ s.path = l.s.path /\ s.got = l.s.got
       /\ s.list = l.s.list /\ s.quiet = quiet
  BY <1>9 DEF Sessions
<1>11. loader' = new
  BY <1>1, <1>2, <1>8
<1>12. new \in Loaders /\ new.pc = l.pc /\ new.bundle = l.bundle /\ new.items = l.items
       /\ new.todo = l.todo /\ new.s = s
  BY <1>10 DEF Loaders
<1> HIDE DEF s, new
<1>13. LoaderOK(l) /\ Untouched(l)
  BY <1>1 DEF IntakeInv
<1>14. LoaderOK(new)
  BY <1>10, <1>12, <1>13 DEF LoaderOK, InOrder, Listing
<1>15. Untouched(new)'
  <2>1. SUFFICES ASSUME l.pc = "read", quiet
                 PROVE  /\ DOMAIN l.s.got \cup l.s.list = Present(l.s.held)'
                        /\ \A n \in DOMAIN l.s.got : l.s.got[n] = node'[l.s.held][n]
    BY <1>10, <1>12 DEF Untouched, Present
  <2>2. l.s.held \in Trees /\ l.s.held # t /\ l.s.quiet
    BY <1>8, <1>13, <2>1 DEF LoaderOK
  <2>3. node'[l.s.held] = node[l.s.held]
    BY <1>6, <2>2
  <2>4. Present(l.s.held)' = Present(l.s.held)
    BY <2>3 DEF Present
  <2> QED BY <1>13, <2>1, <2>2, <2>3, <2>4 DEF Untouched
<1> QED
  BY <1>1, <1>7, <1>11, <1>12, <1>14, <1>15 DEF IntakeInv, Untouched

\* Every step keeps the invariant, and takes a payload exactly or not at all.
LEMMA IntakeStep ==
  ASSUME IntakeInv, [IntakeNext]_intakeVars
  PROVE  IntakeInv' /\ Exactly
<1>1. LoaderOK(loader) /\ TreeOK /\ Untouched(loader)
  BY DEF IntakeInv
<1>2. ASSUME UNCHANGED <<root, node, changes>> PROVE TreeOK'
  BY <1>1, <1>2 DEF TreeOK
<1>3. CASE Open
  <2>1. TreeOK'
    BY <1>2, <1>3 DEF Open
  <2>2. CASE Openable /\ loader' = [loader EXCEPT !.pc = "list", !.s.held = root[Target]]
    BY <1>1, <1>3, <2>1, <2>2, OpenOK, NothingTaken DEF Open, IntakeInv
  <2>3. CASE Target = "_shared" /\ NextSkill(Unset, loader.items, loader.todo)
    <3>1. PICK l \in Loaders : l = loader
      BY <1>1 DEF LoaderOK
    <3>2. l.items \in Seq(Payloads) /\ l.todo \in Seq(Range(Skills))
      BY DEF Loaders
    <3>3. l.items = <<>>
      BY <1>1, <1>3, <2>3, <3>1 DEF LoaderOK, InOrder, Target, Open
    <3>4. Settled(Unset, l.items)
      BY <3>3, UnsetType DEF Settled
    <3>5. LoaderOK(loader') /\ Untouched(loader)' /\ loader'.items = loader.items
      BY <1>1, <2>3, <3>1, <3>2, <3>4, UnsetType, NextSkillOK
    <3> QED BY <1>1, <2>1, <3>5, NothingTaken DEF IntakeInv
  <2>4. CASE RefuseTree
    BY <1>1, <2>1, <2>4, RefuseOK, NothingTaken DEF IntakeInv
  <2> QED BY <1>3, <2>2, <2>3, <2>4 DEF Open
<1>4. CASE List
  <2>1. TreeOK'
    BY <1>2, <1>4 DEF List
  <2> QED BY <1>1, <1>4, <2>1, ListOK, NothingTaken DEF IntakeInv
<1>5. CASE Read
  <2>1. TreeOK'
    BY <1>2, <1>5 DEF Read
  <2> QED BY <1>1, <1>5, <2>1, ReadOK, NothingTaken DEF IntakeInv
<1>6. CASE Merge
  <2>1. TreeOK'
    BY <1>2, <1>6 DEF Merge
  <2> QED BY <1>6, <2>1, MergeOK DEF IntakeInv
<1>7. CASE EditFile
  BY <1>1, <1>7, EditOK, NothingTaken
<1>8. CASE Replace
  <2>1. UNCHANGED <<node, loader>> /\ changes' \in 0..MaxChanges
    BY <1>1, <1>8, IntakeAssumption DEF Replace, TreeOK
  <2>2. root' \in [Paths -> Trees \cup {"none", "link"}]
    BY <1>1, <1>8 DEF Replace, TreeOK
  <2>3. TreeOK'
    BY <1>1, <2>1, <2>2 DEF TreeOK
  <2>4. LoaderOK(loader') /\ Untouched(loader)' /\ loader'.items = loader.items
    BY <1>1, <2>1 DEF Untouched, Present
  <2> QED BY <1>1, <2>3, <2>4, NothingTaken DEF IntakeInv
<1>9. CASE UNCHANGED intakeVars
  <2>1. UNCHANGED <<root, node, changes, loader>>
    BY <1>9 DEF intakeVars
  <2>2. LoaderOK(loader') /\ Untouched(loader)' /\ loader'.items = loader.items
    BY <1>1, <2>1 DEF Untouched, Present
  <2> QED BY <1>1, <1>2, <2>1, <2>2, NothingTaken DEF IntakeInv
<1> QED
  BY <1>3, <1>4, <1>5, <1>6, <1>7, <1>8, <1>9 DEF IntakeNext

\* The invariant gives what the run of the capture checks.
LEMMA IntakeIsSound ==
  ASSUME IntakeInv
  PROVE  CaptureSound
<1>1. PICK l \in Loaders : l = loader
  BY DEF IntakeInv, LoaderOK
<1>2. Settled(l.bundle, l.items)
  BY <1>1 DEF IntakeInv, LoaderOK
<1>3. ASSUME NEW i \in DOMAIN l.items PROVE Taken(l.items[i], l.bundle) /\ l.items[i] \in Payloads
  BY <1>2, <1>3 DEF Settled, Loaders
<1>4. IntakeTypeOK
  BY <1>1 DEF IntakeInv, LoaderOK, TreeOK, IntakeTypeOK, Loaders
<1>5. OneDirectory
  BY <1>1, <1>3 DEF OneDirectory, Taken
<1>6. OneBundle
  BY <1>1, <1>3 DEF OneBundle, Taken
<1>7. PayloadsAreWhole
  <2>1. ASSUME NEW i \in DOMAIN l.items, NEW n \in DOMAIN l.items[i].files
        PROVE  l.items[i].files[n].kind = "text"
    <3>1. l.items[i].files \in Texts
      BY <1>3 DEF Payloads
    <3>2. l.items[i].files[n] \in TextNode
      BY <2>1, <3>1, TextsAre
    <3> QED BY <3>2 DEF TextNode
  <2> QED BY <1>1, <1>3, <2>1 DEF PayloadsAreWhole, Taken
<1> QED
  BY <1>4, <1>5, <1>6, <1>7 DEF CaptureSound

\* Every payload that load_wave captures is one directory's files and one
\* bundle, the same for the whole wave, never review.json, within the limit of
\* files, and with the whole bundle where it refers to it (_read_posix_payload
\* and the merge in load_skill_source), whoever edits or replaces directories
\* meanwhile.
THEOREM CaptureCorrect == IntakeSpec => []CaptureSound
<1>1. IntakeInit => IntakeInv
  BY IntakeInitOK
<1>2. IntakeInv /\ [IntakeNext]_intakeVars => IntakeInv'
  BY IntakeStep
<1>3. IntakeInv => CaptureSound
  BY IntakeIsSound
<1> QED
  BY <1>1, <1>2, <1>3, PTL DEF IntakeSpec

\* The files captured of a directory that nobody touched while it was being
\* read (_read_posix_payload: open once, list, read every name through the open
\* directory) are all the files it had and nothing else.
THEOREM CaptureIsExact == IntakeSpec => QuietIsExact
<1>1. IntakeInit => IntakeInv
  BY IntakeInitOK
<1>2. IntakeInv /\ [IntakeNext]_intakeVars => IntakeInv'
  BY IntakeStep
<1>3. IntakeInv /\ [IntakeNext]_intakeVars =>
        [Len(loader.items') > Len(loader.items) /\ loader.s.quiet =>
           LET item == Last(loader'.items)
           IN [n \in item.own |-> item.files[n]] = Whole(loader.s.held)]_intakeVars
  BY IntakeStep DEF Exactly
<1> QED
  BY <1>1, <1>2, <1>3, PTL DEF IntakeSpec, QuietIsExact
=============================================================================
