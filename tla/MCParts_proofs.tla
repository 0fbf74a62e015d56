--------------------------- MODULE MCParts_proofs ---------------------------
(***************************************************************************)
(* The out-of-order core, for all programs and sizes of its buffers: that  *)
(* fetching is resumed by the branch that stopped it, that instructions    *)
(* execute after the writers of their sources, and that every load and     *)
(* store is finished once and loads get the last store before them.        *)
(*                                                                         *)
(* Each of the invariants says of the program order what the buffers do    *)
(* not hold: where every instruction is (Positions), which branch is       *)
(* awaited (Branches), which writers a reader waits for (Dependences), and *)
(* which operations and stores are still in the queues (Operations,        *)
(* StoreOrder, LoadOrder).                                                 *)
(*                                                                         *)
(* MemPod, for all sizes (PodInv, MeaInv): within an interval the iterator *)
(* sweeps fast memory once, so that the pairs of an interval have different*)
(* victims and different hot segments, and each exchange leaves the tables *)
(* inverse to each other; the counters and the accesses they no longer     *)
(* count divide the accesses among NUMBER_MEA_COUNTER + 1 shares. Folds    *)
(* over sequences and functions are unfolded first: a fold is some         *)
(* function of the subsets of its domain that satisfies its defining       *)
(* equation, and such a function exists.                                   *)
(***************************************************************************)
EXTENDS MCParts, FiniteSetTheorems, SequenceTheorems, WellFoundedInduction, TLAPS

\* Where instructions are in the pipeline.
Positions ==
    /\ program \in Programs
    /\ num_retired \in Nat /\ scheduled \in Nat /\ dispatched \in Nat
    /\ decoded \in Nat /\ promoted \in Nat /\ begun \in Nat
    /\ num_retired <= scheduled /\ scheduled <= dispatched /\ dispatched <= decoded
    /\ decoded <= promoted /\ promoted <= begun /\ begun <= Len(program)
    /\ executed \in [Cpu!Id -> {"no", "inflight", "completed"}]
    /\ \A i \in Cpu!Id : executed[i] # "no" => i <= scheduled
    /\ \A i \in 1 .. num_retired : executed[i] = "completed"

\* The core's names of what finite sets and sequences are.
LEMMA SameSets ==
    /\ \A S : Cpu!IsFiniteSet(S) <=> IsFiniteSet(S)
    /\ \A S : Cpu!Cardinality(S) = Cardinality(S)
BY DEF Cpu!IsFiniteSet, IsFiniteSet, Cpu!Cardinality, Cardinality

LEMMA SameRange == \A f : Cpu!Range(f) = {f[x_] : x_ \in DOMAIN f}
BY DEF Cpu!Range

LEMMA ProgramParts ==
    ASSUME program \in Programs
    PROVE  /\ IsFiniteSet(Registers)
           /\ Len(program) \in Nat
           /\ Cpu!Id = 1 .. Len(program)
           /\ \A i \in Cpu!Id : /\ program[i].branch \in BOOLEAN
                                /\ program[i].sources \in SUBSET Registers
                                /\ program[i].destinations \in SUBSET Registers
                                /\ program[i].loads \in Seq(Addresses)
                                /\ program[i].stores \in Seq(Addresses)
<1>1. program \in Seq(Cpu!Instruction)
  BY CoreAssumption DEF Cpu!CoreParameters
<1>2. ASSUME NEW i \in 1 .. Len(program)
      PROVE  program[i] \in Cpu!Instruction
  BY <1>1, ElementOfSeq
<1>3. IsFiniteSet(Registers)
  BY CoreAssumption, SameSets DEF Cpu!CoreParameters
<1>. QED BY <1>1, <1>2, <1>3, CoreAssumption, LenProperties DEF Cpu!CoreParameters, Cpu!Instruction, Cpu!Id

LEMMA PositionsStart == Cpu!Init => Positions
<1>. SUFFICES ASSUME Cpu!Init PROVE Positions
  OBVIOUS
<1>1. program \in Programs
  BY DEF Cpu!Init
<1>. QED BY <1>1, ProgramParts DEF Cpu!Init, Cpu!Empty, Positions

LEMMA PositionsKept == ASSUME Positions, Cpu!Next PROVE Positions'
<1>0. Len(program) \in Nat /\ Cpu!Id = 1 .. Len(program)
  BY ProgramParts DEF Positions
<1>. USE DEF Cpu!frontVars, Cpu!branchVars, Cpu!registerVars, Cpu!memoryVars
<1>1. CASE Cpu!InitializeInstruction
  BY <1>0, <1>1 DEF Positions, Cpu!InitializeInstruction, Cpu!Id
<1>2. CASE Cpu!CheckDib
  BY <1>0, <1>2 DEF Positions, Cpu!CheckDib, Cpu!Id
<1>3. CASE Cpu!FetchInstruction
  BY <1>0, <1>3 DEF Positions, Cpu!FetchInstruction, Cpu!Id
<1>4. CASE Cpu!FetchReturn
  BY <1>0, <1>4 DEF Positions, Cpu!FetchReturn, Cpu!Id
<1>5. CASE Cpu!PromoteToDecode
  BY <1>0, <1>5 DEF Positions, Cpu!PromoteToDecode, Cpu!Id
<1>6. CASE Cpu!DecodeInstruction
  BY <1>0, <1>6 DEF Positions, Cpu!DecodeInstruction, Cpu!Id
<1>7. CASE Cpu!DispatchInstruction
  BY <1>0, <1>7 DEF Positions, Cpu!DispatchInstruction, Cpu!Id
<1>8. CASE Cpu!ScheduleInstruction
  BY <1>0, <1>8 DEF Positions, Cpu!ScheduleInstruction, Cpu!Id
<1>9. CASE Cpu!ExecuteInstruction
  BY <1>0, <1>9 DEF Positions, Cpu!ExecuteInstruction, Cpu!Id
<1>10. CASE Cpu!CompleteInflightInstruction
  BY <1>0, <1>10 DEF Positions, Cpu!CompleteInflightInstruction, Cpu!Id, Cpu!ROB
<1>11. CASE Cpu!RetireRob
  BY <1>0, <1>11 DEF Positions, Cpu!RetireRob, Cpu!Id, Cpu!ROB
<1>12. CASE Cpu!FinishStore
  BY <1>0, <1>12 DEF Positions, Cpu!FinishStore, Cpu!Id
<1>13. CASE Cpu!CompleteStore
  BY <1>0, <1>13 DEF Positions, Cpu!CompleteStore, Cpu!Id
<1>14. CASE Cpu!ExecuteLoad
  BY <1>0, <1>14 DEF Positions, Cpu!ExecuteLoad, Cpu!Id
<1>15. CASE Cpu!LoadReturn
  BY <1>0, <1>15 DEF Positions, Cpu!LoadReturn, Cpu!Id
<1>. QED BY <1>1, <1>2, <1>3, <1>4, <1>5, <1>6, <1>7, <1>8, <1>9, <1>10, <1>11, <1>12, <1>13,
            <1>14, <1>15 DEF Cpu!Next
-----------------------------------------------------------------------------
(* Branches *)

\* While fetching is stopped, the branch that stopped it is the last one
\* begun, and it is the only one that will resume it.
Branches ==
    /\ branch_mispredicted \in [Cpu!Id -> {"no", "decode", "execute"}]
    /\ fetchStopped \in BOOLEAN
    /\ fetchStopped => begun > 0
    /\ \A i \in Cpu!Id : branch_mispredicted[i] # "no" => i <= begun
    /\ \A i \in Cpu!Id : branch_mispredicted[i] = "decode" => i > decoded
    /\ \A i \in Cpu!Id : (branch_mispredicted[i] # "no" /\ executed[i] # "completed")
                            <=> (fetchStopped /\ i = begun)

LEMMA BranchesStart == Cpu!Init => Branches
<1>. SUFFICES ASSUME Cpu!Init PROVE Branches
  OBVIOUS
<1>. QED BY ProgramParts DEF Cpu!Init, Cpu!Empty, Branches

LEMMA BranchesKept == ASSUME Positions, Branches, Cpu!Next PROVE Branches'
<1>0. Len(program) \in Nat /\ Cpu!Id = 1 .. Len(program)
  BY ProgramParts DEF Positions
<1>. USE DEF Cpu!frontVars, Cpu!branchVars, Cpu!registerVars, Cpu!memoryVars
<1>1. CASE Cpu!InitializeInstruction
  <2>1. PICK where \in {"no", "decode", "execute"} :
           /\ branch_mispredicted' = [branch_mispredicted EXCEPT ![begun + 1] = where]
           /\ fetchStopped' = (where # "no")
    BY <1>1 DEF Cpu!InitializeInstruction
  <2>2. /\ ~fetchStopped /\ begun < Len(program) /\ begun' = begun + 1
        /\ UNCHANGED <<program, executed, decoded>>
    BY <1>1 DEF Cpu!InitializeInstruction
  <2>3. begun + 1 \in Cpu!Id /\ executed[begun + 1] = "no" /\ begun + 1 > decoded
    BY <1>0, <2>2 DEF Positions
  <2>4. \A i \in Cpu!Id : branch_mispredicted'[i] = IF i = begun + 1 THEN where
                                                   ELSE branch_mispredicted[i]
    BY <2>1 DEF Branches
  <2>5. branch_mispredicted' \in [Cpu!Id -> {"no", "decode", "execute"}]
    BY <2>1 DEF Branches
  <2>6. fetchStopped' \in BOOLEAN /\ begun' > 0
    BY <2>1, <2>2 DEF Positions
  <2>7. \A i \in Cpu!Id : branch_mispredicted'[i] # "no" => i <= begun'
    BY <1>0, <2>2, <2>4 DEF Branches, Positions
  <2>8. \A i \in Cpu!Id : branch_mispredicted'[i] = "decode" => i > decoded
    BY <1>0, <2>2, <2>3, <2>4 DEF Branches, Positions
  <2>9. ASSUME NEW i \in Cpu!Id
        PROVE  (branch_mispredicted'[i] # "no" /\ executed[i] # "completed")
                  <=> (fetchStopped' /\ i = begun')
    <3>1. CASE i = begun + 1
      BY <2>1, <2>2, <2>3, <2>4, <3>1
    <3>2. CASE i # begun + 1
      BY <2>2, <2>4, <3>2 DEF Branches
    <3>. QED BY <3>1, <3>2
  <2>. QED BY <2>2, <2>5, <2>6, <2>7, <2>8, <2>9 DEF Branches, Cpu!Id
<1>2. CASE Cpu!CheckDib
  BY <1>0, <1>2 DEF Branches, Cpu!CheckDib, Cpu!Id
<1>3. CASE Cpu!FetchInstruction
  BY <1>0, <1>3 DEF Branches, Cpu!FetchInstruction, Cpu!Id
<1>4. CASE Cpu!FetchReturn
  BY <1>0, <1>4 DEF Branches, Cpu!FetchReturn, Cpu!Id
<1>5. CASE Cpu!PromoteToDecode
  BY <1>0, <1>5 DEF Branches, Cpu!PromoteToDecode, Cpu!Id
<1>6. CASE Cpu!DecodeInstruction
  <2>1. /\ decoded' = decoded + 1 /\ decoded + 1 \in Cpu!Id
        /\ branch_mispredicted' = Cpu!AfterDecode(decoded + 1)
        /\ fetchStopped' = (fetchStopped /\ branch_mispredicted[decoded + 1] # "decode")
        /\ UNCHANGED <<program, executed, begun>>
    BY <1>0, <1>6 DEF Cpu!DecodeInstruction, Positions
  <2>2. \A i \in Cpu!Id : branch_mispredicted'[i] =
           IF i = decoded + 1 /\ branch_mispredicted[i] = "decode" THEN "no"
           ELSE branch_mispredicted[i]
    BY <2>1 DEF Branches, Cpu!AfterDecode
  <2>3. executed[decoded + 1] = "no"
    BY <2>1 DEF Positions
  <2>4. branch_mispredicted' \in [Cpu!Id -> {"no", "decode", "execute"}]
    BY <2>1 DEF Branches, Cpu!AfterDecode
  <2>5. \A i \in Cpu!Id : branch_mispredicted'[i] = "decode" => i > decoded + 1
    BY <1>0, <2>1, <2>2 DEF Branches, Positions
  <2>6. fetchStopped' \in BOOLEAN /\ (fetchStopped' => fetchStopped)
    BY <2>1 DEF Branches
  <2>7. ASSUME NEW i \in Cpu!Id
        PROVE  (branch_mispredicted'[i] # "no" /\ executed[i] # "completed")
                  <=> (fetchStopped' /\ i = begun)
    <3>1. CASE branch_mispredicted[decoded + 1] = "decode"
      <4>1. begun = decoded + 1 /\ ~fetchStopped'
        BY <2>1, <2>3, <3>1 DEF Branches
      <4>. QED BY <2>2, <3>1, <4>1 DEF Branches
    <3>2. CASE branch_mispredicted[decoded + 1] # "decode"
      BY <2>1, <2>2, <3>2 DEF Branches
    <3>. QED BY <3>1, <3>2
  <2>. QED BY <2>1, <2>2, <2>4, <2>5, <2>6, <2>7 DEF Branches, Cpu!Id
<1>7. CASE Cpu!DispatchInstruction
  BY <1>0, <1>7 DEF Branches, Cpu!DispatchInstruction, Cpu!Id
<1>8. CASE Cpu!ScheduleInstruction
  BY <1>0, <1>8 DEF Branches, Cpu!ScheduleInstruction, Cpu!Id
<1>9. CASE Cpu!ExecuteInstruction
  BY <1>0, <1>9 DEF Branches, Cpu!ExecuteInstruction, Cpu!Id, Positions
<1>10. CASE Cpu!CompleteInflightInstruction
  <2>1. PICK i \in Cpu!ROB :
           /\ executed[i] = "inflight"
           /\ executed' = [executed EXCEPT ![i] = "completed"]
           /\ fetchStopped' = (fetchStopped /\ ~Cpu!Resumes(i))
           /\ UNCHANGED <<program, branch_mispredicted, begun, decoded>>
    BY <1>10 DEF Cpu!CompleteInflightInstruction
  <2>2. i \in Cpu!Id
    BY <1>0 DEF Cpu!ROB, Positions
  <2>3. \A j \in Cpu!Id : executed'[j] = IF j = i THEN "completed" ELSE executed[j]
    BY <2>1 DEF Positions
  <2>4. Cpu!Resumes(i) => fetchStopped /\ i = begun
    BY <2>1, <2>2 DEF Cpu!Resumes, Branches
  <2>5. ~Cpu!Resumes(i) => ~(fetchStopped /\ i = begun)
    BY <2>1, <2>2 DEF Cpu!Resumes, Branches
  <2>6. ASSUME NEW j \in Cpu!Id
        PROVE  (branch_mispredicted[j] # "no" /\ executed'[j] # "completed")
                  <=> (fetchStopped' /\ j = begun)
    BY <2>1, <2>3, <2>4, <2>5 DEF Branches
  <2>7. fetchStopped' \in BOOLEAN /\ (fetchStopped' => fetchStopped)
    BY <2>1 DEF Branches
  <2>. QED BY <2>1, <2>6, <2>7 DEF Branches, Cpu!Id
<1>11. CASE Cpu!RetireRob
  BY <1>0, <1>11 DEF Branches, Cpu!RetireRob, Cpu!Id
<1>12. CASE Cpu!FinishStore
  BY <1>0, <1>12 DEF Branches, Cpu!FinishStore, Cpu!Id
<1>13. CASE Cpu!CompleteStore
  BY <1>0, <1>13 DEF Branches, Cpu!CompleteStore, Cpu!Id
<1>14. CASE Cpu!ExecuteLoad
  BY <1>0, <1>14 DEF Branches, Cpu!ExecuteLoad, Cpu!Id
<1>15. CASE Cpu!LoadReturn
  BY <1>0, <1>15 DEF Branches, Cpu!LoadReturn, Cpu!Id
<1>. QED BY <1>1, <1>2, <1>3, <1>4, <1>5, <1>6, <1>7, <1>8, <1>9, <1>10, <1>11, <1>12, <1>13,
            <1>14, <1>15 DEF Cpu!Next

LEMMA AwaitedBranch ==
    ASSUME Positions, Branches
    PROVE  Cpu!FetchResumes
<1>. DEFINE awaited == {i \in 1 .. begun : branch_mispredicted[i] # "no" /\ executed[i] # "completed"}
<1>1. 1 .. begun \subseteq Cpu!Id
  BY ProgramParts DEF Positions
<1>2. CASE fetchStopped
  <2>1. begun \in 1 .. begun
    BY <1>2 DEF Branches, Positions
  <2>2. awaited = {begun}
    BY <1>1, <1>2, <2>1 DEF Branches
  <2>. QED BY <1>2, <2>2, FS_Singleton, SameSets DEF Cpu!FetchResumes
<1>3. CASE ~fetchStopped
  <2>1. awaited = {}
    BY <1>1, <1>3 DEF Branches
  <2>. QED BY <1>3, <2>1, FS_EmptySet, SameSets DEF Cpu!FetchResumes
<1>. QED BY <1>2, <1>3
-----------------------------------------------------------------------------
(* Registers *)

LEMMA RemoveAtElements ==
    ASSUME NEW S, NEW s \in Seq(S), NEW i \in 1 .. Len(s)
    PROVE  /\ Cpu!RemoveAt(s, i) \in Seq(S)
           /\ Len(Cpu!RemoveAt(s, i)) = Len(s) - 1
           /\ \A j \in 1 .. Len(s) - 1 :
                 Cpu!RemoveAt(s, i)[j] = IF j < i THEN s[j] ELSE s[j + 1]
<1>. DEFINE a == SubSeq(s, 1, i - 1)
            b == SubSeq(s, i + 1, Len(s))
<1>0. Len(s) \in Nat /\ i \in Nat /\ \A j \in 1 .. Len(s) : s[j] \in S
  BY ElementOfSeq, LenProperties
<1>1. /\ a \in Seq(S)
      /\ Len(a) = i - 1
      /\ \A j \in 1 .. i - 1 : a[j] = s[j]
  BY <1>0, SubSeqProperties
<1>2. /\ b \in Seq(S)
      /\ Len(b) = Len(s) - i
      /\ \A j \in 1 .. Len(s) - i : b[j] = s[i + j]
  BY <1>0, SubSeqProperties
<1>. HIDE DEF a, b
<1>3. /\ a \o b \in Seq(S)
      /\ Len(a \o b) = Len(a) + Len(b)
      /\ \A j \in 1 .. Len(a) + Len(b) :
            (a \o b)[j] = IF j <= Len(a) THEN a[j] ELSE b[j - Len(a)]
  BY <1>1, <1>2, ConcatProperties
<1>4. Len(a) + Len(b) = Len(s) - 1
  BY <1>0, <1>1, <1>2
<1>5. ASSUME NEW j \in 1 .. Len(s) - 1
      PROVE  (a \o b)[j] = IF j < i THEN s[j] ELSE s[j + 1]
  <2>1. (a \o b)[j] = IF j <= i - 1 THEN a[j] ELSE b[j - (i - 1)]
    BY <1>1, <1>3, <1>4
  <2>2. CASE j < i
    BY <1>0, <1>1, <2>1, <2>2
  <2>3. CASE ~(j < i)
    <3>1. /\ j - (i - 1) \in 1 .. Len(s) - i /\ i + (j - (i - 1)) = j + 1
          /\ ~(j <= i - 1)
      BY <1>0, <2>3
    <3>2. b[j - (i - 1)] = s[j + 1]
      BY <1>2, <3>1
    <3>. QED BY <2>1, <2>3, <3>1, <3>2
  <2>. QED BY <2>2, <2>3
<1>6. Cpu!RemoveAt(s, i) = a \o b
  BY DEF Cpu!RemoveAt, a, b
<1>. QED BY <1>3, <1>4, <1>5, <1>6

Increasing(s) == \A m, n \in 1 .. Len(s) : m < n => s[m] < s[n]

Holds(s, j) == \E n \in 1 .. Len(s) : s[n] = j

\* What do_complete_execution() leaves of a list of writers.
LEMMA WithoutElements ==
    ASSUME NEW S \in SUBSET Nat, NEW s \in Seq(S), Increasing(s), NEW i, Holds(s, i)
    PROVE  /\ Cpu!Without(s, i) \in Seq(S)
           /\ Increasing(Cpu!Without(s, i))
           /\ \A j : Holds(Cpu!Without(s, i), j) <=> Holds(s, j) /\ j # i
<1>. DEFINE n == CHOOSE n \in DOMAIN s : s[n] = i
            t == Cpu!Without(s, i)
<1>0. Len(s) \in Nat /\ \A j \in 1 .. Len(s) : s[j] \in Nat
  BY ElementOfSeq, LenProperties
<1>1. n \in 1 .. Len(s) /\ s[n] = i
  BY DEF Holds
<1>2. t = Cpu!RemoveAt(s, n)
  BY DEF Cpu!Without
<1>. HIDE DEF n, t
<1>3. /\ t \in Seq(S) /\ Len(t) = Len(s) - 1
      /\ \A j \in 1 .. Len(s) - 1 : t[j] = IF j < n THEN s[j] ELSE s[j + 1]
  BY <1>1, <1>2, RemoveAtElements
<1>4. Increasing(t)
  <2>. SUFFICES ASSUME NEW k \in 1 .. Len(t), NEW m \in 1 .. Len(t), k < m PROVE t[k] < t[m]
    BY DEF Increasing
  <2>1. \A j, l \in 1 .. Len(s) : j < l => s[j] < s[l]
    BY DEF Increasing
  <2>. DEFINE k2 == IF k < n THEN k ELSE k + 1
              m2 == IF m < n THEN m ELSE m + 1
  <2>2. k2 \in 1 .. Len(s) /\ m2 \in 1 .. Len(s) /\ k2 < m2
    BY <1>0, <1>1, <1>3
  <2>3. t[k] = s[k2] /\ t[m] = s[m2]
    BY <1>3
  <2>. HIDE DEF k2, m2
  <2>. QED BY <2>1, <2>2, <2>3
<1>5. ASSUME NEW j, Holds(t, j) PROVE Holds(s, j) /\ j # i
  <2>1. PICK m \in 1 .. Len(s) - 1 : t[m] = j
    BY <1>3, <1>5 DEF Holds
  <2>2. \A l \in 1 .. Len(s) : l # n => s[l] # i
    BY <1>0, <1>1 DEF Increasing
  <2>3. CASE m < n
    BY <1>0, <1>3, <2>1, <2>2, <2>3 DEF Holds
  <2>4. CASE ~(m < n)
    <3>1. m + 1 \in 1 .. Len(s) /\ m + 1 # n
      BY <1>0, <1>1, <2>4
    <3>. QED BY <1>3, <2>1, <2>2, <2>4, <3>1 DEF Holds
  <2>. QED BY <2>3, <2>4
<1>6. ASSUME NEW j, Holds(s, j), j # i PROVE Holds(t, j)
  <2>1. PICK m \in 1 .. Len(s) : s[m] = j
    BY <1>6 DEF Holds
  <2>2. CASE m < n
    BY <1>0, <1>1, <1>3, <2>1, <2>2 DEF Holds
  <2>3. CASE m > n
    <3>1. m - 1 \in 1 .. Len(s) - 1 /\ ~(m - 1 < n) /\ (m - 1) + 1 = m
      BY <1>0, <1>1, <2>3
    <3>. QED BY <1>3, <2>1, <3>1 DEF Holds
  <2>. QED BY <1>0, <1>1, <1>6, <2>1, <2>2, <2>3
<1>. QED BY <1>3, <1>4, <1>5, <1>6 DEF t

\* What do_scheduling() makes of it: instruction i comes after all others.
LEMMA AppendElements ==
    ASSUME NEW S \in SUBSET Nat, NEW s \in Seq(S), Increasing(s), NEW i \in S,
           \A n \in 1 .. Len(s) : s[n] < i
    PROVE  /\ Append(s, i) \in Seq(S)
           /\ Increasing(Append(s, i))
           /\ \A j : Holds(Append(s, i), j) <=> Holds(s, j) \/ j = i
<1>. DEFINE t == Append(s, i)
<1>0. Len(s) \in Nat /\ \A j \in 1 .. Len(s) : s[j] \in Nat
  BY ElementOfSeq, LenProperties
<1>1. /\ t \in Seq(S) /\ Len(t) = Len(s) + 1
      /\ \A n \in 1 .. Len(s) : t[n] = s[n]
      /\ t[Len(s) + 1] = i
  BY AppendProperties
<1>. HIDE DEF t
<1>2. Increasing(t)
  BY <1>0, <1>1 DEF Increasing
<1>3. ASSUME NEW j PROVE Holds(t, j) <=> Holds(s, j) \/ j = i
  BY <1>0, <1>1 DEF Holds
<1>. QED BY <1>1, <1>2, <1>3 DEF t

\* The writers that instruction i still waits for.
Awaited(i) == {j \in Cpu!Id : i \in registers_instrs_depend_on_me[j] /\ executed[j] # "completed"}

\* Instruction j is the last before i that writes register r.
WritesLast(j, i, r) ==
    /\ j < i /\ r \in program[j].destinations
    /\ \A k \in j + 1 .. i - 1 : r \notin program[k].destinations

\* The lists of a register's writers are in the order of the program and hold
\* those that are not completed; an instruction that is scheduled waits for
\* the last writer of each source, and counts what it waits for.
Dependences ==
    /\ reg_producers \in [Registers -> Seq(Cpu!Id)]
    /\ \A r \in Registers : Increasing(reg_producers[r])
    /\ \A r \in Registers, j \in Cpu!Id :
          Holds(reg_producers[r], j)
             <=> (j <= scheduled /\ r \in program[j].destinations /\ executed[j] # "completed")
    /\ registers_instrs_depend_on_me \in [Cpu!Id -> SUBSET Cpu!Id]
    /\ \A i, j \in Cpu!Id : i \in registers_instrs_depend_on_me[j] => j < i /\ i <= scheduled
    /\ num_reg_dependent \in [Cpu!Id -> Nat]
    /\ \A i \in Cpu!Id : num_reg_dependent[i] = Cardinality(Awaited(i))
    /\ \A i \in Cpu!Id : executed[i] # "no" => Awaited(i) = {}
    /\ \A i \in 1 .. scheduled : \A r \in program[i].sources : \A j \in Cpu!Id :
          WritesLast(j, i, r) =>
             executed[j] = "completed" \/ i \in registers_instrs_depend_on_me[j]

LEMMA DependencesStart == Cpu!Init => Dependences
<1>. SUFFICES ASSUME Cpu!Init PROVE Dependences
  OBVIOUS
<1>0. program \in Programs
  BY DEF Cpu!Init
<1>1. /\ reg_producers = [r \in Registers |-> <<>>]
      /\ registers_instrs_depend_on_me = [i \in Cpu!Id |-> {}]
      /\ num_reg_dependent = [i \in Cpu!Id |-> 0]
      /\ executed = [i \in Cpu!Id |-> "no"]
      /\ scheduled = 0
  BY DEF Cpu!Init, Cpu!Empty
<1>2. \A i \in Cpu!Id : Awaited(i) = {} /\ i > 0
  BY <1>0, <1>1, ProgramParts DEF Awaited
<1>3. \A r \in Registers : Increasing(reg_producers[r])
  BY <1>1, EmptySeq DEF Increasing
<1>4. \A r \in Registers, j \in Cpu!Id : ~Holds(reg_producers[r], j)
  BY <1>1, EmptySeq DEF Holds
<1>5. \A i \in Cpu!Id : num_reg_dependent[i] = Cardinality(Awaited(i))
  BY <1>1, <1>2, FS_EmptySet
<1>6. reg_producers \in [Registers -> Seq(Cpu!Id)]
  BY <1>1, EmptySeq
<1>7. \A i \in Cpu!Id : ~(i <= scheduled)
  BY <1>0, <1>1, ProgramParts
<1>. QED BY <1>1, <1>2, <1>3, <1>4, <1>5, <1>6, <1>7, <1>0, ProgramParts DEF Dependences

\* Nothing changes but where instructions are.
LEMMA DependencesUntouched ==
    ASSUME Dependences,
           UNCHANGED <<program, executed, Cpu!registerVars>>
    PROVE  Dependences'
<1>1. Cpu!Id' = Cpu!Id
  BY DEF Cpu!Id
<1>2. ASSUME NEW i PROVE Awaited(i)' = Awaited(i)
  BY <1>1 DEF Awaited, Cpu!registerVars
<1>3. ASSUME NEW j, NEW i, NEW r PROVE WritesLast(j, i, r)' <=> WritesLast(j, i, r)
  BY DEF WritesLast
<1>. QED BY <1>1, <1>2, <1>3 DEF Dependences, Cpu!registerVars, Holds, Increasing

LEMMA AwaitedFinite ==
    ASSUME Positions, NEW i
    PROVE  IsFiniteSet(Awaited(i))
<1>1. IsFiniteSet(Cpu!Id)
  BY ProgramParts, FS_Interval DEF Positions
<1>2. Awaited(i) \in SUBSET Cpu!Id
  BY DEF Awaited
<1>. QED BY <1>1, <1>2, FS_Subset

LEMMA ExecuteKeepsDependences ==
    ASSUME Positions, Dependences, Cpu!ExecuteInstruction
    PROVE  Dependences'
<1>0. Len(program) \in Nat /\ Cpu!Id = 1 .. Len(program) /\ Cpu!Id' = Cpu!Id
  BY ProgramParts DEF Positions, Cpu!ExecuteInstruction, Cpu!Id
<1>1. PICK i \in num_retired + 1 .. scheduled :
         /\ executed[i] = "no" /\ num_reg_dependent[i] = 0
         /\ executed' = [executed EXCEPT ![i] = "inflight"]
         /\ UNCHANGED <<program, Cpu!registerVars>>
  BY DEF Cpu!ExecuteInstruction
<1>2. i \in Cpu!Id
  BY <1>0 DEF Positions
<1>3. \A j \in Cpu!Id : executed'[j] = IF j = i THEN "inflight" ELSE executed[j]
  BY <1>1 DEF Positions
<1>4. \A j \in Cpu!Id : executed'[j] = "completed" <=> executed[j] = "completed"
  BY <1>1, <1>3
<1>5. ASSUME NEW j \in Cpu!Id PROVE Awaited(j)' = Awaited(j)
  BY <1>0, <1>1, <1>4 DEF Awaited, Cpu!registerVars
<1>6. Awaited(i) = {}
  BY <1>1, <1>2, AwaitedFinite, FS_EmptySet DEF Dependences
<1>7. \A j \in Cpu!Id : executed'[j] # "no" => Awaited(j)' = {}
  BY <1>3, <1>5, <1>6 DEF Dependences
<1>8. \A j \in Cpu!Id : num_reg_dependent'[j] = Cardinality(Awaited(j)')
  BY <1>1, <1>5 DEF Dependences, Cpu!registerVars
<1>9. \A r \in Registers, j \in Cpu!Id :
         Holds(reg_producers'[r], j)
            <=> (j <= scheduled' /\ r \in program'[j].destinations /\ executed'[j] # "completed")
  BY <1>1, <1>4 DEF Dependences, Cpu!registerVars
<1>10. \A k \in 1 .. scheduled' : \A r \in program'[k].sources : \A j \in Cpu!Id :
          WritesLast(j, k, r)' =>
             executed'[j] = "completed" \/ k \in registers_instrs_depend_on_me'[j]
  BY <1>1, <1>4 DEF Dependences, Cpu!registerVars, WritesLast
<1>. QED BY <1>0, <1>1, <1>7, <1>8, <1>9, <1>10 DEF Dependences, Cpu!registerVars, Holds, Increasing

\* The writers that instruction i waits for when it is scheduled.
LEMMA ProducersAre ==
    ASSUME Positions, Dependences, NEW i \in Cpu!Id, i = scheduled + 1
    PROVE  /\ Cpu!Producers(i) \subseteq {j \in Cpu!Id : j < i /\ executed[j] # "completed"}
           /\ \A r \in program[i].sources, j \in Cpu!Id :
                 WritesLast(j, i, r) => executed[j] = "completed" \/ j \in Cpu!Producers(i)
<1>0. /\ Len(program) \in Nat /\ Cpu!Id = 1 .. Len(program) /\ scheduled \in Nat
      /\ program[i].sources \in SUBSET Registers
  BY ProgramParts DEF Positions
<1>1. ASSUME NEW r \in Registers, reg_producers[r] # <<>>
      PROVE  /\ Len(reg_producers[r]) \in 1 .. Len(reg_producers[r])
             /\ LET j == reg_producers[r][Len(reg_producers[r])]
                IN  /\ j \in Cpu!Id /\ j <= scheduled /\ executed[j] # "completed"
                    /\ r \in program[j].destinations
  <2>1. reg_producers[r] \in Seq(Cpu!Id)
    BY DEF Dependences
  <2>2. Len(reg_producers[r]) \in 1 .. Len(reg_producers[r])
    BY <1>1, <2>1, EmptySeq, LenProperties
  <2>3. reg_producers[r][Len(reg_producers[r])] \in Cpu!Id
    BY <2>1, <2>2, ElementOfSeq
  <2>4. Holds(reg_producers[r], reg_producers[r][Len(reg_producers[r])])
    BY <2>2 DEF Holds
  <2>. QED BY <2>2, <2>3, <2>4 DEF Dependences
<1>2. ASSUME NEW j \in Cpu!Producers(i)
      PROVE  j \in Cpu!Id /\ j < i /\ executed[j] # "completed"
  <2>1. PICK r \in Registers : reg_producers[r] # <<>> /\ j = reg_producers[r][Len(reg_producers[r])]
    BY <1>0 DEF Cpu!Producers
  <2>. QED BY <1>0, <1>1, <2>1
<1>3. ASSUME NEW r \in program[i].sources, NEW j \in Cpu!Id, WritesLast(j, i, r),
             executed[j] # "completed"
      PROVE  j \in Cpu!Producers(i)
  <2>0. r \in Registers /\ j <= scheduled /\ r \in program[j].destinations
    BY <1>0, <1>3 DEF WritesLast
  <2>1. PICK n \in 1 .. Len(reg_producers[r]) : reg_producers[r][n] = j
    BY <1>3, <2>0 DEF Dependences, Holds
  <2>2. reg_producers[r] \in Seq(Cpu!Id) /\ Len(reg_producers[r]) \in Nat
    BY <2>0, LenProperties DEF Dependences
  <2>3. reg_producers[r] # <<>>
    BY <2>1, <2>2, EmptySeq
  <2>. DEFINE l == reg_producers[r][Len(reg_producers[r])]
  <2>4. l \in Cpu!Id /\ l <= scheduled /\ r \in program[l].destinations
    BY <1>1, <2>0, <2>3
  <2>5. Increasing(reg_producers[r]) /\ Len(reg_producers[r]) \in 1 .. Len(reg_producers[r])
    BY <1>1, <2>0, <2>3 DEF Dependences
  <2>6. n = Len(reg_producers[r]) \/ j < l
    BY <2>1, <2>2, <2>5 DEF Increasing
  <2>7. ~(j < l)
    BY <1>0, <1>3, <2>4, SMTT(30) DEF WritesLast
  <2>8. l = j
    BY <2>1, <2>6, <2>7
  <2>. QED BY <2>0, <2>3, <2>8 DEF Cpu!Producers
<1>. QED BY <1>2, <1>3

LEMMA ScheduleKeepsDependences ==
    ASSUME Positions, Dependences, Cpu!ScheduleInstruction
    PROVE  Dependences'
<1>a. Len(program) \in Nat /\ Cpu!Id = 1 .. Len(program) /\ scheduled + 1 \in Cpu!Id
  BY ProgramParts DEF Positions, Cpu!ScheduleInstruction, Cpu!Id
<1>b. PICK i \in Cpu!Id : i = scheduled + 1
  BY <1>a
<1>0. /\ Len(program) \in Nat /\ Cpu!Id = 1 .. Len(program) /\ Cpu!Id' = Cpu!Id
      /\ scheduled \in Nat /\ i \in Cpu!Id /\ scheduled' = i
      /\ program[i].sources \in SUBSET Registers
      /\ UNCHANGED <<program, executed>>
  BY <1>a, <1>b, ProgramParts DEF Positions, Cpu!ScheduleInstruction, Cpu!Id
<1>1. /\ num_reg_dependent' = [num_reg_dependent EXCEPT ![i] = @ + Cardinality(Cpu!Producers(i))]
      /\ registers_instrs_depend_on_me' =
            [j \in Cpu!Id |-> registers_instrs_depend_on_me[j]
                                 \cup (IF j \in Cpu!Producers(i) THEN {i} ELSE {})]
      /\ reg_producers' = [r \in Registers |->
            IF r \in program[i].destinations THEN Append(reg_producers[r], i)
            ELSE reg_producers[r]]
  BY <1>b, SameSets DEF Cpu!ScheduleInstruction
<1>2. /\ Cpu!Producers(i) \subseteq {j \in Cpu!Id : j < i /\ executed[j] # "completed"}
      /\ \A r \in program[i].sources, j \in Cpu!Id :
            WritesLast(j, i, r) => executed[j] = "completed" \/ j \in Cpu!Producers(i)
  BY <1>b, ProducersAre
<1>3. \A k, j \in Cpu!Id : k \in registers_instrs_depend_on_me'[j]
                              <=> \/ k \in registers_instrs_depend_on_me[j]
                                  \/ k = i /\ j \in Cpu!Producers(i)
  BY <1>1
<1>4. registers_instrs_depend_on_me' \in [Cpu!Id -> SUBSET Cpu!Id]
  BY <1>0, <1>1 DEF Dependences
<1>5. ASSUME NEW k \in Cpu!Id, NEW j \in Cpu!Id, k \in registers_instrs_depend_on_me'[j]
      PROVE  j < k /\ k <= i
  <2>1. CASE k \in registers_instrs_depend_on_me[j]
    BY <1>0, <1>b, <2>1 DEF Dependences
  <2>2. CASE k = i /\ j \in Cpu!Producers(i)
    BY <1>0, <1>2, <2>2
  <2>. QED BY <1>3, <1>5, <2>1, <2>2
<1>6. \A j \in Cpu!Id : i \notin registers_instrs_depend_on_me[j]
  BY <1>0, <1>b DEF Dependences
<1>7. Awaited(i) = {} /\ Awaited(i)' = Cpu!Producers(i)
  BY <1>0, <1>2, <1>3, <1>6 DEF Awaited
<1>8. ASSUME NEW k \in Cpu!Id, k # i PROVE Awaited(k)' = Awaited(k)
  BY <1>0, <1>3, <1>8 DEF Awaited
<1>9. IsFiniteSet(Cpu!Producers(i))
  <2>1. IsFiniteSet(Cpu!Id)
    BY <1>0, FS_Interval
  <2>2. Cpu!Producers(i) \in SUBSET Cpu!Id
    BY <1>2
  <2>. QED BY <2>1, <2>2, FS_Subset
<1>10. \A k \in Cpu!Id : num_reg_dependent'[k] = Cardinality(Awaited(k)')
  <2>1. num_reg_dependent[i] = 0
    BY <1>0, <1>7, FS_EmptySet DEF Dependences
  <2>2. Cardinality(Cpu!Producers(i)) \in Nat
    BY <1>9, FS_CardinalityType
  <2>3. num_reg_dependent'[i] = Cardinality(Awaited(i)')
    BY <1>0, <1>1, <1>7, <2>1, <2>2 DEF Dependences
  <2>4. ASSUME NEW k \in Cpu!Id, k # i PROVE num_reg_dependent'[k] = Cardinality(Awaited(k)')
    BY <1>1, <1>8, <2>4 DEF Dependences
  <2>. QED BY <2>3, <2>4
<1>11. num_reg_dependent' \in [Cpu!Id -> Nat]
  <2>1. Cardinality(Cpu!Producers(i)) \in Nat
    BY <1>9, FS_CardinalityType
  <2>2. num_reg_dependent \in [Cpu!Id -> Nat]
    BY DEF Dependences
  <2>3. num_reg_dependent[i] + Cardinality(Cpu!Producers(i)) \in Nat
    BY <2>1, <2>2
  <2>. QED BY <1>1, <2>2, <2>3
<1>12. ASSUME NEW r \in Registers
       PROVE  /\ reg_producers'[r] \in Seq(Cpu!Id)
              /\ Increasing(reg_producers'[r])
              /\ \A j \in Cpu!Id : Holds(reg_producers'[r], j)
                    <=> (j <= i /\ r \in program[j].destinations /\ executed[j] # "completed")
  <2>0. /\ reg_producers[r] \in Seq(Cpu!Id) /\ Increasing(reg_producers[r])
        /\ \A j \in Cpu!Id : Holds(reg_producers[r], j)
              <=> (j <= scheduled /\ r \in program[j].destinations /\ executed[j] # "completed")
        /\ executed[i] = "no"
    BY <1>0, <1>b DEF Dependences, Positions
  <2>1. CASE r \in program[i].destinations
    <3>1. reg_producers'[r] = Append(reg_producers[r], i)
      BY <1>1, <2>1
    <3>2. ASSUME NEW n \in 1 .. Len(reg_producers[r]) PROVE reg_producers[r][n] < i
      <4>1. reg_producers[r][n] \in Cpu!Id
        BY <2>0, ElementOfSeq
      <4>2. Holds(reg_producers[r], reg_producers[r][n])
        BY DEF Holds
      <4>. QED BY <1>0, <1>b, <2>0, <4>1, <4>2
    <3>3. Cpu!Id \in SUBSET Nat
      BY <1>0
    <3>4. /\ Append(reg_producers[r], i) \in Seq(Cpu!Id)
          /\ Increasing(Append(reg_producers[r], i))
          /\ \A j : Holds(Append(reg_producers[r], i), j) <=> Holds(reg_producers[r], j) \/ j = i
      BY <1>0, <2>0, <3>2, <3>3, AppendElements
    <3>5. \A j \in Cpu!Id : j <= i <=> j <= scheduled \/ j = i
      BY <1>0, <1>b
    <3>. QED BY <2>0, <2>1, <3>1, <3>4, <3>5
  <2>2. CASE r \notin program[i].destinations
    <3>1. reg_producers'[r] = reg_producers[r]
      BY <1>1, <2>2
    <3>2. \A j \in Cpu!Id : j <= i <=> j <= scheduled \/ j = i
      BY <1>0, <1>b
    <3>. QED BY <2>0, <2>2, <3>1, <3>2
  <2>. QED BY <2>1, <2>2
<1>13. reg_producers' \in [Registers -> Seq(Cpu!Id)]
  BY <1>1, <1>12
<1>14. \A k \in Cpu!Id : executed[k] # "no" => Awaited(k)' = {}
  <2>1. executed[i] = "no"
    BY <1>0, <1>b DEF Positions
  <2>. QED BY <1>8, <2>1 DEF Dependences
<1>15. ASSUME NEW k \in 1 .. i, NEW r \in program[k].sources, NEW j \in Cpu!Id,
              WritesLast(j, k, r)
       PROVE  executed[j] = "completed" \/ k \in registers_instrs_depend_on_me'[j]
  <2>0. k \in Cpu!Id
    BY <1>0
  <2>1. CASE k = i
    BY <1>2, <1>3, <1>15, <2>0, <2>1
  <2>2. CASE k # i
    <3>1. k \in 1 .. scheduled
      BY <1>0, <1>b, <2>2
    <3>2. executed[j] = "completed" \/ k \in registers_instrs_depend_on_me[j]
      BY <1>15, <3>1 DEF Dependences
    <3>. QED BY <1>3, <2>0, <3>2
  <2>. QED BY <2>1, <2>2
<1>16. ASSUME NEW j, NEW k, NEW r PROVE WritesLast(j, k, r)' <=> WritesLast(j, k, r)
  BY <1>0 DEF WritesLast
<1>. QED BY <1>0, <1>4, <1>5, <1>10, <1>11, <1>12, <1>13, <1>14, <1>15, <1>16 DEF Dependences

LEMMA CompleteKeepsDependences ==
    ASSUME Positions, Dependences, Cpu!CompleteInflightInstruction
    PROVE  Dependences'
<1>0. /\ Len(program) \in Nat /\ Cpu!Id = 1 .. Len(program) /\ Cpu!Id' = Cpu!Id
      /\ \A j \in Cpu!Id : program[j].destinations \in SUBSET Registers
  BY ProgramParts DEF Positions, Cpu!CompleteInflightInstruction, Cpu!Id
<1>1. PICK i \in Cpu!ROB :
         /\ executed[i] = "inflight"
         /\ executed' = [executed EXCEPT ![i] = "completed"]
         /\ reg_producers' = [r \in Registers |->
               IF r \in program[i].destinations THEN Cpu!Without(reg_producers[r], i)
               ELSE reg_producers[r]]
         /\ num_reg_dependent' = [j \in Cpu!Id |->
               IF j \in registers_instrs_depend_on_me[i] THEN num_reg_dependent[j] - 1
               ELSE num_reg_dependent[j]]
         /\ UNCHANGED <<program, scheduled, registers_instrs_depend_on_me>>
  BY DEF Cpu!CompleteInflightInstruction
<1>2. i \in Cpu!Id /\ i <= scheduled
  BY <1>0, <1>1 DEF Cpu!ROB, Positions
<1>3. \A j \in Cpu!Id : executed'[j] = IF j = i THEN "completed" ELSE executed[j]
  BY <1>1 DEF Positions
<1>4. \A j \in Cpu!Id : executed'[j] # "completed" <=> executed[j] # "completed" /\ j # i
  BY <1>3
<1>5. ASSUME NEW j \in Cpu!Id PROVE Awaited(j)' = Awaited(j) \ {i}
  BY <1>0, <1>1, <1>4 DEF Awaited
<1>6. \A j \in Cpu!Id : i \in Awaited(j) <=> j \in registers_instrs_depend_on_me[i]
  BY <1>1, <1>2 DEF Awaited
<1>7. ASSUME NEW j \in Cpu!Id
      PROVE  num_reg_dependent'[j] \in Nat /\ num_reg_dependent'[j] = Cardinality(Awaited(j)')
  <2>1. IsFiniteSet(Awaited(j))
    BY AwaitedFinite
  <2>2. /\ IsFiniteSet(Awaited(j) \ {i})
        /\ Cardinality(Awaited(j) \ {i}) = IF i \in Awaited(j) THEN Cardinality(Awaited(j)) - 1
                                           ELSE Cardinality(Awaited(j))
    BY <2>1, FS_RemoveElement
  <2>3. Cardinality(Awaited(j) \ {i}) \in Nat
    BY <2>2, FS_CardinalityType
  <2>4. num_reg_dependent[j] = Cardinality(Awaited(j))
    BY DEF Dependences
  <2>. QED BY <1>1, <1>5, <1>6, <2>2, <2>3, <2>4
<1>8. ASSUME NEW r \in Registers
      PROVE  /\ reg_producers'[r] \in Seq(Cpu!Id)
             /\ Increasing(reg_producers'[r])
             /\ \A j \in Cpu!Id : Holds(reg_producers'[r], j)
                   <=> (j <= scheduled /\ r \in program[j].destinations /\ executed'[j] # "completed")
  <2>0. /\ reg_producers[r] \in Seq(Cpu!Id) /\ Increasing(reg_producers[r])
        /\ \A j \in Cpu!Id : Holds(reg_producers[r], j)
              <=> (j <= scheduled /\ r \in program[j].destinations /\ executed[j] # "completed")
    BY DEF Dependences
  <2>1. CASE r \in program[i].destinations
    <3>1. reg_producers'[r] = Cpu!Without(reg_producers[r], i)
      BY <1>1, <2>1
    <3>2. Cpu!Id \in SUBSET Nat
      BY <1>0
    <3>3. Holds(reg_producers[r], i)
      BY <1>1, <1>2, <2>0, <2>1
    <3>4. /\ Cpu!Without(reg_producers[r], i) \in Seq(Cpu!Id)
          /\ Increasing(Cpu!Without(reg_producers[r], i))
          /\ \A j : Holds(Cpu!Without(reg_producers[r], i), j) <=> Holds(reg_producers[r], j) /\ j # i
      BY <2>0, <3>2, <3>3, WithoutElements
    <3>. QED BY <1>4, <2>0, <3>1, <3>4
  <2>2. CASE r \notin program[i].destinations
    <3>1. reg_producers'[r] = reg_producers[r]
      BY <1>1, <2>2
    <3>. QED BY <1>4, <2>0, <2>2, <3>1
  <2>. QED BY <2>1, <2>2
<1>9. reg_producers' \in [Registers -> Seq(Cpu!Id)]
  BY <1>1, <1>8
<1>10. num_reg_dependent' \in [Cpu!Id -> Nat]
  BY <1>1, <1>7
<1>11. Awaited(i) = {}
  BY <1>1, <1>2 DEF Dependences
<1>12. ASSUME NEW j \in Cpu!Id, executed'[j] # "no" PROVE Awaited(j)' = {}
  BY <1>3, <1>5, <1>11, <1>12 DEF Dependences
<1>13. ASSUME NEW j, NEW k, NEW r PROVE WritesLast(j, k, r)' <=> WritesLast(j, k, r)
  BY <1>1 DEF WritesLast
<1>14. \A k \in 1 .. scheduled : \A r \in program[k].sources : \A j \in Cpu!Id :
          WritesLast(j, k, r) =>
             executed'[j] = "completed" \/ k \in registers_instrs_depend_on_me[j]
  BY <1>3 DEF Dependences
<1>15. /\ registers_instrs_depend_on_me \in [Cpu!Id -> SUBSET Cpu!Id]
       /\ \A k, j \in Cpu!Id : k \in registers_instrs_depend_on_me[j] => j < k /\ k <= scheduled
  BY DEF Dependences
<1>. QED BY <1>0, <1>1, <1>7, <1>8, <1>9, <1>10, <1>12, <1>13, <1>14, <1>15 DEF Dependences

LEMMA DependencesKept == ASSUME Positions, Dependences, Cpu!Next PROVE Dependences'
<1>1. CASE Cpu!ScheduleInstruction
  BY <1>1, ScheduleKeepsDependences
<1>2. CASE Cpu!ExecuteInstruction
  BY <1>2, ExecuteKeepsDependences
<1>3. CASE Cpu!CompleteInflightInstruction
  BY <1>3, CompleteKeepsDependences
<1>4. CASE \/ Cpu!InitializeInstruction \/ Cpu!CheckDib \/ Cpu!FetchInstruction \/ Cpu!FetchReturn
           \/ Cpu!PromoteToDecode \/ Cpu!DecodeInstruction \/ Cpu!DispatchInstruction
           \/ Cpu!RetireRob
           \/ Cpu!FinishStore \/ Cpu!CompleteStore \/ Cpu!ExecuteLoad \/ Cpu!LoadReturn
  <2>1. UNCHANGED <<program, executed, Cpu!registerVars>>
    BY <1>4 DEF Cpu!InitializeInstruction, Cpu!CheckDib, Cpu!FetchInstruction, Cpu!FetchReturn,
                Cpu!PromoteToDecode, Cpu!DecodeInstruction, Cpu!DispatchInstruction, Cpu!RetireRob,
                Cpu!FinishStore, Cpu!CompleteStore, Cpu!ExecuteLoad, Cpu!LoadReturn
  <2>. QED BY <2>1, DependencesUntouched
<1>. QED BY <1>1, <1>2, <1>3, <1>4 DEF Cpu!Next

\* The first of some numbers is found, and the last.
LEMMA LeastFound ==
    ASSUME NEW S \in SUBSET Nat, S # {}
    PROVE  LET first == CHOOSE m \in S : \A k \in S : m <= k
           IN  first \in S /\ \A k \in S : first <= k
<1>. DEFINE R == OpToRel(<, Nat)
<1>1. IsWellFoundedOn(R, Nat)
  BY NatLessThanWellFounded
<1>2. PICK m \in S : \A k \in S : ~(<<k, m>> \in R)
  BY <1>1, WFMin
<1>3. \A k, l \in Nat : k < l => <<k, l>> \in R
  BY DEF OpToRel
<1>. HIDE DEF R
<1>4. m \in Nat /\ \A k \in S : k \in Nat
  OBVIOUS
<1>5. \A k \in S : ~(k < m)
  BY <1>2, <1>3, <1>4
<1>6. \A k \in S : m <= k
  BY <1>4, <1>5
<1>. QED BY <1>6

LEMMA GreatestFound ==
    ASSUME NEW n \in Nat, NEW S \in SUBSET (0 .. n), S # {}
    PROVE  LET last == CHOOSE j \in S : \A k \in S : k <= j
           IN  last \in S /\ \A k \in S : k <= last
<1>. DEFINE T == {n - k : k \in S}
            m == CHOOSE m \in T : \A k \in T : m <= k
<1>1. T \in SUBSET Nat /\ T # {}
  <2>1. \A k \in S : n - k \in Nat
    OBVIOUS
  <2>. QED BY <2>1
<1>2. m \in T /\ \A k \in T : m <= k
  <2>. HIDE DEF T
  <2>. QED BY <1>1, LeastFound
<1>. HIDE DEF m
<1>3. PICK j \in S : m = n - j
  BY <1>2
<1>4. \A k \in S : n - k \in T
  OBVIOUS
<1>. HIDE DEF T
<1>5. \A k \in S : k <= j
  BY <1>2, <1>3, <1>4
<1>. QED BY <1>5

LEMMA SourcesReady ==
    ASSUME Positions, Dependences
    PROVE  Cpu!OperandsReady
<1>. SUFFICES ASSUME NEW i \in Cpu!Id, executed[i] # "no", NEW r \in program[i].sources,
                     Cpu!LastWriter(i, r) # 0
              PROVE  executed[Cpu!LastWriter(i, r)] = "completed"
  BY DEF Cpu!OperandsReady
<1>0. Len(program) \in Nat /\ Cpu!Id = 1 .. Len(program) /\ i \in 1 .. scheduled
  BY ProgramParts DEF Positions
<1>. DEFINE writers == {j \in 1 .. i - 1 : r \in program[j].destinations}
            w == CHOOSE j \in writers : \A k \in writers : k <= j
<1>1. writers # {} /\ Cpu!LastWriter(i, r) = w
  BY DEF Cpu!LastWriter
<1>2. writers \in SUBSET (0 .. Len(program))
  BY <1>0
<1>3. w \in writers /\ \A k \in writers : k <= w
  BY <1>0, <1>1, <1>2, GreatestFound
<1>4. w \in Cpu!Id /\ WritesLast(w, i, r)
  <2>1. w \in 1 .. i - 1 /\ r \in program[w].destinations
    BY <1>3
  <2>2. \A k \in w + 1 .. i - 1 : r \notin program[k].destinations
    <3>. SUFFICES ASSUME NEW k \in w + 1 .. i - 1, r \in program[k].destinations PROVE FALSE
      OBVIOUS
    <3>. HIDE DEF w
    <3>1. k \in writers /\ ~(k <= w)
      BY <1>0, <2>1
    <3>. QED BY <1>3, <3>1
  <2>. HIDE DEF w
  <2>. QED BY <1>0, <2>1, <2>2 DEF WritesLast
<1>5. executed[w] = "completed" \/ i \in registers_instrs_depend_on_me[w]
  BY <1>0, <1>4 DEF Dependences
<1>6. Awaited(i) = {}
  BY DEF Dependences
<1>. HIDE DEF w
<1>. QED BY <1>1, <1>4, <1>5, <1>6 DEF Awaited
-----------------------------------------------------------------------------
(* Memory operations *)

\* The operations of instruction i that are still in a queue.
LoadsOf(i) == {e \in LQ : e.id = i}
OpenOf(i)  == {n \in DOMAIN SQ : SQ[n].id = i /\ ~SQ[n].finished}

\* What is not counted is in a queue, and nothing is queued twice.
Operations ==
    /\ LQ \subseteq [id : 1 .. dispatched, op : Nat, addr : Addresses, issued : BOOLEAN,
                     producer : Nat]
    /\ IsFiniteSet(LQ)
    /\ SQ \in Seq([id : 1 .. dispatched, addr : Addresses, finished : BOOLEAN])
    /\ completed_mem_ops \in [Cpu!Id -> Nat]
    /\ \A e, f \in LQ : e.id = f.id /\ e.op = f.op => e = f
    /\ \A i \in Cpu!Id : i > dispatched => completed_mem_ops[i] = 0
    /\ \A i \in 1 .. dispatched :
          completed_mem_ops[i] + Cardinality(LoadsOf(i)) + Cardinality(OpenOf(i))
             = Cpu!num_mem_ops(i)
    /\ \A i \in Cpu!Id : executed[i] = "completed" => completed_mem_ops[i] = Cpu!num_mem_ops(i)

LEMMA ServedCount ==
    ASSUME NEW L, IsFiniteSet(L), NEW served \in SUBSET L, NEW j
    PROVE  /\ Cardinality({e \in L \ served : e.id = j}) \in Nat
           /\ Cardinality({e \in served : e.id = j}) \in Nat
           /\ Cardinality({e \in L \ served : e.id = j}) + Cardinality({e \in served : e.id = j})
                 = Cardinality({e \in L : e.id = j})
<1>. DEFINE all == {e \in L : e.id = j}
            gone == {e \in served : e.id = j}
<1>1. IsFiniteSet(all)
  <2>1. all \in SUBSET L
    OBVIOUS
  <2>. QED BY <2>1, FS_Subset
<1>2. gone \in SUBSET all
  OBVIOUS
<1>3. all \ gone = {e \in L \ served : e.id = j}
  OBVIOUS
<1>a. all \cap gone = gone
  OBVIOUS
<1>. HIDE DEF all, gone
<1>4. IsFiniteSet(gone) /\ IsFiniteSet(all \ gone)
  BY <1>1, <1>2, FS_Subset
<1>5. Cardinality(all \ gone) = Cardinality(all) - Cardinality(gone)
  BY <1>1, <1>a, FS_Difference
<1>6. Cardinality(gone) \in Nat /\ Cardinality(all) \in Nat /\ Cardinality(all \ gone) \in Nat
  BY <1>1, <1>4, FS_CardinalityType
<1>7. Cardinality(all \ gone) + Cardinality(gone) = Cardinality(all)
  BY <1>5, <1>6
<1>. QED BY <1>3, <1>6, <1>7 DEF all, gone

LEMMA QueuesFinite ==
    ASSUME Operations, NEW i
    PROVE  /\ IsFiniteSet(LoadsOf(i)) /\ IsFiniteSet(OpenOf(i))
           /\ Cardinality(LoadsOf(i)) \in Nat /\ Cardinality(OpenOf(i)) \in Nat
           /\ DOMAIN SQ = 1 .. Len(SQ) /\ Len(SQ) \in Nat
<1>0. DOMAIN SQ = 1 .. Len(SQ) /\ Len(SQ) \in Nat
  BY LenProperties DEF Operations
<1>1. LoadsOf(i) \in SUBSET LQ /\ OpenOf(i) \in SUBSET (1 .. Len(SQ))
  BY <1>0 DEF LoadsOf, OpenOf
<1>2. IsFiniteSet(LQ) /\ IsFiniteSet(1 .. Len(SQ))
  BY <1>0, FS_Interval DEF Operations
<1>3. IsFiniteSet(LoadsOf(i)) /\ IsFiniteSet(OpenOf(i))
  BY <1>1, <1>2, FS_Subset
<1>. QED BY <1>0, <1>3, FS_CardinalityType

LEMMA OperationsStart == Cpu!Init => Operations
<1>. SUFFICES ASSUME Cpu!Init PROVE Operations
  OBVIOUS
<1>0. program \in Programs
  BY DEF Cpu!Init
<1>1. /\ LQ = {} /\ SQ = <<>> /\ dispatched = 0
      /\ completed_mem_ops = [i \in Cpu!Id |-> 0]
      /\ executed = [i \in Cpu!Id |-> "no"]
  BY DEF Cpu!Init, Cpu!Empty
<1>2. IsFiniteSet(LQ)
  BY <1>1, FS_EmptySet
<1>3. SQ \in Seq([id : 1 .. dispatched, addr : Addresses, finished : BOOLEAN])
  BY <1>1, EmptySeq
<1>. QED BY <1>0, <1>1, <1>2, <1>3, ProgramParts DEF Operations

\* A completed instruction has no operation in a queue.
LEMMA CompletedEmpty ==
    ASSUME Positions, Operations, NEW i \in Cpu!Id, executed[i] = "completed"
    PROVE  LoadsOf(i) = {} /\ OpenOf(i) = {}
<1>1. i \in 1 .. dispatched
  BY ProgramParts DEF Positions
<1>2. completed_mem_ops[i] + Cardinality(LoadsOf(i)) + Cardinality(OpenOf(i)) = Cpu!num_mem_ops(i)
  BY <1>1 DEF Operations
<1>3. completed_mem_ops[i] = Cpu!num_mem_ops(i) /\ completed_mem_ops[i] \in Nat
  BY DEF Operations
<1>4. Cardinality(LoadsOf(i)) = 0 /\ Cardinality(OpenOf(i)) = 0
  BY <1>2, <1>3, QueuesFinite
<1>. QED BY <1>4, QueuesFinite, FS_EmptySet

\* An operation that is finished is counted.
LEMMA CountedKeepsOperations ==
    ASSUME Positions, Operations,
           UNCHANGED <<program, dispatched, executed>>,
           LQ' \subseteq [id : 1 .. dispatched, op : Nat, addr : Addresses, issued : BOOLEAN,
                          producer : Nat],
           IsFiniteSet(LQ'),
           SQ' \in Seq([id : 1 .. dispatched, addr : Addresses, finished : BOOLEAN]),
           \A e, f \in LQ' : e.id = f.id /\ e.op = f.op => e = f,
           completed_mem_ops' \in [Cpu!Id -> Nat],
           \A i \in Cpu!Id : completed_mem_ops'[i] >= completed_mem_ops[i],
           \A i \in Cpu!Id : i > dispatched => completed_mem_ops'[i] = 0,
           \A i \in 1 .. dispatched :
              /\ Cardinality(LoadsOf(i)') \in Nat /\ Cardinality(OpenOf(i)') \in Nat
              /\ completed_mem_ops'[i] + Cardinality(LoadsOf(i)') + Cardinality(OpenOf(i)')
                    = completed_mem_ops[i] + Cardinality(LoadsOf(i)) + Cardinality(OpenOf(i))
    PROVE  Operations'
<1>1. \A i \in Cpu!Id : Cpu!num_mem_ops(i)' = Cpu!num_mem_ops(i)
  BY DEF Cpu!num_mem_ops
<1>2. Cpu!Id' = Cpu!Id /\ Cpu!Id = 1 .. Len(program) /\ dispatched <= Len(program)
      /\ dispatched \in Nat /\ Len(program) \in Nat
  BY ProgramParts DEF Cpu!Id, Positions
<1>3. \A i \in 1 .. dispatched :
         completed_mem_ops'[i] + Cardinality(LoadsOf(i)') + Cardinality(OpenOf(i)')
            = Cpu!num_mem_ops(i)
  BY DEF Operations
<1>4. ASSUME NEW i \in Cpu!Id, executed[i] = "completed"
      PROVE  completed_mem_ops'[i] = Cpu!num_mem_ops(i)
  <2>1. i \in 1 .. dispatched
    BY <1>2, <1>4 DEF Positions
  <2>2. completed_mem_ops[i] = Cpu!num_mem_ops(i) /\ completed_mem_ops[i] \in Nat
    BY <1>4 DEF Operations
  <2>3. completed_mem_ops'[i] >= completed_mem_ops[i] /\ completed_mem_ops'[i] \in Nat
    OBVIOUS
  <2>. QED BY <1>3, <2>1, <2>2, <2>3
<1>. QED BY <1>1, <1>2, <1>3, <1>4 DEF Operations

LEMMA FinishStoreKeepsOperations ==
    ASSUME Positions, Operations, Cpu!FinishStore
    PROVE  Operations'
<1>0. /\ Cpu!Id = 1 .. Len(program) /\ Len(program) \in Nat
      /\ dispatched \in Nat /\ dispatched <= Len(program)
  BY ProgramParts DEF Positions
<1>. DEFINE open == {n \in 1 .. Len(SQ) : ~SQ[n].finished}
            first == CHOOSE n \in open : \A m \in open : n <= m
            released == {e \in LQ : e.producer = SQ[first].id /\ e.addr = SQ[first].addr}
<1>1. /\ open # {}
      /\ SQ' = [SQ EXCEPT ![first].finished = TRUE]
      /\ LQ' = LQ \ released
      /\ completed_mem_ops' = Cpu!Finished(released, SQ[first].id)
      /\ UNCHANGED <<program, dispatched, executed>>
  BY DEF Cpu!FinishStore, Cpu!Kept
<1>2. first \in open
  <2>1. open \in SUBSET Nat
    OBVIOUS
  <2>. HIDE DEF open
  <2>. QED BY <1>1, <2>1, LeastFound
<1>3. released \in SUBSET LQ
  OBVIOUS
<1>4. PICK n \in 1 .. Len(SQ) : n = first /\ ~SQ[n].finished
  BY <1>2
<1>5. PICK served \in SUBSET LQ : served = released
  BY <1>3
<1>6. /\ SQ' = [SQ EXCEPT ![n].finished = TRUE]
      /\ LQ' = LQ \ served
      /\ completed_mem_ops' = Cpu!Finished(served, SQ[n].id)
  BY <1>1, <1>4, <1>5
<1>. HIDE DEF open, first, released
<1>7. /\ SQ \in Seq([id : 1 .. dispatched, addr : Addresses, finished : BOOLEAN])
      /\ DOMAIN SQ = 1 .. Len(SQ) /\ Len(SQ) \in Nat
      /\ \A m \in 1 .. Len(SQ) : SQ[m] \in [id : 1 .. dispatched, addr : Addresses, finished : BOOLEAN]
  BY QueuesFinite, ElementOfSeq DEF Operations
<1>8. [SQ[n] EXCEPT !.finished = TRUE] \in [id : 1 .. dispatched, addr : Addresses, finished : BOOLEAN]
  BY <1>7
<1>9. SQ' = [SQ EXCEPT ![n] = [SQ[n] EXCEPT !.finished = TRUE]]
  BY <1>6
<1>10. /\ SQ' \in Seq([id : 1 .. dispatched, addr : Addresses, finished : BOOLEAN])
       /\ DOMAIN SQ' = DOMAIN SQ
  BY <1>7, <1>8, <1>9, ExceptSeq
<1>11. \A m \in DOMAIN SQ : /\ SQ'[m].id = SQ[m].id
                            /\ SQ'[m].finished = (SQ[m].finished \/ m = n)
  BY <1>4, <1>7, <1>9
<1>12. n \in OpenOf(SQ[n].id)
  BY <1>4, <1>7 DEF OpenOf
<1>13. ASSUME NEW i \in 1 .. dispatched
       PROVE  OpenOf(i)' = IF i = SQ[n].id THEN OpenOf(i) \ {n} ELSE OpenOf(i)
  <2>1. OpenOf(i)' = {m \in DOMAIN SQ : SQ'[m].id = i /\ ~SQ'[m].finished}
    BY <1>10 DEF OpenOf
  <2>2. OpenOf(i)' = {m \in DOMAIN SQ : SQ[m].id = i /\ ~SQ[m].finished /\ m # n}
    BY <1>11, <2>1
  <2>. QED BY <1>7, <2>2 DEF OpenOf
<1>14. ASSUME NEW i \in Cpu!Id
       PROVE  completed_mem_ops'[i] = completed_mem_ops[i] + Cardinality({e \in served : e.id = i})
                                         + (IF i = SQ[n].id THEN 1 ELSE 0)
  BY <1>6, SameSets DEF Cpu!Finished
<1>15. \A i : /\ Cardinality({e \in LQ \ served : e.id = i}) \in Nat
              /\ Cardinality({e \in served : e.id = i}) \in Nat
              /\ Cardinality({e \in LQ \ served : e.id = i}) + Cardinality({e \in served : e.id = i})
                    = Cardinality({e \in LQ : e.id = i})
  BY ServedCount, ZenonT(60) DEF Operations
<1>16. ASSUME NEW i \in Cpu!Id
       PROVE  completed_mem_ops'[i] \in Nat /\ completed_mem_ops'[i] >= completed_mem_ops[i]
  <2>1. completed_mem_ops[i] \in Nat /\ Cardinality({e \in served : e.id = i}) \in Nat
    BY <1>15 DEF Operations
  <2>. QED BY <1>14, <2>1
<1>17. completed_mem_ops' \in [Cpu!Id -> Nat]
  BY <1>6, <1>16 DEF Cpu!Finished
<1>18. ASSUME NEW i \in 1 .. dispatched
       PROVE  /\ Cardinality(LoadsOf(i)') \in Nat /\ Cardinality(OpenOf(i)') \in Nat
              /\ completed_mem_ops'[i] + Cardinality(LoadsOf(i)') + Cardinality(OpenOf(i)')
                    = completed_mem_ops[i] + Cardinality(LoadsOf(i)) + Cardinality(OpenOf(i))
  <2>0. i \in Cpu!Id
    BY <1>0
  <2>2. LoadsOf(i)' = {e \in LQ \ served : e.id = i} /\ LoadsOf(i) = {e \in LQ : e.id = i}
    BY <1>6 DEF LoadsOf
  <2>. DEFINE freed == Cardinality({e \in served : e.id = i})
              one == IF i = SQ[n].id THEN 1 ELSE 0
              opened == Cardinality(OpenOf(i))
              left == Cardinality(OpenOf(i)')
              queued == Cardinality(LoadsOf(i))
              waiting == Cardinality(LoadsOf(i)')
              before == completed_mem_ops[i]
              after == completed_mem_ops'[i]
  <2>3. freed \in Nat /\ waiting \in Nat /\ queued \in Nat /\ waiting + freed = queued
    BY <1>15, <2>2, QueuesFinite
  <2>4. before \in Nat /\ after = before + freed + one
    BY <1>14, <2>0 DEF Operations
  <2>5. /\ IsFiniteSet(OpenOf(i)) /\ Cardinality(OpenOf(i)) \in Nat
        /\ IsFiniteSet(OpenOf(i) \ {n})
        /\ Cardinality(OpenOf(i) \ {n}) = IF n \in OpenOf(i) THEN Cardinality(OpenOf(i)) - 1
                                          ELSE Cardinality(OpenOf(i))
    BY QueuesFinite, FS_RemoveElement
  <2>6. Cardinality(OpenOf(i) \ {n}) \in Nat
    BY <2>5, FS_CardinalityType
  <2>7. left \in Nat /\ one \in Nat /\ opened \in Nat /\ left + one = opened
    <3>1. CASE i = SQ[n].id
      <4>1. OpenOf(i)' = OpenOf(i) \ {n} /\ n \in OpenOf(i) /\ one = 1
        BY <1>12, <1>13, <3>1
      <4>2. left = opened - 1
        BY <2>5, <4>1
      <4>3. left \in Nat /\ opened \in Nat
        BY <2>5, <2>6, <4>1
      <4>. HIDE DEF left, one, opened
      <4>. QED BY <4>1, <4>2, <4>3
    <3>2. CASE i # SQ[n].id
      <4>1. left = opened /\ one = 0 /\ opened \in Nat
        BY <1>13, <2>5, <3>2
      <4>. HIDE DEF left, one, opened
      <4>. QED BY <4>1
    <3>. QED BY <3>1, <3>2
  <2>8. after + waiting + left = before + queued + opened
    <3>. HIDE DEF freed, one, opened, left, queued, waiting, before, after
    <3>. QED BY <2>3, <2>4, <2>7
  <2>. QED BY <2>3, <2>7, <2>8
<1>19. /\ LQ' \subseteq [id : 1 .. dispatched, op : Nat, addr : Addresses, issued : BOOLEAN,
                         producer : Nat]
       /\ \A e, f \in LQ' : e.id = f.id /\ e.op = f.op => e = f
  BY <1>6 DEF Operations
<1>20. IsFiniteSet(LQ')
  BY <1>6, FS_Subset DEF Operations
<1>21. ASSUME NEW i \in Cpu!Id, i > dispatched PROVE completed_mem_ops'[i] = 0
  <2>1. completed_mem_ops[i] = 0 /\ i # SQ[n].id
    BY <1>0, <1>7, <1>21 DEF Operations
  <2>2. {e \in served : e.id = i} = {}
    BY <1>0, <1>21 DEF Operations
  <2>. QED BY <1>14, <2>1, <2>2, FS_EmptySet
<1>. QED BY <1>1, <1>10, <1>16, <1>17, <1>18, <1>19, <1>20, <1>21, CountedKeepsOperations

LEMMA LoadReturnKeepsOperations ==
    ASSUME Positions, Operations, Cpu!LoadReturn
    PROVE  Operations'
<1>0. /\ Cpu!Id = 1 .. Len(program) /\ Len(program) \in Nat
      /\ dispatched \in Nat /\ dispatched <= Len(program)
  BY ProgramParts DEF Positions
<1>1. PICK b \in Cpu!Block :
         /\ LQ' = LQ \ {e \in LQ : e.issued /\ e.addr[1] = b}
         /\ completed_mem_ops' = Cpu!Finished({e \in LQ : e.issued /\ e.addr[1] = b}, 0)
         /\ UNCHANGED <<program, dispatched, executed, SQ>>
  BY DEF Cpu!LoadReturn, Cpu!branchVars, Cpu!frontVars, Cpu!registerVars
<1>2. PICK served \in SUBSET LQ : served = {e \in LQ : e.issued /\ e.addr[1] = b}
  OBVIOUS
<1>3. \A i : /\ Cardinality({e \in LQ \ served : e.id = i}) \in Nat
             /\ Cardinality({e \in served : e.id = i}) \in Nat
             /\ Cardinality({e \in LQ \ served : e.id = i}) + Cardinality({e \in served : e.id = i})
                   = Cardinality({e \in LQ : e.id = i})
  BY ServedCount, ZenonT(60) DEF Operations
<1>4. ASSUME NEW i \in Cpu!Id
      PROVE  completed_mem_ops'[i] = completed_mem_ops[i] + Cardinality({e \in served : e.id = i})
  <2>1. completed_mem_ops'[i] = completed_mem_ops[i] + Cardinality({e \in served : e.id = i}) + 0
    BY <1>0, <1>1, <1>2, SameSets DEF Cpu!Finished
  <2>2. completed_mem_ops[i] \in Nat /\ Cardinality({e \in served : e.id = i}) \in Nat
    BY <1>3 DEF Operations
  <2>. QED BY <2>1, <2>2
<1>5. ASSUME NEW i \in Cpu!Id
      PROVE  completed_mem_ops'[i] \in Nat /\ completed_mem_ops'[i] >= completed_mem_ops[i]
  <2>1. completed_mem_ops[i] \in Nat /\ Cardinality({e \in served : e.id = i}) \in Nat
    BY <1>3 DEF Operations
  <2>. QED BY <1>4, <2>1
<1>6. completed_mem_ops' \in [Cpu!Id -> Nat]
  BY <1>1, <1>5 DEF Cpu!Finished
<1>7. ASSUME NEW i \in 1 .. dispatched
      PROVE  /\ Cardinality(LoadsOf(i)') \in Nat /\ Cardinality(OpenOf(i)') \in Nat
             /\ completed_mem_ops'[i] + Cardinality(LoadsOf(i)') + Cardinality(OpenOf(i)')
                   = completed_mem_ops[i] + Cardinality(LoadsOf(i)) + Cardinality(OpenOf(i))
  <2>1. i \in Cpu!Id
    BY <1>0
  <2>2. LoadsOf(i)' = {e \in LQ \ served : e.id = i} /\ LoadsOf(i) = {e \in LQ : e.id = i}
    BY <1>1, <1>2 DEF LoadsOf
  <2>3. OpenOf(i)' = OpenOf(i)
    BY <1>1 DEF OpenOf
  <2>. DEFINE freed == Cardinality({e \in served : e.id = i})
              queued == Cardinality(LoadsOf(i))
              waiting == Cardinality(LoadsOf(i)')
              opened == Cardinality(OpenOf(i))
              before == completed_mem_ops[i]
              after == completed_mem_ops'[i]
  <2>4. freed \in Nat /\ waiting \in Nat /\ queued \in Nat /\ waiting + freed = queued
        /\ opened \in Nat
    BY <1>3, <2>2, QueuesFinite
  <2>5. before \in Nat /\ after = before + freed
    BY <1>4, <2>1 DEF Operations
  <2>6. after + waiting + opened = before + queued + opened
    <3>. HIDE DEF freed, queued, waiting, opened, before, after
    <3>. QED BY <2>4, <2>5
  <2>. QED BY <2>3, <2>4, <2>6
<1>8. /\ LQ' \subseteq [id : 1 .. dispatched, op : Nat, addr : Addresses, issued : BOOLEAN,
                        producer : Nat]
      /\ \A e, f \in LQ' : e.id = f.id /\ e.op = f.op => e = f
  BY <1>1 DEF Operations
<1>9. IsFiniteSet(LQ') /\ SQ' \in Seq([id : 1 .. dispatched, addr : Addresses, finished : BOOLEAN])
  BY <1>1, FS_Subset DEF Operations
<1>10. ASSUME NEW i \in Cpu!Id, i > dispatched PROVE completed_mem_ops'[i] = 0
  <2>1. completed_mem_ops[i] = 0
    BY <1>10 DEF Operations
  <2>2. {e \in served : e.id = i} = {}
    BY <1>0, <1>10 DEF Operations
  <2>. QED BY <1>4, <2>1, <2>2, FS_EmptySet
<1>. QED BY <1>1, <1>5, <1>6, <1>7, <1>8, <1>9, <1>10, CountedKeepsOperations

LEMMA ExecuteLoadKeepsOperations ==
    ASSUME Positions, Operations, Cpu!ExecuteLoad
    PROVE  Operations'
<1>0. /\ Cpu!Id = 1 .. Len(program) /\ Len(program) \in Nat
      /\ dispatched \in Nat /\ dispatched <= Len(program)
  BY ProgramParts DEF Positions
<1>1. PICK e \in LQ :
         /\ ~e.issued
         /\ LQ' = (LQ \ {e}) \cup {[e EXCEPT !.issued = TRUE]}
         /\ UNCHANGED <<program, dispatched, executed, completed_mem_ops, SQ>>
  BY DEF Cpu!ExecuteLoad, Cpu!branchVars, Cpu!frontVars, Cpu!registerVars
<1>2. e \in [id : 1 .. dispatched, op : Nat, addr : Addresses, issued : BOOLEAN, producer : Nat]
  BY DEF Operations
<1>3. PICK f \in [id : 1 .. dispatched, op : Nat, addr : Addresses, issued : BOOLEAN, producer : Nat] :
         f = [e EXCEPT !.issued = TRUE]
  BY <1>2
<1>4. f.id = e.id /\ f.op = e.op /\ f.issued
  BY <1>2, <1>3
<1>5. f \notin LQ
  BY <1>1, <1>4 DEF Operations
<1>6. LQ' = (LQ \ {e}) \cup {f}
  BY <1>1, <1>3
<1>7. IsFiniteSet(LQ')
  <2>1. IsFiniteSet(LQ \ {e})
    BY FS_RemoveElement DEF Operations
  <2>. QED BY <1>6, <2>1, FS_AddElement
<1>8. LQ' \subseteq [id : 1 .. dispatched, op : Nat, addr : Addresses, issued : BOOLEAN,
                     producer : Nat]
  BY <1>6 DEF Operations
<1>9. \A g, h \in LQ' : g.id = h.id /\ g.op = h.op => g = h
  <2>1. \A g, h \in LQ : g.id = h.id /\ g.op = h.op => g = h
    BY DEF Operations
  <2>. QED BY <1>4, <1>6, <2>1
<1>10. ASSUME NEW i \in 1 .. dispatched
       PROVE  Cardinality(LoadsOf(i)') = Cardinality(LoadsOf(i)) /\ OpenOf(i)' = OpenOf(i)
  <2>1. OpenOf(i)' = OpenOf(i)
    BY <1>1 DEF OpenOf
  <2>2. CASE i # e.id
    <3>1. LoadsOf(i)' = LoadsOf(i)
      BY <1>4, <1>6, <2>2 DEF LoadsOf
    <3>. QED BY <2>1, <3>1
  <2>3. CASE i = e.id
    <3>1. LoadsOf(i)' = (LoadsOf(i) \ {e}) \cup {f} /\ e \in LoadsOf(i) /\ f \notin LoadsOf(i)
      BY <1>4, <1>5, <1>6, <2>3 DEF LoadsOf
    <3>2. /\ IsFiniteSet(LoadsOf(i) \ {e})
          /\ Cardinality(LoadsOf(i) \ {e}) = Cardinality(LoadsOf(i)) - 1
      BY <3>1, QueuesFinite, FS_RemoveElement
    <3>3. Cardinality((LoadsOf(i) \ {e}) \cup {f}) = Cardinality(LoadsOf(i) \ {e}) + 1
      BY <3>1, <3>2, FS_AddElement
    <3>4. Cardinality(LoadsOf(i)) \in Nat
      BY QueuesFinite
    <3>. QED BY <2>1, <3>1, <3>2, <3>3, <3>4
  <2>. QED BY <2>2, <2>3
<1>11. ASSUME NEW i \in 1 .. dispatched
       PROVE  /\ Cardinality(LoadsOf(i)') \in Nat /\ Cardinality(OpenOf(i)') \in Nat
              /\ completed_mem_ops'[i] + Cardinality(LoadsOf(i)') + Cardinality(OpenOf(i)')
                    = completed_mem_ops[i] + Cardinality(LoadsOf(i)) + Cardinality(OpenOf(i))
  BY <1>1, <1>10, QueuesFinite
<1>12. /\ completed_mem_ops' \in [Cpu!Id -> Nat]
       /\ \A i \in Cpu!Id : completed_mem_ops'[i] >= completed_mem_ops[i]
       /\ \A i \in Cpu!Id : i > dispatched => completed_mem_ops'[i] = 0
       /\ SQ' \in Seq([id : 1 .. dispatched, addr : Addresses, finished : BOOLEAN])
  BY <1>1 DEF Operations
<1>. QED BY <1>1, <1>7, <1>8, <1>9, <1>11, <1>12, CountedKeepsOperations

\* The first store leaves the queue only when it is finished, as its
\* instruction has retired.
LEMMA CompleteStoreKeepsOperations ==
    ASSUME Positions, Operations, Cpu!CompleteStore
    PROVE  Operations'
<1>0. /\ Cpu!Id = 1 .. Len(program) /\ Len(program) \in Nat
      /\ dispatched \in Nat /\ dispatched <= Len(program)
      /\ num_retired \in Nat /\ num_retired <= dispatched
  BY ProgramParts DEF Positions
<1>1. /\ SQ # <<>> /\ SQ[1].id <= num_retired /\ SQ' = Tail(SQ)
      /\ UNCHANGED <<program, dispatched, executed, completed_mem_ops, LQ>>
  BY DEF Cpu!CompleteStore, Cpu!branchVars, Cpu!frontVars, Cpu!registerVars
<1>2. /\ SQ \in Seq([id : 1 .. dispatched, addr : Addresses, finished : BOOLEAN])
      /\ DOMAIN SQ = 1 .. Len(SQ) /\ Len(SQ) \in Nat
  BY QueuesFinite DEF Operations
<1>3. 1 \in 1 .. Len(SQ)
  BY <1>1, <1>2, EmptySeq
<1>4. SQ[1] \in [id : 1 .. dispatched, addr : Addresses, finished : BOOLEAN]
  BY <1>2, <1>3, ElementOfSeq
<1>5. SQ[1].finished
  <2>1. SQ[1].id \in Cpu!Id /\ executed[SQ[1].id] = "completed"
    BY <1>0, <1>1, <1>4 DEF Positions
  <2>2. OpenOf(SQ[1].id) = {}
    BY <2>1, CompletedEmpty
  <2>. QED BY <1>2, <1>3, <2>2 DEF OpenOf
<1>6. /\ SQ' \in Seq([id : 1 .. dispatched, addr : Addresses, finished : BOOLEAN])
      /\ Len(SQ') = Len(SQ) - 1 /\ DOMAIN SQ' = 1 .. Len(SQ) - 1
      /\ \A n \in 1 .. Len(SQ) - 1 : SQ'[n] = SQ[n + 1]
  BY <1>1, <1>2, HeadTailProperties, LenProperties
<1>7. ASSUME NEW i \in 1 .. dispatched
      PROVE  Cardinality(OpenOf(i)') = Cardinality(OpenOf(i))
  <2>. DEFINE f == [n \in OpenOf(i)' |-> n + 1]
  <2>1. OpenOf(i)' = {n \in 1 .. Len(SQ) - 1 : SQ[n + 1].id = i /\ ~SQ[n + 1].finished}
    BY <1>6 DEF OpenOf
  <2>2. f \in [OpenOf(i)' -> OpenOf(i)]
    BY <1>2, <2>1 DEF OpenOf
  <2>3. \A m, n \in OpenOf(i)' : f[m] = f[n] => m = n
    BY <1>2, <2>1
  <2>4. ASSUME NEW n \in OpenOf(i) PROVE \E m \in OpenOf(i)' : f[m] = n
    <3>1. n # 1 /\ n \in 1 .. Len(SQ)
      BY <1>2, <1>5 DEF OpenOf
    <3>2. n - 1 \in 1 .. Len(SQ) - 1 /\ (n - 1) + 1 = n
      BY <1>2, <3>1
    <3>3. n - 1 \in OpenOf(i)'
      BY <2>1, <3>2 DEF OpenOf
    <3>. QED BY <3>2, <3>3
  <2>5. f \in Bijection(OpenOf(i)', OpenOf(i))
    <3>. HIDE DEF f
    <3>. QED BY <2>2, <2>3, <2>4 DEF Bijection, Injection, Surjection, IsInjective
  <2>6. IsFiniteSet(OpenOf(i)')
    <3>1. IsFiniteSet(1 .. Len(SQ) - 1)
      BY <1>2, FS_Interval
    <3>2. OpenOf(i)' \in SUBSET (1 .. Len(SQ) - 1)
      BY <2>1
    <3>. QED BY <3>1, <3>2, FS_Subset
  <2>. QED BY <2>5, <2>6, FS_Bijection DEF ExistsBijection
<1>8. ASSUME NEW i \in 1 .. dispatched
      PROVE  /\ Cardinality(LoadsOf(i)') \in Nat /\ Cardinality(OpenOf(i)') \in Nat
             /\ completed_mem_ops'[i] + Cardinality(LoadsOf(i)') + Cardinality(OpenOf(i)')
                   = completed_mem_ops[i] + Cardinality(LoadsOf(i)) + Cardinality(OpenOf(i))
  <2>1. LoadsOf(i)' = LoadsOf(i)
    BY <1>1 DEF LoadsOf
  <2>. QED BY <1>1, <1>7, <2>1, QueuesFinite
<1>9. /\ completed_mem_ops' \in [Cpu!Id -> Nat]
      /\ \A i \in Cpu!Id : completed_mem_ops'[i] >= completed_mem_ops[i]
      /\ \A i \in Cpu!Id : i > dispatched => completed_mem_ops'[i] = 0
      /\ LQ' \subseteq [id : 1 .. dispatched, op : Nat, addr : Addresses, issued : BOOLEAN,
                        producer : Nat]
      /\ \A e, f \in LQ' : e.id = f.id /\ e.op = f.op => e = f
      /\ IsFiniteSet(LQ')
  BY <1>1 DEF Operations
<1>. QED BY <1>1, <1>6, <1>8, <1>9, CountedKeepsOperations

\* The store that a load of an address takes: the last queued one.
LEMMA YoungestFound ==
    ASSUME Positions, Operations, NEW a, Cpu!StoresTo(a) # {}
    PROVE  \E n \in Cpu!StoresTo(a) : /\ Cpu!Youngest(a) = SQ[n]
                                      /\ \A m \in Cpu!StoresTo(a) : SQ[m].id <= SQ[n].id
<1>0. /\ \A n \in 1 .. Len(SQ) : SQ[n] \in [id : 1 .. dispatched, addr : Addresses, finished : BOOLEAN]
      /\ dispatched \in Nat
  BY ElementOfSeq DEF Operations, Positions
<1>. DEFINE ids == {SQ[n].id : n \in Cpu!StoresTo(a)}
            last == CHOOSE j \in ids : \A k \in ids : k <= j
            n == CHOOSE n \in Cpu!StoresTo(a) : \A m \in Cpu!StoresTo(a) : SQ[m].id <= SQ[n].id
<1>1. ids \in SUBSET (0 .. dispatched) /\ ids # {}
  <2>. HIDE DEF last, n
  <2>1. ASSUME NEW m \in Cpu!StoresTo(a) PROVE SQ[m].id \in 0 .. dispatched
    <3>1. m \in 1 .. Len(SQ)
      BY DEF Cpu!StoresTo
    <3>2. SQ[m] \in [id : 1 .. dispatched, addr : Addresses, finished : BOOLEAN]
      BY <1>0, <3>1
    <3>. QED BY <1>0, <3>2
  <2>. QED BY <2>1
<1>2. last \in ids /\ \A k \in ids : k <= last
  <2>. HIDE DEF ids
  <2>. QED BY <1>0, <1>1, GreatestFound
<1>. HIDE DEF last
<1>3. \E m \in Cpu!StoresTo(a) : \A k \in Cpu!StoresTo(a) : SQ[k].id <= SQ[m].id
  BY <1>2
<1>4. n \in Cpu!StoresTo(a) /\ \A m \in Cpu!StoresTo(a) : SQ[m].id <= SQ[n].id
  BY <1>3
<1>5. Cpu!Youngest(a) = SQ[n]
  BY DEF Cpu!Youngest
<1>. HIDE DEF n
<1>. QED BY <1>4, <1>5

\* The loads of instruction i that go into LQ.
Entering(i) == {Cpu!LoadEntry(i, k) : k \in (DOMAIN program[i].loads) \ Cpu!Forwarded(i)}

LEMMA EnteringAre ==
    ASSUME Positions, Operations, NEW i \in Cpu!Id
    PROVE  /\ Entering(i) \subseteq [id : {i}, op : DOMAIN program[i].loads, addr : Addresses,
                                     issued : BOOLEAN, producer : 0 .. dispatched]
           /\ \A e, f \in Entering(i) : e.op = f.op => e = f
           /\ Cpu!Forwarded(i) \subseteq DOMAIN program[i].loads
           /\ IsFiniteSet(Entering(i)) /\ IsFiniteSet(Cpu!Forwarded(i))
           /\ Cardinality(Entering(i)) + Cardinality(Cpu!Forwarded(i)) = Len(program[i].loads)
<1>. DEFINE all == DOMAIN program[i].loads
            later == all \ Cpu!Forwarded(i)
            f == [k \in later |-> Cpu!LoadEntry(i, k)]
<1>0. program[i].loads \in Seq(Addresses) /\ dispatched \in Nat
  BY ProgramParts DEF Positions
<1>1. /\ all = 1 .. Len(program[i].loads) /\ Len(program[i].loads) \in Nat
      /\ \A k \in all : program[i].loads[k] \in Addresses
  BY <1>0, LenProperties, ElementOfSeq
<1>2. Cpu!Forwarded(i) \in SUBSET all
  BY DEF Cpu!Forwarded
<1>3. ASSUME NEW a
      PROVE  (IF Cpu!StoresTo(a) = {} THEN 0 ELSE Cpu!Youngest(a).id) \in 0 .. dispatched
  <2>1. CASE Cpu!StoresTo(a) = {}
    BY <1>0, <2>1
  <2>2. CASE Cpu!StoresTo(a) # {}
    <3>1. PICK n \in 1 .. Len(SQ) : Cpu!Youngest(a) = SQ[n]
      BY <2>2, YoungestFound DEF Cpu!StoresTo
    <3>2. SQ[n] \in [id : 1 .. dispatched, addr : Addresses, finished : BOOLEAN]
      BY ElementOfSeq DEF Operations
    <3>. QED BY <1>0, <2>2, <3>1, <3>2
  <2>. QED BY <2>1, <2>2
<1>4. ASSUME NEW k \in all
      PROVE  /\ Cpu!LoadEntry(i, k) \in [id : {i}, op : all, addr : Addresses,
                                         issued : BOOLEAN, producer : 0 .. dispatched]
             /\ Cpu!LoadEntry(i, k).op = k
  BY <1>1, <1>3 DEF Cpu!LoadEntry
<1>5. IsFiniteSet(all) /\ Cardinality(all) = Len(program[i].loads)
  <2>1. /\ IsFiniteSet(1 .. Len(program[i].loads))
        /\ Cardinality(1 .. Len(program[i].loads))
              = IF 1 > Len(program[i].loads) THEN 0 ELSE Len(program[i].loads) - 1 + 1
    BY <1>1, FS_Interval, SMTT(30)
  <2>. QED BY <1>1, <2>1
<1>6. /\ IsFiniteSet(Cpu!Forwarded(i)) /\ IsFiniteSet(later)
      /\ Cardinality(Cpu!Forwarded(i)) \in Nat /\ Cardinality(later) \in Nat
      /\ Cardinality(later) + Cardinality(Cpu!Forwarded(i)) = Len(program[i].loads)
  <2>. HIDE DEF all
  <2>1. IsFiniteSet(Cpu!Forwarded(i)) /\ IsFiniteSet(later)
    BY <1>2, <1>5, FS_Subset
  <2>2. all \cap Cpu!Forwarded(i) = Cpu!Forwarded(i)
    BY <1>2
  <2>3. Cardinality(later) = Cardinality(all) - Cardinality(Cpu!Forwarded(i))
    <3>1. Cardinality(all \ Cpu!Forwarded(i))
             = Cardinality(all) - Cardinality(all \cap Cpu!Forwarded(i))
      BY <1>5, FS_Difference, Zenon
    <3>. QED BY <2>2, <3>1, Zenon
  <2>4. Cardinality(later) \in Nat /\ Cardinality(Cpu!Forwarded(i)) \in Nat
    BY <2>1, FS_CardinalityType
  <2>. HIDE DEF later
  <2>. QED BY <1>1, <1>5, <2>1, <2>3, <2>4
<1>7. f \in Bijection(later, Entering(i))
  <2>1. f \in [later -> Entering(i)]
    BY DEF Entering
  <2>2. \A k, l \in later : f[k] = f[l] => k = l
    BY <1>4
  <2>3. \A e \in Entering(i) : \E k \in later : f[k] = e
    BY DEF Entering
  <2>. HIDE DEF f, later
  <2>. QED BY <2>1, <2>2, <2>3 DEF Bijection, Injection, Surjection, IsInjective
<1>8. IsFiniteSet(Entering(i)) /\ Cardinality(Entering(i)) = Cardinality(later)
  <2>. HIDE DEF f, later
  <2>. QED BY <1>6, <1>7, FS_Bijection DEF ExistsBijection
<1>9. \A e \in Entering(i) : \E k \in all : e = Cpu!LoadEntry(i, k)
  BY DEF Entering
<1>10. \A e, g \in Entering(i) : e.op = g.op => e = g
  <2>. HIDE DEF all
  <2>. QED BY <1>4, <1>9
<1>11. Entering(i) \subseteq [id : {i}, op : all, addr : Addresses, issued : BOOLEAN,
                              producer : 0 .. dispatched]
  <2>. HIDE DEF all
  <2>. QED BY <1>4, <1>9
<1>. QED BY <1>2, <1>6, <1>8, <1>10, <1>11

\* What dispatch_instruction() does to the queues with the next instruction i.
Dispatches(i) ==
    /\ i = dispatched + 1 /\ dispatched' = i /\ executed[i] = "no"
    /\ LQ' = LQ \cup Entering(i)
    /\ completed_mem_ops' = [completed_mem_ops EXCEPT ![i] = @ + Cardinality(Cpu!Forwarded(i))]
    /\ seen' = seen \cup {<<i, k, Cpu!Youngest(program[i].loads[k]).id>> : k \in Cpu!Forwarded(i)}
    /\ SQ' \in Seq([id : 1 .. i, addr : Addresses, finished : BOOLEAN])
    /\ Len(SQ) \in Nat /\ DOMAIN SQ = 1 .. Len(SQ) /\ Len(program[i].stores) \in Nat
    /\ Len(SQ') = Len(SQ) + Len(program[i].stores) /\ DOMAIN SQ' = 1 .. Len(SQ')
    /\ \A n \in 1 .. Len(SQ) : SQ'[n] = SQ[n]
    /\ \A n \in Len(SQ) + 1 .. Len(SQ') : SQ'[n] = Cpu!StoreEntry(i, n - Len(SQ))
    /\ UNCHANGED <<program, executed, num_retired, written>>

LEMMA Dispatching ==
    ASSUME Positions, Operations, Cpu!DispatchInstruction
    PROVE  \E i \in Cpu!Id : Dispatches(i)
<1>0. /\ Cpu!Id = 1 .. Len(program) /\ Len(program) \in Nat
      /\ dispatched \in Nat /\ dispatched + 1 \in Cpu!Id /\ dispatched + 1 > scheduled
      /\ scheduled \in Nat
  BY ProgramParts DEF Positions, Cpu!DispatchInstruction
<1>1. PICK i \in Cpu!Id : i = dispatched + 1
  BY <1>0
<1>2. PICK stores : stores = [k \in DOMAIN program[i].stores |-> Cpu!StoreEntry(i, k)]
  OBVIOUS
<1>3. /\ dispatched' = i
      /\ LQ' = LQ \cup Entering(i)
      /\ SQ' = SQ \o stores
      /\ completed_mem_ops' = [completed_mem_ops EXCEPT ![i] = @ + Cardinality(Cpu!Forwarded(i))]
      /\ seen' = seen \cup {<<i, k, Cpu!Youngest(program[i].loads[k]).id>> : k \in Cpu!Forwarded(i)}
      /\ UNCHANGED <<program, executed, num_retired, written>>
  BY <1>1, <1>2, SameSets DEF Cpu!DispatchInstruction, Entering
<1>4. executed[i] = "no"
  BY <1>0, <1>1 DEF Positions
<1>5. program[i].stores \in Seq(Addresses)
  BY ProgramParts DEF Positions
<1>6. /\ DOMAIN program[i].stores = 1 .. Len(program[i].stores) /\ Len(program[i].stores) \in Nat
      /\ \A k \in 1 .. Len(program[i].stores) : program[i].stores[k] \in Addresses
  BY <1>5, LenProperties, ElementOfSeq
<1>7. \A k \in 1 .. Len(program[i].stores) :
         Cpu!StoreEntry(i, k) \in [id : 1 .. i, addr : Addresses, finished : BOOLEAN]
  BY <1>0, <1>1, <1>6 DEF Cpu!StoreEntry
<1>8. /\ stores \in Seq([id : 1 .. i, addr : Addresses, finished : BOOLEAN])
      /\ Len(stores) = Len(program[i].stores)
      /\ \A k \in 1 .. Len(program[i].stores) : stores[k] = Cpu!StoreEntry(i, k)
  <2>1. stores \in [1 .. Len(program[i].stores) -> [id : 1 .. i, addr : Addresses, finished : BOOLEAN]]
    BY <1>2, <1>6, <1>7
  <2>2. stores \in Seq([id : 1 .. i, addr : Addresses, finished : BOOLEAN])
    BY <1>6, <2>1, SeqDef, ZenonT(60)
  <2>3. DOMAIN stores = 1 .. Len(stores) /\ Len(stores) \in Nat
    BY <2>2, LenProperties
  <2>. QED BY <1>2, <1>6, <2>1, <2>2, <2>3
<1>9. /\ SQ \in Seq([id : 1 .. i, addr : Addresses, finished : BOOLEAN])
      /\ Len(SQ) \in Nat /\ DOMAIN SQ = 1 .. Len(SQ)
  <2>1. SQ \in Seq([id : 1 .. dispatched, addr : Addresses, finished : BOOLEAN])
    BY DEF Operations
  <2>2. Len(SQ) \in Nat /\ DOMAIN SQ = 1 .. Len(SQ)
    BY <2>1, LenProperties
  <2>3. \A n \in 1 .. Len(SQ) : SQ[n] \in [id : 1 .. dispatched, addr : Addresses, finished : BOOLEAN]
    BY <2>1, ElementOfSeq
  <2>4. \A n \in 1 .. Len(SQ) : SQ[n] \in [id : 1 .. i, addr : Addresses, finished : BOOLEAN]
    BY <1>0, <1>1, <2>3
  <2>5. SQ \in [1 .. Len(SQ) -> [id : 1 .. i, addr : Addresses, finished : BOOLEAN]]
    BY <2>1, <2>2, <2>4, LenProperties
  <2>6. SQ \in Seq([id : 1 .. i, addr : Addresses, finished : BOOLEAN])
    <3>. DEFINE Stores == [id : 1 .. i, addr : Addresses, finished : BOOLEAN]
    <3>. HIDE DEF Stores
    <3>. QED BY <2>2, <2>5, SeqDef, ZenonT(60) DEF Stores
  <2>. QED BY <2>2, <2>6
<1>10. /\ SQ' \in Seq([id : 1 .. i, addr : Addresses, finished : BOOLEAN])
       /\ Len(SQ') = Len(SQ) + Len(stores)
       /\ \A n \in 1 .. Len(SQ) + Len(stores) :
             SQ'[n] = IF n <= Len(SQ) THEN SQ[n] ELSE stores[n - Len(SQ)]
  BY <1>3, <1>8, <1>9, ConcatProperties, ZenonT(60)
<1>11. DOMAIN SQ' = 1 .. Len(SQ')
  BY <1>10, LenProperties
<1>12. \A n \in 1 .. Len(SQ) : SQ'[n] = SQ[n]
  BY <1>6, <1>8, <1>9, <1>10, SMTT(60)
<1>13. ASSUME NEW n \in Len(SQ) + 1 .. Len(SQ') PROVE SQ'[n] = Cpu!StoreEntry(i, n - Len(SQ))
  <2>1. /\ n \in 1 .. Len(SQ) + Len(stores) /\ ~(n <= Len(SQ))
        /\ n - Len(SQ) \in 1 .. Len(program[i].stores)
    BY <1>6, <1>8, <1>9, <1>10
  <2>. QED BY <1>8, <1>10, <2>1
<1>. QED BY <1>1, <1>3, <1>4, <1>6, <1>8, <1>9, <1>10, <1>11, <1>12, <1>13 DEF Dispatches

LEMMA DispatchKeepsOperations ==
    ASSUME Positions, Operations, NEW i \in Cpu!Id, Dispatches(i)
    PROVE  Operations'
<1>0. /\ Cpu!Id = 1 .. Len(program) /\ Len(program) \in Nat /\ Cpu!Id' = Cpu!Id
      /\ dispatched \in Nat
  BY ProgramParts DEF Positions, Dispatches, Cpu!Id
<1>1. /\ i = dispatched + 1 /\ dispatched' = i /\ executed[i] = "no"
      /\ LQ' = LQ \cup Entering(i)
      /\ completed_mem_ops' = [completed_mem_ops EXCEPT ![i] = @ + Cardinality(Cpu!Forwarded(i))]
      /\ UNCHANGED <<program, executed>>
  BY DEF Dispatches
<1>2. /\ SQ' \in Seq([id : 1 .. i, addr : Addresses, finished : BOOLEAN])
      /\ Len(SQ) \in Nat /\ DOMAIN SQ = 1 .. Len(SQ) /\ Len(program[i].stores) \in Nat
      /\ Len(SQ') = Len(SQ) + Len(program[i].stores) /\ DOMAIN SQ' = 1 .. Len(SQ')
      /\ \A n \in 1 .. Len(SQ) : SQ'[n] = SQ[n]
      /\ \A n \in Len(SQ) + 1 .. Len(SQ') : SQ'[n].id = i /\ ~SQ'[n].finished
  <2>1. \A n : Cpu!StoreEntry(i, n).id = i /\ ~Cpu!StoreEntry(i, n).finished
    BY DEF Cpu!StoreEntry
  <2>. QED BY <2>1 DEF Dispatches
<1>3. /\ Entering(i) \subseteq [id : {i}, op : DOMAIN program[i].loads, addr : Addresses,
                                issued : BOOLEAN, producer : 0 .. dispatched]
      /\ \A e, f \in Entering(i) : e.op = f.op => e = f
      /\ IsFiniteSet(Entering(i)) /\ IsFiniteSet(Cpu!Forwarded(i))
      /\ Cardinality(Entering(i)) + Cardinality(Cpu!Forwarded(i)) = Len(program[i].loads)
  BY EnteringAre
<1>4. Cardinality(Entering(i)) \in Nat /\ Cardinality(Cpu!Forwarded(i)) \in Nat
  BY <1>3, FS_CardinalityType
<1>5. /\ LQ \subseteq [id : 1 .. dispatched, op : Nat, addr : Addresses, issued : BOOLEAN,
                       producer : Nat]
      /\ \A e, f \in LQ : e.id = f.id /\ e.op = f.op => e = f
      /\ IsFiniteSet(LQ)
  BY DEF Operations
<1>6. DOMAIN program[i].loads \subseteq Nat /\ Len(program[i].loads) \in Nat
  BY ProgramParts, LenProperties DEF Positions
<1>7. LQ' \subseteq [id : 1 .. i, op : Nat, addr : Addresses, issued : BOOLEAN, producer : Nat]
  BY <1>0, <1>1, <1>3, <1>5, <1>6
<1>8. IsFiniteSet(LQ')
  BY <1>1, <1>3, <1>5, FS_Union
<1>9. \A e, f \in LQ' : e.id = f.id /\ e.op = f.op => e = f
  <2>1. \A e \in LQ : e.id # i
    BY <1>0, <1>1, <1>5
  <2>2. \A e \in Entering(i) : e.id = i
    BY <1>3
  <2>. QED BY <1>1, <1>3, <1>5, <2>1, <2>2
<1>10. \A k \in Cpu!Id : completed_mem_ops[k] \in Nat
  BY DEF Operations
<1>11. completed_mem_ops[i] = 0
  BY <1>0, <1>1 DEF Operations
<1>12. \A k \in Cpu!Id : completed_mem_ops'[k] = IF k = i THEN Cardinality(Cpu!Forwarded(i))
                                               ELSE completed_mem_ops[k]
  BY <1>1, <1>4, <1>11 DEF Operations
<1>13. completed_mem_ops' \in [Cpu!Id -> Nat]
  BY <1>1, <1>4, <1>10, <1>11 DEF Operations
<1>14. ASSUME NEW k \in Cpu!Id, k > i PROVE completed_mem_ops'[k] = 0
  BY <1>0, <1>1, <1>12, <1>14 DEF Operations
<1>15. \A k : Cpu!num_mem_ops(k)' = Cpu!num_mem_ops(k)
  BY <1>1 DEF Cpu!num_mem_ops
<1>16. \A n \in DOMAIN SQ : SQ[n].id \in 1 .. dispatched
  <2>. SUFFICES ASSUME NEW n \in 1 .. Len(SQ) PROVE SQ[n].id \in 1 .. dispatched
    BY <1>2
  <2>1. SQ \in Seq([id : 1 .. dispatched, addr : Addresses, finished : BOOLEAN])
    BY DEF Operations
  <2>2. SQ[n] \in [id : 1 .. dispatched, addr : Addresses, finished : BOOLEAN]
    BY <2>1, ElementOfSeq
  <2>. QED BY <2>2
<1>17. ASSUME NEW k \in 1 .. i
       PROVE  completed_mem_ops'[k] + Cardinality(LoadsOf(k)') + Cardinality(OpenOf(k)')
                 = Cpu!num_mem_ops(k)
  <2>1. CASE k = i
    <3>1. LoadsOf(k)' = Entering(i)
      BY <1>0, <1>1, <1>3, <1>5, <2>1 DEF LoadsOf
    <3>2. OpenOf(k)' = Len(SQ) + 1 .. Len(SQ')
      <4>1. OpenOf(k)' = {n \in 1 .. Len(SQ') : SQ'[n].id = i /\ ~SQ'[n].finished}
        BY <1>2, <2>1 DEF OpenOf
      <4>2. ASSUME NEW n \in 1 .. Len(SQ)
            PROVE  SQ'[n].id # i
        <5>1. SQ'[n] = SQ[n]
          BY <1>2
        <5>2. SQ[n].id \in 1 .. dispatched
          BY <1>2, <1>16
        <5>. QED BY <1>0, <1>1, <5>1, <5>2
      <4>. QED BY <1>2, <4>1, <4>2
    <3>3. Cardinality(OpenOf(k)') = Len(program[i].stores)
      <4>1. PICK m \in Nat, n \in Nat : m = Len(SQ) + 1 /\ n = Len(SQ')
        BY <1>2
      <4>2. Cardinality(m .. n) = IF m > n THEN 0 ELSE n - m + 1
        BY FS_Interval
      <4>3. n = m - 1 + Len(program[i].stores) /\ Len(program[i].stores) \in Nat
        BY <1>2, <4>1
      <4>4. Cardinality(m .. n) = Len(program[i].stores)
        BY <4>2, <4>3
      <4>. QED BY <3>2, <4>1, <4>4
    <3>4. Cpu!num_mem_ops(i) = Len(program[i].loads) + Len(program[i].stores)
      BY DEF Cpu!num_mem_ops
    <3>. DEFINE entering == Cardinality(Entering(i))
                forwarded == Cardinality(Cpu!Forwarded(i))
                nloads == Len(program[i].loads)
                nstores == Len(program[i].stores)
    <3>5. entering \in Nat /\ forwarded \in Nat /\ entering + forwarded = nloads
          /\ nstores \in Nat
      BY <1>2, <1>3, <1>4
    <3>6. completed_mem_ops'[k] = forwarded /\ Cardinality(LoadsOf(k)') = entering
      BY <1>12, <2>1, <3>1
    <3>. HIDE DEF entering, forwarded
    <3>7. forwarded + entering + nstores = nloads + nstores
      <4>. HIDE DEF nloads, nstores
      <4>. QED BY <3>5
    <3>. QED BY <2>1, <3>3, <3>4, <3>6, <3>7
  <2>2. CASE k # i
    <3>1. k \in 1 .. dispatched /\ k \in Cpu!Id
      BY <1>0, <1>1, <2>2
    <3>2. LoadsOf(k)' = LoadsOf(k)
      BY <1>1, <1>3, <2>2 DEF LoadsOf
    <3>3. OpenOf(k)' = OpenOf(k)
      <4>1. OpenOf(k)' = {n \in 1 .. Len(SQ') : SQ'[n].id = k /\ ~SQ'[n].finished}
        BY <1>2 DEF OpenOf
      <4>2. OpenOf(k) = {n \in 1 .. Len(SQ) : SQ[n].id = k /\ ~SQ[n].finished}
        BY <1>2 DEF OpenOf
      <4>3. 1 .. Len(SQ') = (1 .. Len(SQ)) \cup (Len(SQ) + 1 .. Len(SQ'))
        BY <1>2
      <4>. QED BY <1>2, <2>2, <4>1, <4>2, <4>3
    <3>4. completed_mem_ops'[k] = completed_mem_ops[k]
      BY <1>12, <2>2, <3>1
    <3>. QED BY <3>1, <3>2, <3>3, <3>4 DEF Operations
  <2>. QED BY <2>1, <2>2
<1>18. ASSUME NEW k \in Cpu!Id, executed[k] = "completed"
       PROVE  completed_mem_ops'[k] = Cpu!num_mem_ops(k)
  BY <1>1, <1>12, <1>18 DEF Operations
<1>. QED BY <1>0, <1>1, <1>2, <1>7, <1>8, <1>9, <1>13, <1>14, <1>15, <1>17, <1>18 DEF Operations

\* Nothing is queued or counted, and no instruction completes but one that has
\* all its operations counted.
LEMMA ExecutionKeepsOperations ==
    ASSUME Operations,
           UNCHANGED <<program, dispatched, LQ, SQ, completed_mem_ops>>,
           \A i \in Cpu!Id : executed'[i] = "completed" =>
              executed[i] = "completed" \/ completed_mem_ops[i] = Cpu!num_mem_ops(i)
    PROVE  Operations'
<1>1. Cpu!Id' = Cpu!Id /\ \A i : Cpu!num_mem_ops(i)' = Cpu!num_mem_ops(i)
  BY DEF Cpu!Id, Cpu!num_mem_ops
<1>2. ASSUME NEW i PROVE LoadsOf(i)' = LoadsOf(i) /\ OpenOf(i)' = OpenOf(i)
  BY DEF LoadsOf, OpenOf
<1>3. ASSUME NEW i \in Cpu!Id, executed'[i] = "completed"
      PROVE  completed_mem_ops[i] = Cpu!num_mem_ops(i)
  BY <1>3 DEF Operations
<1>. QED BY <1>1, <1>2, <1>3 DEF Operations

LEMMA OperationsKept == ASSUME Positions, Operations, Cpu!Next PROVE Operations'
<1>1. CASE Cpu!DispatchInstruction
  BY <1>1, Dispatching, DispatchKeepsOperations
<1>2. CASE Cpu!FinishStore
  BY <1>2, FinishStoreKeepsOperations
<1>3. CASE Cpu!CompleteStore
  BY <1>3, CompleteStoreKeepsOperations
<1>4. CASE Cpu!ExecuteLoad
  BY <1>4, ExecuteLoadKeepsOperations
<1>5. CASE Cpu!LoadReturn
  BY <1>5, LoadReturnKeepsOperations
<1>6. CASE Cpu!CompleteInflightInstruction
  <2>1. PICK i \in Cpu!ROB :
           /\ completed_mem_ops[i] = Cpu!num_mem_ops(i)
           /\ executed' = [executed EXCEPT ![i] = "completed"]
           /\ UNCHANGED <<program, dispatched, LQ, SQ, completed_mem_ops>>
    BY <1>6 DEF Cpu!CompleteInflightInstruction, Cpu!memoryVars
  <2>2. \A j \in Cpu!Id : executed'[j] = "completed" => executed[j] = "completed" \/ j = i
    BY <2>1 DEF Positions
  <2>. QED BY <2>1, <2>2, ExecutionKeepsOperations
<1>7. CASE Cpu!ExecuteInstruction
  <2>1. PICK i \in num_retired + 1 .. scheduled :
           /\ executed' = [executed EXCEPT ![i] = "inflight"]
           /\ UNCHANGED <<program, dispatched, LQ, SQ, completed_mem_ops>>
    BY <1>7 DEF Cpu!ExecuteInstruction, Cpu!memoryVars
  <2>2. \A j \in Cpu!Id : executed'[j] = "completed" => executed[j] = "completed"
    BY <2>1 DEF Positions
  <2>. QED BY <2>1, <2>2, ExecutionKeepsOperations
<1>8. CASE \/ Cpu!InitializeInstruction \/ Cpu!CheckDib \/ Cpu!FetchInstruction \/ Cpu!FetchReturn
           \/ Cpu!PromoteToDecode \/ Cpu!DecodeInstruction \/ Cpu!ScheduleInstruction
           \/ Cpu!RetireRob
  <2>1. UNCHANGED <<program, dispatched, executed, LQ, SQ, completed_mem_ops>>
    BY <1>8 DEF Cpu!InitializeInstruction, Cpu!CheckDib, Cpu!FetchInstruction, Cpu!FetchReturn,
                Cpu!PromoteToDecode, Cpu!DecodeInstruction, Cpu!ScheduleInstruction,
                Cpu!RetireRob, Cpu!memoryVars
  <2>. QED BY <2>1, ExecutionKeepsOperations
<1>. QED BY <1>1, <1>2, <1>3, <1>4, <1>5, <1>6, <1>7, <1>8 DEF Cpu!Next

LEMMA AllCounted ==
    ASSUME Positions, Operations
    PROVE  Cpu!MemoryOpsCounted
<1>. SUFFICES ASSUME NEW i \in 1 .. dispatched
              PROVE  completed_mem_ops[i] + Cpu!Cardinality({e \in LQ : e.id = i})
                        + Cpu!Cardinality({n \in DOMAIN SQ : SQ[n].id = i /\ ~SQ[n].finished})
                           = Cpu!num_mem_ops(i)
  BY DEF Cpu!MemoryOpsCounted
<1>1. completed_mem_ops[i] + Cardinality(LoadsOf(i)) + Cardinality(OpenOf(i)) = Cpu!num_mem_ops(i)
  BY DEF Operations
<1>. QED BY <1>1, SameSets DEF LoadsOf, OpenOf
-----------------------------------------------------------------------------
(* Loads and stores *)

\* Instruction j stores to address a.
StoresAt(j, a) == \E k \in DOMAIN program[j].stores : program[j].stores[k] = a

\* Stores leave the queue in the order of the program, and every store of a
\* dispatched instruction is queued, or the L1D has it or a later one.
StoreOrder ==
    /\ \A m, n \in DOMAIN SQ : m < n => SQ[m].id <= SQ[n].id
    /\ \A n \in DOMAIN SQ : StoresAt(SQ[n].id, SQ[n].addr)
    /\ written \in [Addresses -> 0 .. num_retired]
    /\ \A a \in Addresses : written[a] # 0 => StoresAt(written[a], a)
    /\ \A a \in Addresses : \A n \in DOMAIN SQ : written[a] <= SQ[n].id
    /\ \A j \in 1 .. dispatched, a \in Addresses :
          StoresAt(j, a) => \/ \E n \in DOMAIN SQ : SQ[n].id = j /\ SQ[n].addr = a
                            \/ j <= written[a]

\* A load that waits for no store finds the last one before it in the L1D,
\* and no store before it is still to be written there.
LoadOrder ==
    /\ \A e \in LQ : /\ e.op \in DOMAIN program[e.id].loads
                     /\ e.addr = program[e.id].loads[e.op]
                     /\ e.producer # 0 => e.producer = Cpu!LastStore(e.id, e.addr)
    /\ \A e \in LQ : e.producer = 0 /\ ~e.issued =>
          /\ written[e.addr] = Cpu!LastStore(e.id, e.addr)
          /\ \A n \in DOMAIN SQ : SQ[n].addr = e.addr => e.id <= SQ[n].id
    /\ Cpu!LoadsSeeStores

\* What the store queue holds.
LEMMA Queued ==
    ASSUME Positions, Operations
    PROVE  /\ DOMAIN SQ = 1 .. Len(SQ) /\ Len(SQ) \in Nat
           /\ \A n \in 1 .. Len(SQ) :
                 /\ SQ[n].id \in 1 .. dispatched /\ SQ[n].id \in Nat /\ SQ[n].addr \in Addresses
                 /\ SQ[n] \in [id : 1 .. dispatched, addr : Addresses, finished : BOOLEAN]
<1>1. SQ \in Seq([id : 1 .. dispatched, addr : Addresses, finished : BOOLEAN])
  BY DEF Operations
<1>2. DOMAIN SQ = 1 .. Len(SQ) /\ Len(SQ) \in Nat
  BY <1>1, LenProperties
<1>3. ASSUME NEW n \in 1 .. Len(SQ)
      PROVE  SQ[n] \in [id : 1 .. dispatched, addr : Addresses, finished : BOOLEAN]
  BY <1>1, ElementOfSeq
<1>4. dispatched \in Nat
  BY DEF Positions
<1>. QED BY <1>2, <1>3, <1>4

LEMMA StoreOrderStart == Cpu!Init => StoreOrder
<1>. SUFFICES ASSUME Cpu!Init PROVE StoreOrder
  OBVIOUS
<1>1. SQ = <<>> /\ written = [a \in Addresses |-> 0] /\ dispatched = 0 /\ num_retired = 0
  BY DEF Cpu!Init, Cpu!Empty
<1>2. DOMAIN SQ = {}
  BY <1>1
<1>. QED BY <1>1, <1>2 DEF StoreOrder

\* Stores finish, and instructions retire.
LEMMA StoreOrderUntouched ==
    ASSUME Positions, StoreOrder, num_retired' \in Nat, num_retired' >= num_retired,
           UNCHANGED <<program, dispatched, written>>,
           DOMAIN SQ' = DOMAIN SQ,
           \A n \in DOMAIN SQ : SQ'[n].id = SQ[n].id /\ SQ'[n].addr = SQ[n].addr
    PROVE  StoreOrder'
<1>1. \A j, a : StoresAt(j, a)' <=> StoresAt(j, a)
  BY DEF StoresAt
<1>2. written \in [Addresses -> 0 .. num_retired']
  BY DEF StoreOrder, Positions
<1>. QED BY <1>1, <1>2 DEF StoreOrder

LEMMA DispatchKeepsStoreOrder ==
    ASSUME Positions, Operations, StoreOrder, NEW i \in Cpu!Id, Dispatches(i)
    PROVE  StoreOrder'
<1>0. /\ dispatched \in Nat /\ num_retired \in Nat /\ num_retired <= dispatched
      /\ i = dispatched + 1 /\ dispatched' = i
      /\ UNCHANGED <<program, num_retired, written>>
  BY DEF Positions, Dispatches
<1>1. /\ DOMAIN SQ = 1 .. Len(SQ) /\ Len(SQ) \in Nat
      /\ \A n \in 1 .. Len(SQ) : SQ[n].id \in 1 .. dispatched /\ SQ[n].addr \in Addresses
  BY Queued
<1>2. /\ Len(program[i].stores) \in Nat
      /\ Len(SQ') = Len(SQ) + Len(program[i].stores) /\ DOMAIN SQ' = 1 .. Len(SQ')
      /\ \A n \in 1 .. Len(SQ) : SQ'[n] = SQ[n]
      /\ \A n \in Len(SQ) + 1 .. Len(SQ') :
            SQ'[n].id = i /\ SQ'[n].addr = program[i].stores[n - Len(SQ)]
  <2>1. \A n : Cpu!StoreEntry(i, n).id = i /\ Cpu!StoreEntry(i, n).addr = program[i].stores[n]
    BY DEF Cpu!StoreEntry
  <2>. QED BY <2>1 DEF Dispatches
<1>3. \A n \in DOMAIN SQ' : n \in 1 .. Len(SQ) \/ n \in Len(SQ) + 1 .. Len(SQ')
  BY <1>1, <1>2
<1>4. \A j, a : StoresAt(j, a)' <=> StoresAt(j, a)
  BY <1>0 DEF StoresAt
<1>5. DOMAIN program[i].stores = 1 .. Len(program[i].stores)
  BY ProgramParts, LenProperties DEF Positions
<1>6. ASSUME NEW m \in DOMAIN SQ', NEW n \in DOMAIN SQ', m < n
      PROVE  SQ'[m].id <= SQ'[n].id
  <2>1. CASE n \in 1 .. Len(SQ)
    <3>1. m \in 1 .. Len(SQ)
      BY <1>1, <1>2, <1>6, <2>1
    <3>. QED BY <1>1, <1>2, <1>6, <2>1, <3>1 DEF StoreOrder
  <2>2. CASE n \in Len(SQ) + 1 .. Len(SQ')
    <3>1. SQ'[m].id \in 1 .. dispatched \/ SQ'[m].id = i
      BY <1>1, <1>2, <1>3
    <3>. QED BY <1>0, <1>2, <2>2, <3>1, SMTT(30)
  <2>. QED BY <1>3, <2>1, <2>2
<1>7. ASSUME NEW n \in DOMAIN SQ' PROVE StoresAt(SQ'[n].id, SQ'[n].addr)
  <2>1. CASE n \in 1 .. Len(SQ)
    BY <1>1, <1>2, <2>1 DEF StoreOrder
  <2>2. CASE n \in Len(SQ) + 1 .. Len(SQ')
    <3>1. n - Len(SQ) \in DOMAIN program[i].stores
      BY <1>1, <1>2, <1>5, <2>2
    <3>. QED BY <1>2, <2>2, <3>1 DEF StoresAt
  <2>. QED BY <1>3, <2>1, <2>2
<1>8. ASSUME NEW a \in Addresses, NEW n \in DOMAIN SQ' PROVE written[a] <= SQ'[n].id
  <2>1. CASE n \in 1 .. Len(SQ)
    BY <1>1, <1>2, <2>1 DEF StoreOrder
  <2>2. CASE n \in Len(SQ) + 1 .. Len(SQ')
    <3>1. written[a] \in 0 .. num_retired
      BY DEF StoreOrder
    <3>. QED BY <1>0, <1>2, <2>2, <3>1
  <2>. QED BY <1>3, <2>1, <2>2
<1>9. ASSUME NEW j \in 1 .. i, NEW a \in Addresses, StoresAt(j, a)
      PROVE  \/ \E n \in DOMAIN SQ' : SQ'[n].id = j /\ SQ'[n].addr = a
             \/ j <= written[a]
  <2>1. CASE j = i
    <3>1. PICK k \in 1 .. Len(program[i].stores) : program[i].stores[k] = a
      BY <1>5, <1>9, <2>1 DEF StoresAt
    <3>2. Len(SQ) + k \in Len(SQ) + 1 .. Len(SQ') /\ (Len(SQ) + k) - Len(SQ) = k
          /\ Len(SQ) + k \in DOMAIN SQ'
      BY <1>1, <1>2
    <3>3. SQ'[Len(SQ) + k].id = i /\ SQ'[Len(SQ) + k].addr = a
      BY <1>2, <3>1, <3>2
    <3>. QED BY <2>1, <3>2, <3>3
  <2>2. CASE j # i
    <3>1. j \in 1 .. dispatched
      BY <1>0, <2>2
    <3>2. \/ \E n \in DOMAIN SQ : SQ[n].id = j /\ SQ[n].addr = a
          \/ j <= written[a]
      BY <1>9, <3>1 DEF StoreOrder
    <3>3. \A n \in DOMAIN SQ : n \in DOMAIN SQ' /\ SQ'[n] = SQ[n]
      BY <1>1, <1>2
    <3>. QED BY <3>2, <3>3
  <2>. QED BY <2>1, <2>2
<1>10. /\ written \in [Addresses -> 0 .. num_retired]
       /\ \A a \in Addresses : written[a] # 0 => StoresAt(written[a], a)
  BY DEF StoreOrder
<1>. QED BY <1>0, <1>4, <1>6, <1>7, <1>8, <1>9, <1>10 DEF StoreOrder

\* What the L1D takes, and what is left in the store queue.
LEMMA StoreCompletes ==
    ASSUME Positions, Operations, Cpu!CompleteStore
    PROVE  /\ 1 \in 1 .. Len(SQ) /\ SQ[1].id <= num_retired
           /\ DOMAIN SQ' = 1 .. Len(SQ) - 1
           /\ \A n \in 1 .. Len(SQ) - 1 : SQ'[n] = SQ[n + 1]
           /\ written' = [written EXCEPT ![SQ[1].addr] = SQ[1].id]
           /\ UNCHANGED <<program, dispatched, num_retired, LQ, seen>>
<1>1. /\ SQ # <<>> /\ SQ[1].id <= num_retired /\ SQ' = Tail(SQ)
      /\ written' = [written EXCEPT ![SQ[1].addr] = SQ[1].id]
      /\ UNCHANGED <<program, dispatched, num_retired, LQ, seen>>
  BY DEF Cpu!CompleteStore, Cpu!branchVars, Cpu!frontVars, Cpu!registerVars
<1>2. /\ SQ \in Seq([id : 1 .. dispatched, addr : Addresses, finished : BOOLEAN])
      /\ DOMAIN SQ = 1 .. Len(SQ) /\ Len(SQ) \in Nat
  BY QueuesFinite DEF Operations
<1>3. 1 \in 1 .. Len(SQ)
  BY <1>1, <1>2, EmptySeq
<1>4. /\ SQ' \in Seq([id : 1 .. dispatched, addr : Addresses, finished : BOOLEAN])
      /\ Len(SQ') = Len(SQ) - 1 /\ DOMAIN SQ' = 1 .. Len(SQ) - 1
      /\ \A n \in 1 .. Len(SQ) - 1 : SQ'[n] = SQ[n + 1]
  BY <1>1, <1>2, HeadTailProperties, LenProperties
<1>. QED BY <1>1, <1>3, <1>4

LEMMA CompleteKeepsStoreOrder ==
    ASSUME Positions, Operations, StoreOrder, Cpu!CompleteStore
    PROVE  StoreOrder'
<1>0. /\ 1 \in 1 .. Len(SQ) /\ SQ[1].id <= num_retired
      /\ DOMAIN SQ' = 1 .. Len(SQ) - 1
      /\ \A n \in 1 .. Len(SQ) - 1 : SQ'[n] = SQ[n + 1]
      /\ written' = [written EXCEPT ![SQ[1].addr] = SQ[1].id]
      /\ UNCHANGED <<program, dispatched, num_retired>>
  BY StoreCompletes
<1>1. /\ DOMAIN SQ = 1 .. Len(SQ) /\ Len(SQ) \in Nat
      /\ \A n \in 1 .. Len(SQ) : SQ[n].id \in Nat /\ SQ[n].id > 0 /\ SQ[n].addr \in Addresses
      /\ num_retired \in Nat
  BY Queued DEF Positions
<1>2. \A j, a : StoresAt(j, a)' <=> StoresAt(j, a)
  BY <1>0 DEF StoresAt
<1>3. \A n \in DOMAIN SQ' : n + 1 \in 1 .. Len(SQ) /\ SQ'[n] = SQ[n + 1]
  BY <1>0, <1>1
<1>4. /\ \A m, n \in 1 .. Len(SQ) : m < n => SQ[m].id <= SQ[n].id
      /\ \A n \in 1 .. Len(SQ) : StoresAt(SQ[n].id, SQ[n].addr)
      /\ written \in [Addresses -> 0 .. num_retired]
      /\ \A a \in Addresses : \A n \in 1 .. Len(SQ) : written[a] <= SQ[n].id
  BY <1>1 DEF StoreOrder
<1>5. \A a \in Addresses : written'[a] = IF a = SQ[1].addr THEN SQ[1].id ELSE written[a]
  BY <1>0, <1>1, <1>4
<1>6. written' \in [Addresses -> 0 .. num_retired]
  BY <1>0, <1>1, <1>4
<1>7. \A m, n \in DOMAIN SQ' : m < n => SQ'[m].id <= SQ'[n].id
  <2>. SUFFICES ASSUME NEW m \in 1 .. Len(SQ) - 1, NEW n \in 1 .. Len(SQ) - 1, m < n
                PROVE  SQ[m + 1].id <= SQ[n + 1].id
    BY <1>0, <1>3
  <2>1. m + 1 \in 1 .. Len(SQ) /\ n + 1 \in 1 .. Len(SQ) /\ m + 1 < n + 1
    BY <1>1
  <2>. QED BY <1>4, <2>1
<1>8. \A n \in DOMAIN SQ' : StoresAt(SQ'[n].id, SQ'[n].addr)
  BY <1>3, <1>4
<1>9. ASSUME NEW a \in Addresses, written'[a] # 0 PROVE StoresAt(written'[a], a)
  BY <1>0, <1>4, <1>5, <1>9 DEF StoreOrder
<1>10. \A n \in 1 .. Len(SQ) : SQ[1].id <= SQ[n].id
  <2>. SUFFICES ASSUME NEW n \in 1 .. Len(SQ) PROVE SQ[1].id <= SQ[n].id
    OBVIOUS
  <2>1. n = 1 \/ 1 < n
    BY <1>1
  <2>. QED BY <1>0, <1>1, <1>4, <2>1
<1>11. \A a \in Addresses : \A n \in DOMAIN SQ' : written'[a] <= SQ'[n].id
  BY <1>3, <1>4, <1>5, <1>10
<1>12. ASSUME NEW j \in 1 .. dispatched, NEW a \in Addresses, StoresAt(j, a)
       PROVE  \/ \E n \in DOMAIN SQ' : SQ'[n].id = j /\ SQ'[n].addr = a
              \/ j <= written'[a]
  <2>1. CASE \E n \in 1 .. Len(SQ) : SQ[n].id = j /\ SQ[n].addr = a
    <3>1. PICK n \in 1 .. Len(SQ) : SQ[n].id = j /\ SQ[n].addr = a
      BY <2>1
    <3>2. CASE n = 1
      BY <1>5, <3>1, <3>2
    <3>3. CASE n # 1
      <4>1. n - 1 \in DOMAIN SQ' /\ n - 1 \in 1 .. Len(SQ) - 1 /\ (n - 1) + 1 = n
        BY <1>0, <1>1, <3>3
      <4>2. SQ'[n - 1] = SQ[n]
        BY <1>0, <4>1
      <4>. QED BY <3>1, <4>1, <4>2
    <3>. QED BY <3>2, <3>3
  <2>2. CASE j <= written[a]
    <3>1. written[a] <= SQ[1].id /\ written[a] \in Nat
      BY <1>0, <1>1, <1>4
    <3>2. written[a] <= written'[a] /\ written'[a] \in Nat
      BY <1>0, <1>1, <1>5, <3>1
    <3>. QED BY <2>2, <3>1, <3>2
  <2>. QED BY <1>1, <1>12, <2>1, <2>2 DEF StoreOrder
<1>. QED BY <1>0, <1>2, <1>6, <1>7, <1>8, <1>9, <1>11, <1>12 DEF StoreOrder

\* What becomes of the queues when a store finishes.
LEMMA StoreFinishes ==
    ASSUME Positions, Operations, Cpu!FinishStore
    PROVE  /\ DOMAIN SQ' = DOMAIN SQ
           /\ \A n \in DOMAIN SQ : SQ'[n].id = SQ[n].id /\ SQ'[n].addr = SQ[n].addr
           /\ \E n \in 1 .. Len(SQ) :
                 /\ LQ' = LQ \ {e \in LQ : e.producer = SQ[n].id /\ e.addr = SQ[n].addr}
                 /\ seen' = seen \cup {<<e.id, e.op, SQ[n].id>> :
                       e \in {f \in LQ : f.producer = SQ[n].id /\ f.addr = SQ[n].addr}}
<1>. DEFINE open == {n \in 1 .. Len(SQ) : ~SQ[n].finished}
            first == CHOOSE n \in open : \A m \in open : n <= m
            released(n) == {e \in LQ : e.producer = SQ[n].id /\ e.addr = SQ[n].addr}
<1>1. /\ open # {}
      /\ SQ' = [SQ EXCEPT ![first].finished = TRUE]
      /\ LQ' = LQ \ released(first)
      /\ seen' = seen \cup {<<e.id, e.op, SQ[first].id>> : e \in released(first)}
  BY DEF Cpu!FinishStore, Cpu!Kept
<1>2. first \in open
  <2>1. open \in SUBSET Nat
    OBVIOUS
  <2>. HIDE DEF open
  <2>. QED BY <1>1, <2>1, LeastFound
<1>3. PICK n \in 1 .. Len(SQ) : n = first
  BY <1>2
<1>4. /\ SQ' = [SQ EXCEPT ![n].finished = TRUE]
      /\ LQ' = LQ \ released(n)
      /\ seen' = seen \cup {<<e.id, e.op, SQ[n].id>> : e \in released(n)}
  BY <1>1, <1>3
<1>. HIDE DEF open, first
<1>5. /\ DOMAIN SQ = 1 .. Len(SQ)
      /\ \A m \in 1 .. Len(SQ) : SQ[m] \in [id : 1 .. dispatched, addr : Addresses, finished : BOOLEAN]
  BY Queued
<1>6. DOMAIN SQ' = DOMAIN SQ
  BY <1>4
<1>7. \A m \in DOMAIN SQ : SQ'[m].id = SQ[m].id /\ SQ'[m].addr = SQ[m].addr
  BY <1>4, <1>5
<1>. QED BY <1>4, <1>6, <1>7

LEMMA StoreOrderKept == ASSUME Positions, Operations, StoreOrder, Cpu!Next PROVE StoreOrder'
<1>0. num_retired \in Nat
  BY DEF Positions
<1>1. CASE Cpu!DispatchInstruction
  BY <1>1, Dispatching, DispatchKeepsStoreOrder
<1>2. CASE Cpu!CompleteStore
  BY <1>2, CompleteKeepsStoreOrder
<1>3. CASE Cpu!FinishStore
  <2>1. /\ DOMAIN SQ' = DOMAIN SQ
        /\ \A n \in DOMAIN SQ : SQ'[n].id = SQ[n].id /\ SQ'[n].addr = SQ[n].addr
    BY <1>3, StoreFinishes
  <2>2. UNCHANGED <<program, dispatched, num_retired, written>>
    BY <1>3 DEF Cpu!FinishStore
  <2>. QED BY <1>0, <2>1, <2>2, StoreOrderUntouched
<1>4. CASE Cpu!RetireRob
  <2>1. num_retired' = num_retired + 1 /\ UNCHANGED <<program, dispatched, written, SQ>>
    BY <1>4 DEF Cpu!RetireRob, Cpu!memoryVars
  <2>. QED BY <1>0, <2>1, StoreOrderUntouched
<1>5. CASE \/ Cpu!InitializeInstruction \/ Cpu!CheckDib \/ Cpu!FetchInstruction \/ Cpu!FetchReturn
           \/ Cpu!PromoteToDecode \/ Cpu!DecodeInstruction \/ Cpu!ScheduleInstruction
           \/ Cpu!ExecuteInstruction \/ Cpu!CompleteInflightInstruction
           \/ Cpu!ExecuteLoad \/ Cpu!LoadReturn
  <2>1. UNCHANGED <<program, dispatched, num_retired, written, SQ>>
    BY <1>5 DEF Cpu!InitializeInstruction, Cpu!CheckDib, Cpu!FetchInstruction, Cpu!FetchReturn,
                Cpu!PromoteToDecode, Cpu!DecodeInstruction, Cpu!ScheduleInstruction,
                Cpu!ExecuteInstruction, Cpu!CompleteInflightInstruction, Cpu!ExecuteLoad,
                Cpu!LoadReturn, Cpu!memoryVars
  <2>. QED BY <1>0, <2>1, StoreOrderUntouched
<1>. QED BY <1>1, <1>2, <1>3, <1>4, <1>5 DEF Cpu!Next

\* The last store before an instruction is the one that no other comes after.
LEMMA LastStoreIs ==
    ASSUME Positions, NEW i \in Cpu!Id, NEW a, NEW j \in 0 .. i - 1,
           j # 0 => StoresAt(j, a),
           \A k \in 1 .. i - 1 : StoresAt(k, a) => k <= j
    PROVE  Cpu!LastStore(i, a) = j
<1>. DEFINE stores == {k \in 1 .. i - 1 : a \in Cpu!Range(program[k].stores)}
            last == CHOOSE k \in stores : \A l \in stores : l <= k
<1>0. Cpu!Id = 1 .. Len(program) /\ Len(program) \in Nat
  BY ProgramParts DEF Positions
<1>1. Cpu!LastStore(i, a) = IF stores = {} THEN 0 ELSE last
  BY DEF Cpu!LastStore
<1>2. \A k : a \in Cpu!Range(program[k].stores) <=> StoresAt(k, a)
  BY SameRange DEF StoresAt
<1>3. CASE stores = {}
  <2>1. j = 0
    BY <1>0, <1>2, <1>3
  <2>. QED BY <1>1, <1>3, <2>1
<1>4. CASE stores # {}
  <2>1. stores \in SUBSET (0 .. Len(program))
    BY <1>0
  <2>2. last \in stores /\ \A k \in stores : k <= last
    BY <1>0, <1>4, <2>1, GreatestFound
  <2>3. last \in 1 .. i - 1 /\ StoresAt(last, a)
    BY <1>2, <2>2
  <2>4. last <= j
    BY <2>3
  <2>5. j \in stores
    BY <1>0, <1>2, <2>3, <2>4
  <2>6. j <= last
    BY <2>2, <2>5
  <2>7. last = j
    <3>. HIDE DEF last
    <3>. QED BY <1>0, <2>3, <2>4, <2>6
  <2>. QED BY <1>1, <1>4, <2>7
<1>. QED BY <1>3, <1>4

\* The store that a load takes when it is dispatched is the last before it, and
\* if there is none in the queue, the L1D has that one.
LEMMA LastStoreTaken ==
    ASSUME Positions, Operations, StoreOrder, NEW i \in Cpu!Id, i = dispatched + 1,
           NEW a \in Addresses
    PROVE  IF Cpu!StoresTo(a) = {} THEN written[a] = Cpu!LastStore(i, a)
           ELSE Cpu!Youngest(a).id = Cpu!LastStore(i, a)
<1>0. dispatched \in Nat /\ num_retired \in Nat /\ num_retired <= dispatched
  BY DEF Positions
<1>1. /\ DOMAIN SQ = 1 .. Len(SQ) /\ Len(SQ) \in Nat
      /\ \A n \in 1 .. Len(SQ) : SQ[n].id \in 1 .. dispatched
  BY Queued
<1>2. written[a] \in 0 .. num_retired
  BY DEF StoreOrder
<1>3. CASE Cpu!StoresTo(a) = {}
  <2>1. PICK j \in 0 .. i - 1 : j = written[a]
    BY <1>0, <1>2
  <2>2. j # 0 => StoresAt(j, a)
    BY <2>1 DEF StoreOrder
  <2>3. ASSUME NEW k \in 1 .. i - 1, StoresAt(k, a) PROVE k <= j
    <3>1. k \in 1 .. dispatched
      BY <1>0
    <3>2. ~\E n \in DOMAIN SQ : SQ[n].id = k /\ SQ[n].addr = a
      BY <1>1, <1>3 DEF Cpu!StoresTo
    <3>. QED BY <2>1, <2>3, <3>1, <3>2 DEF StoreOrder
  <2>4. Cpu!LastStore(i, a) = j
    BY <2>2, <2>3, LastStoreIs
  <2>. QED BY <1>3, <2>1, <2>4
<1>4. CASE Cpu!StoresTo(a) # {}
  <2>1. PICK n \in Cpu!StoresTo(a) : /\ Cpu!Youngest(a) = SQ[n]
                                     /\ \A m \in Cpu!StoresTo(a) : SQ[m].id <= SQ[n].id
    BY <1>4, YoungestFound
  <2>2. n \in 1 .. Len(SQ) /\ SQ[n].addr = a
    BY DEF Cpu!StoresTo
  <2>3. PICK j \in 0 .. i - 1 : j = SQ[n].id
    BY <1>0, <1>1, <2>2
  <2>4. StoresAt(j, a)
    BY <1>1, <2>2, <2>3 DEF StoreOrder
  <2>5. ASSUME NEW k \in 1 .. i - 1, StoresAt(k, a) PROVE k <= j
    <3>1. k \in 1 .. dispatched
      BY <1>0
    <3>2. CASE \E m \in 1 .. Len(SQ) : SQ[m].id = k /\ SQ[m].addr = a
      <4>1. PICK m \in 1 .. Len(SQ) : SQ[m].id = k /\ SQ[m].addr = a
        BY <3>2
      <4>2. m \in Cpu!StoresTo(a)
        BY <4>1 DEF Cpu!StoresTo
      <4>. QED BY <2>1, <2>3, <4>1, <4>2
    <3>3. CASE k <= written[a]
      <4>1. written[a] <= j
        BY <1>1, <2>2, <2>3 DEF StoreOrder
      <4>. QED BY <1>0, <1>2, <3>3, <4>1
    <3>. QED BY <1>1, <2>5, <3>1, <3>2, <3>3 DEF StoreOrder
  <2>6. Cpu!LastStore(i, a) = j
    BY <2>4, <2>5, LastStoreIs
  <2>. QED BY <1>4, <2>1, <2>3, <2>6
<1>. QED BY <1>3, <1>4

LEMMA LoadOrderStart == Cpu!Init => LoadOrder
BY DEF Cpu!Init, Cpu!Empty, LoadOrder, Cpu!LoadsSeeStores

LEMMA ProgramStays ==
    ASSUME program' = program
    PROVE  /\ \A i, a : Cpu!LastStore(i, a)' = Cpu!LastStore(i, a)
           /\ Cpu!LoadsSeeStores' <=>
                 \A s \in seen' : s[3] = Cpu!LastStore(s[1], program[s[1]].loads[s[2]])
BY DEF Cpu!LastStore, Cpu!LoadsSeeStores, Cpu!Range

\* Loads leave the queue, and stores finish.
LEMMA LoadOrderUntouched ==
    ASSUME LoadOrder, Cpu!LoadsSeeStores',
           UNCHANGED <<program, written>>, LQ' \subseteq LQ,
           DOMAIN SQ' = DOMAIN SQ,
           \A n \in DOMAIN SQ : SQ'[n].id = SQ[n].id /\ SQ'[n].addr = SQ[n].addr
    PROVE  LoadOrder'
<1>1. \A i, a : Cpu!LastStore(i, a)' = Cpu!LastStore(i, a)
  BY ProgramStays
<1>. QED BY <1>1 DEF LoadOrder

LEMMA DispatchKeepsLoadOrder ==
    ASSUME Positions, Operations, StoreOrder, LoadOrder, NEW i \in Cpu!Id, Dispatches(i)
    PROVE  LoadOrder'
<1>0. /\ dispatched \in Nat /\ i = dispatched + 1
      /\ LQ' = LQ \cup Entering(i)
      /\ seen' = seen \cup {<<i, k, Cpu!Youngest(program[i].loads[k]).id>> : k \in Cpu!Forwarded(i)}
      /\ UNCHANGED <<program, written>>
  BY DEF Positions, Dispatches
<1>1. /\ \A j, a : Cpu!LastStore(j, a)' = Cpu!LastStore(j, a)
      /\ Cpu!LoadsSeeStores' <=>
            \A s \in seen' : s[3] = Cpu!LastStore(s[1], program[s[1]].loads[s[2]])
  BY <1>0, ProgramStays
<1>2. /\ DOMAIN SQ = 1 .. Len(SQ) /\ Len(SQ) \in Nat
      /\ \A n \in 1 .. Len(SQ) : SQ[n].id \in 1 .. dispatched
  BY Queued
<1>3. /\ DOMAIN SQ' = 1 .. Len(SQ')
      /\ \A n \in 1 .. Len(SQ) : SQ'[n] = SQ[n]
      /\ \A n \in Len(SQ) + 1 .. Len(SQ') : SQ'[n].id = i
      /\ Len(SQ') \in Nat
  <2>1. \A n : Cpu!StoreEntry(i, n).id = i
    BY DEF Cpu!StoreEntry
  <2>2. Len(SQ') \in Nat
    BY DEF Dispatches
  <2>. QED BY <2>1, <2>2 DEF Dispatches
<1>4. \A n \in DOMAIN SQ' : n \in 1 .. Len(SQ) \/ n \in Len(SQ) + 1 .. Len(SQ')
  BY <1>2, <1>3
<1>5. /\ \A e \in LQ : e.id \in 1 .. dispatched
      /\ \A k \in DOMAIN program[i].loads : program[i].loads[k] \in Addresses
  BY ProgramParts, ElementOfSeq, LenProperties DEF Operations, Positions
<1>6. ASSUME NEW e \in Entering(i)
      PROVE  /\ e.op \in DOMAIN program[e.id].loads
             /\ e.addr = program[e.id].loads[e.op] /\ e.addr \in Addresses
             /\ e.id = i
             /\ e.producer = IF Cpu!StoresTo(e.addr) = {} THEN 0 ELSE Cpu!Youngest(e.addr).id
  <2>1. PICK k \in DOMAIN program[i].loads : e = Cpu!LoadEntry(i, k)
    BY DEF Entering
  <2>. QED BY <1>5, <2>1 DEF Cpu!LoadEntry
<1>7. \A e \in Entering(i) :
         IF Cpu!StoresTo(e.addr) = {} THEN written[e.addr] = Cpu!LastStore(i, e.addr)
         ELSE Cpu!Youngest(e.addr).id = Cpu!LastStore(i, e.addr)
  BY <1>0, <1>6, LastStoreTaken
<1>8. ASSUME NEW e \in LQ'
      PROVE  /\ e.op \in DOMAIN program[e.id].loads
             /\ e.addr = program[e.id].loads[e.op]
             /\ e.producer # 0 => e.producer = Cpu!LastStore(e.id, e.addr)
  BY <1>0, <1>6, <1>7 DEF LoadOrder
<1>9. ASSUME NEW e \in LQ', e.producer = 0, ~e.issued
      PROVE  /\ written[e.addr] = Cpu!LastStore(e.id, e.addr)
             /\ \A n \in DOMAIN SQ' : SQ'[n].addr = e.addr => e.id <= SQ'[n].id
  <2>1. CASE e \in LQ
    <3>1. /\ written[e.addr] = Cpu!LastStore(e.id, e.addr)
          /\ \A n \in 1 .. Len(SQ) : SQ[n].addr = e.addr => e.id <= SQ[n].id
      BY <1>2, <1>9, <2>1 DEF LoadOrder
    <3>2. \A n \in Len(SQ) + 1 .. Len(SQ') : e.id <= SQ'[n].id
      BY <1>0, <1>3, <1>5, <2>1
    <3>. QED BY <1>3, <1>4, <3>1, <3>2
  <2>2. CASE e \in Entering(i)
    <3>1. Cpu!StoresTo(e.addr) = {}
      <4>1. ASSUME Cpu!StoresTo(e.addr) # {} PROVE FALSE
        <5>1. PICK n \in Cpu!StoresTo(e.addr) : Cpu!Youngest(e.addr) = SQ[n]
          BY <4>1, YoungestFound
        <5>2. SQ[n].id \in 1 .. dispatched
          BY <1>2 DEF Cpu!StoresTo
        <5>3. e.producer = SQ[n].id
          BY <1>6, <2>2, <4>1, <5>1
        <5>. QED BY <1>0, <1>9, <5>2, <5>3
      <4>. QED BY <4>1
    <3>2. written[e.addr] = Cpu!LastStore(e.id, e.addr)
      BY <1>6, <1>7, <2>2, <3>1
    <3>3. \A n \in 1 .. Len(SQ) : SQ[n].addr # e.addr
      BY <3>1 DEF Cpu!StoresTo
    <3>4. \A n \in Len(SQ) + 1 .. Len(SQ') : e.id <= SQ'[n].id
      <4>1. e.id = i
        BY <1>6, <2>2
      <4>. QED BY <1>0, <1>3, <4>1
    <3>. QED BY <1>3, <1>4, <3>2, <3>3, <3>4
  <2>. QED BY <1>0, <1>9, <2>1, <2>2
<1>10. ASSUME NEW s \in seen'
       PROVE  s[3] = Cpu!LastStore(s[1], program[s[1]].loads[s[2]])
  <2>1. CASE s \in seen
    BY <2>1 DEF LoadOrder, Cpu!LoadsSeeStores
  <2>2. CASE s \notin seen
    <3>1. PICK k \in Cpu!Forwarded(i) : s = <<i, k, Cpu!Youngest(program[i].loads[k]).id>>
      BY <1>0, <1>10, <2>2
    <3>2. program[i].loads[k] \in Addresses /\ Cpu!StoresTo(program[i].loads[k]) # {}
      BY <1>5 DEF Cpu!Forwarded
    <3>3. Cpu!Youngest(program[i].loads[k]).id = Cpu!LastStore(i, program[i].loads[k])
      BY <1>0, <3>2, LastStoreTaken
    <3>. QED BY <3>1, <3>3
  <2>. QED BY <2>1, <2>2
<1>. QED BY <1>0, <1>1, <1>8, <1>9, <1>10 DEF LoadOrder

\* The store that the L1D takes has retired, so that no load before it waits
\* for what it had before.
LEMMA CompleteKeepsLoadOrder ==
    ASSUME Positions, Operations, LoadOrder, Cpu!CompleteStore
    PROVE  LoadOrder'
<1>0. /\ 1 \in 1 .. Len(SQ) /\ SQ[1].id <= num_retired
      /\ DOMAIN SQ' = 1 .. Len(SQ) - 1
      /\ \A n \in 1 .. Len(SQ) - 1 : SQ'[n] = SQ[n + 1]
      /\ written' = [written EXCEPT ![SQ[1].addr] = SQ[1].id]
      /\ UNCHANGED <<program, LQ, seen>>
  BY StoreCompletes
<1>1. /\ DOMAIN SQ = 1 .. Len(SQ) /\ Len(SQ) \in Nat
      /\ \A n \in 1 .. Len(SQ) : SQ[n].id \in 1 .. dispatched
      /\ num_retired \in Nat /\ num_retired <= dispatched /\ dispatched \in Nat
  BY Queued DEF Positions
<1>2. /\ \A i, a : Cpu!LastStore(i, a)' = Cpu!LastStore(i, a)
      /\ Cpu!LoadsSeeStores' <=> Cpu!LoadsSeeStores
  BY <1>0, ProgramStays DEF Cpu!LoadsSeeStores
<1>3. \A e \in LQ : e.id > num_retired
  <2>. SUFFICES ASSUME NEW e \in LQ, ~(e.id > num_retired) PROVE FALSE
    OBVIOUS
  <2>1. e.id \in 1 .. dispatched
    BY DEF Operations
  <2>2. e.id \in Cpu!Id /\ e.id \in 1 .. num_retired
    BY <1>1, <2>1, ProgramParts DEF Positions
  <2>3. LoadsOf(e.id) = {}
    BY <2>2, CompletedEmpty DEF Positions
  <2>. QED BY <2>3 DEF LoadsOf
<1>4. ASSUME NEW e \in LQ, e.producer = 0, ~e.issued
      PROVE  /\ written'[e.addr] = Cpu!LastStore(e.id, e.addr)
             /\ \A n \in DOMAIN SQ' : SQ'[n].addr = e.addr => e.id <= SQ'[n].id
  <2>1. /\ written[e.addr] = Cpu!LastStore(e.id, e.addr)
        /\ \A n \in 1 .. Len(SQ) : SQ[n].addr = e.addr => e.id <= SQ[n].id
    BY <1>1, <1>4 DEF LoadOrder
  <2>2. e.id > num_retired /\ e.id \in 1 .. dispatched
    BY <1>3 DEF Operations
  <2>3. SQ[1].addr # e.addr
    BY <1>0, <1>1, <2>1, <2>2
  <2>4. written'[e.addr] = written[e.addr]
    BY <1>0, <2>3
  <2>5. \A n \in DOMAIN SQ' : n + 1 \in 1 .. Len(SQ) /\ SQ'[n] = SQ[n + 1]
    BY <1>0, <1>1
  <2>. QED BY <2>1, <2>4, <2>5
<1>. QED BY <1>0, <1>2, <1>4 DEF LoadOrder

LEMMA FinishKeepsLoadOrder ==
    ASSUME Positions, Operations, LoadOrder, Cpu!FinishStore
    PROVE  LoadOrder'
<1>0. /\ DOMAIN SQ' = DOMAIN SQ
      /\ \A n \in DOMAIN SQ : SQ'[n].id = SQ[n].id /\ SQ'[n].addr = SQ[n].addr
      /\ UNCHANGED <<program, written>>
  BY StoreFinishes DEF Cpu!FinishStore
<1>1. PICK n \in 1 .. Len(SQ) :
         /\ LQ' = LQ \ {e \in LQ : e.producer = SQ[n].id /\ e.addr = SQ[n].addr}
         /\ seen' = seen \cup {<<e.id, e.op, SQ[n].id>> :
               e \in {f \in LQ : f.producer = SQ[n].id /\ f.addr = SQ[n].addr}}
  BY StoreFinishes
<1>2. SQ[n].id \in 1 .. dispatched /\ dispatched \in Nat
  BY Queued DEF Positions
<1>3. ASSUME NEW s \in seen'
      PROVE  s[3] = Cpu!LastStore(s[1], program[s[1]].loads[s[2]])
  <2>1. CASE s \in seen
    BY <2>1 DEF LoadOrder, Cpu!LoadsSeeStores
  <2>2. CASE s \notin seen
    <3>1. PICK e \in LQ : e.producer = SQ[n].id /\ s = <<e.id, e.op, SQ[n].id>>
      BY <1>1, <1>3, <2>2
    <3>2. e.producer # 0
      BY <1>2, <3>1
    <3>3. e.producer = Cpu!LastStore(e.id, e.addr) /\ e.addr = program[e.id].loads[e.op]
      BY <3>2 DEF LoadOrder
    <3>. QED BY <3>1, <3>3
  <2>. QED BY <2>1, <2>2
<1>4. Cpu!LoadsSeeStores'
  BY <1>0, <1>3, ProgramStays
<1>. QED BY <1>0, <1>1, <1>4, LoadOrderUntouched

LEMMA ExecuteLoadKeepsLoadOrder ==
    ASSUME Operations, LoadOrder, Cpu!ExecuteLoad
    PROVE  LoadOrder'
<1>1. PICK e \in LQ :
         /\ e.producer = 0 /\ ~e.issued
         /\ LQ' = (LQ \ {e}) \cup {[e EXCEPT !.issued = TRUE]}
         /\ seen' = seen \cup {<<e.id, e.op, written[e.addr]>>}
         /\ UNCHANGED <<program, SQ, written>>
  BY DEF Cpu!ExecuteLoad
<1>2. PICK f : f = [e EXCEPT !.issued = TRUE]
  OBVIOUS
<1>3. f.id = e.id /\ f.op = e.op /\ f.addr = e.addr /\ f.producer = 0 /\ f.issued
  BY <1>1, <1>2 DEF Operations
<1>4. /\ \A i, a : Cpu!LastStore(i, a)' = Cpu!LastStore(i, a)
      /\ Cpu!LoadsSeeStores' <=>
            \A s \in seen' : s[3] = Cpu!LastStore(s[1], program[s[1]].loads[s[2]])
  BY <1>1, ProgramStays
<1>5. ASSUME NEW s \in seen'
      PROVE  s[3] = Cpu!LastStore(s[1], program[s[1]].loads[s[2]])
  <2>1. CASE s \in seen
    BY <2>1 DEF LoadOrder, Cpu!LoadsSeeStores
  <2>2. CASE s = <<e.id, e.op, written[e.addr]>>
    <3>1. /\ written[e.addr] = Cpu!LastStore(e.id, e.addr)
          /\ e.addr = program[e.id].loads[e.op]
      BY <1>1 DEF LoadOrder
    <3>. QED BY <2>2, <3>1
  <2>. QED BY <1>1, <1>5, <2>1, <2>2
<1>6. LQ' = (LQ \ {e}) \cup {f}
  BY <1>1, <1>2
<1>7. ASSUME NEW g \in LQ'
      PROVE  /\ g.op \in DOMAIN program[g.id].loads
             /\ g.addr = program[g.id].loads[g.op]
             /\ g.producer # 0 => g.producer = Cpu!LastStore(g.id, g.addr)
             /\ g.producer = 0 /\ ~g.issued => g \in LQ
  BY <1>3, <1>6 DEF LoadOrder
<1>. QED BY <1>1, <1>4, <1>5, <1>7 DEF LoadOrder

LEMMA LoadOrderKept ==
    ASSUME Positions, Operations, StoreOrder, LoadOrder, Cpu!Next
    PROVE  LoadOrder'
<1>1. CASE Cpu!DispatchInstruction
  BY <1>1, Dispatching, DispatchKeepsLoadOrder
<1>2. CASE Cpu!CompleteStore
  BY <1>2, CompleteKeepsLoadOrder
<1>3. CASE Cpu!FinishStore
  BY <1>3, FinishKeepsLoadOrder
<1>4. CASE Cpu!ExecuteLoad
  BY <1>4, ExecuteLoadKeepsLoadOrder
<1>5. CASE \/ Cpu!InitializeInstruction \/ Cpu!CheckDib \/ Cpu!FetchInstruction \/ Cpu!FetchReturn
           \/ Cpu!PromoteToDecode \/ Cpu!DecodeInstruction \/ Cpu!ScheduleInstruction
           \/ Cpu!ExecuteInstruction \/ Cpu!CompleteInflightInstruction \/ Cpu!RetireRob
           \/ Cpu!LoadReturn
  <2>1. UNCHANGED <<program, written, SQ, seen>> /\ LQ' \subseteq LQ
    BY <1>5 DEF Cpu!InitializeInstruction, Cpu!CheckDib, Cpu!FetchInstruction, Cpu!FetchReturn,
                Cpu!PromoteToDecode, Cpu!DecodeInstruction, Cpu!ScheduleInstruction,
                Cpu!ExecuteInstruction, Cpu!CompleteInflightInstruction, Cpu!RetireRob,
                Cpu!LoadReturn, Cpu!memoryVars
  <2>2. Cpu!LoadsSeeStores'
    BY <2>1, ProgramStays DEF LoadOrder, Cpu!LoadsSeeStores
  <2>. QED BY <2>1, <2>2, LoadOrderUntouched
<1>. QED BY <1>1, <1>2, <1>3, <1>4, <1>5 DEF Cpu!Next
-----------------------------------------------------------------------------
(* The core at work, as a part *)

CoreInv == Positions /\ Branches /\ Dependences /\ Operations /\ StoreOrder /\ LoadOrder

LEMMA CoreKeeps == (part = "core" => CoreInv) /\ [SumNext]_allVars => (part = "core" => CoreInv)'
<1>. SUFFICES ASSUME part = "core" => CoreInv, [SumNext]_allVars, part' = "core"
              PROVE  CoreInv'
  OBVIOUS
<1>1. part = "core" /\ CoreInv
  BY DEF SumNext, allVars
<1>2. CASE Cpu!Next
  BY <1>1, <1>2, PositionsKept, BranchesKept, DependencesKept, OperationsKept, StoreOrderKept,
     LoadOrderKept DEF CoreInv
<1>3. CASE UNCHANGED cpuVars
  <2>1. Cpu!Id' = Cpu!Id /\ UNCHANGED <<program, executed, Cpu!registerVars>>
    BY <1>3 DEF cpuVars, Cpu!Id, Cpu!registerVars
  <2>2. Positions' /\ Branches'
    BY <1>1, <1>3, <2>1 DEF CoreInv, cpuVars, Positions, Branches
  <2>3. Dependences'
    BY <1>1, <2>1, DependencesUntouched DEF CoreInv
  <2>4. Operations'
    BY <1>1, <1>3, ExecutionKeepsOperations DEF CoreInv, cpuVars, Operations
  <2>5. StoreOrder'
    BY <1>1, <1>3, StoreOrderUntouched DEF CoreInv, cpuVars, Positions
  <2>6. LoadOrder'
    <3>1. Cpu!LoadsSeeStores'
      BY <1>1, <1>3, ProgramStays DEF CoreInv, cpuVars, LoadOrder, Cpu!LoadsSeeStores
    <3>. QED BY <1>1, <1>3, <3>1, LoadOrderUntouched DEF CoreInv, cpuVars
  <2>. QED BY <2>2, <2>3, <2>4, <2>5, <2>6 DEF CoreInv
<1>. QED BY <1>1, <1>2, <1>3 DEF SumNext, allVars

\* In every state of the core instructions, registers, branches and the memory
\* operations are as CoreInv says, whatever the programs, the number of
\* registers and the sizes of the buffers are (O3_CPU::operate()).
THEOREM CoreInvariant == SumSpec => [](part = "core" => CoreInv)
<1>1. SumInit => (part = "core" => CoreInv)
  BY PositionsStart, BranchesStart, DependencesStart, OperationsStart, StoreOrderStart,
     LoadOrderStart DEF SumInit, CoreInv
<1>. QED BY <1>1, CoreKeeps, PTL DEF SumSpec

\* While fetching is stopped exactly one branch on its way will resume it, and
\* while it is not, none: fetch_resume_cycle is only set by decode_instruction()
\* and do_complete_execution() for the branch that cleared it.
THEOREM FetchAlwaysResumes == SumSpec => []FetchResumes
<1>1. (part = "core" => CoreInv) => FetchResumes
  BY AwaitedBranch DEF CoreInv, FetchResumes
<1>. QED BY <1>1, CoreInvariant, PTL

\* No instruction executes before the last writer of each of its sources has
\* completed, though writers leave reg_producers in any order
\* (do_scheduling(), do_complete_execution()).
THEOREM SourcesAlwaysReady == SumSpec => []OperandsReady
<1>1. (part = "core" => CoreInv) => OperandsReady
  BY SourcesReady DEF CoreInv, OperandsReady
<1>. QED BY <1>1, CoreInvariant, PTL

\* No load or store is finished twice or forgotten: what completed_mem_ops does
\* not count is in LQ or unfinished in SQ (LSQ_ENTRY::finish(), do_finish_store(),
\* handle_memory_return()).
THEOREM OperationsAlwaysCounted == SumSpec => []MemoryOpsCounted
<1>1. (part = "core" => CoreInv) => MemoryOpsCounted
  BY AllCounted DEF CoreInv, MemoryOpsCounted
<1>. QED BY <1>1, CoreInvariant, PTL

\* Every load is served from the last store before it in the program to its
\* address: forwarded, released or read from the L1D (do_memory_scheduling(),
\* do_finish_store(), execute_load()).
THEOREM LoadsAlwaysSeeStores == SumSpec => []LoadsSeeStores
<1>1. (part = "core" => CoreInv) => LoadsSeeStores
  BY DEF CoreInv, LoadOrder, LoadsSeeStores
<1>. QED BY <1>1, CoreInvariant, PTL
-----------------------------------------------------------------------------
(* MemPod: folds *)

\* What a fold computes is defined for every subset of what it runs through: step
\* gives the value of a set from an element of it and the value of the others.
FoldArguments(D, S, base, step, pick) ==
    /\ IsFiniteSet(D) /\ base \in S /\ step \in [D \X S -> S]
    /\ pick \in [(SUBSET D) \ {{}} -> D] /\ \A s \in (SUBSET D) \ {{}} : pick[s] \in s

FoldOf(D, S, base, step, pick, iter) ==
    /\ iter \in [SUBSET D -> S] /\ iter[{}] = base
    /\ \A s \in (SUBSET D) \ {{}} : iter[s] = step[<<pick[s], iter[s \ {pick[s]}]>>]

LEMMA FoldExists ==
    ASSUME NEW D, NEW S, NEW base, NEW step, NEW pick, FoldArguments(D, S, base, step, pick)
    PROVE  \E iter : FoldOf(D, S, base, step, pick, iter)
<1>. USE DEF FoldArguments
<1>. DEFINE F == [SUBSET D -> S]
            after(h) == [s \in SUBSET D |->
                            IF s = {} THEN base ELSE step[<<pick[s], h[s \ {pick[s]}]>>]]
            small(k) == {s \in SUBSET D : Cardinality(s) <= k}
            exact(h, k) == /\ h \in F
                           /\ \A s \in small(k) : h[s] = after(h)[s]
            bad == {k \in Nat : ~\E h \in F : exact(h, k)}
<1>1. \A s \in SUBSET D : IsFiniteSet(s) /\ Cardinality(s) \in Nat
  BY FS_Subset, FS_CardinalityType
<1>2. ASSUME NEW h \in F PROVE after(h) \in F
  <2>1. ASSUME NEW s \in SUBSET D, s # {} PROVE step[<<pick[s], h[s \ {pick[s]}]>>] \in S
    <3>1. s \ {pick[s]} \in SUBSET D /\ pick[s] \in D
      BY <2>1
    <3>2. <<pick[s], h[s \ {pick[s]}]>> \in D \X S
      BY <3>1
    <3>. QED BY <3>2
  <2>. QED BY <2>1
<1>3. ASSUME NEW s \in SUBSET D, s # {}, NEW k \in Nat, Cardinality(s) <= k + 1
      PROVE  s \ {pick[s]} \in small(k)
  <2>1. pick[s] \in s /\ s \ {pick[s]} \in SUBSET D
    BY <1>3
  <2>2. Cardinality(s \ {pick[s]}) = Cardinality(s) - 1
    BY <1>1, <2>1, FS_RemoveElement
  <2>. QED BY <1>1, <1>3, <2>1, <2>2
<1>4. 0 \notin bad
  <2>1. PICK h \in F : h = [s \in SUBSET D |-> base]
    OBVIOUS
  <2>2. \A s \in small(0) : s = {}
    BY <1>1, FS_EmptySet
  <2>3. exact(h, 0)
    BY <2>1, <2>2
  <2>. QED BY <2>3
<1>5. ASSUME NEW k \in Nat, k \notin bad PROVE k + 1 \notin bad
  <2>1. PICK h \in F : exact(h, k)
    BY <1>5
  <2>2. PICK g \in F : g = after(h)
    BY <1>2
  <2>3. ASSUME NEW s \in small(k + 1) PROVE g[s] = after(g)[s]
    <3>1. CASE s = {}
      BY <2>2, <3>1
    <3>2. CASE s # {}
      <4>1. s \in SUBSET D /\ s \ {pick[s]} \in small(k)
        BY <1>3, <2>3, <3>2
      <4>2. g[s \ {pick[s]}] = h[s \ {pick[s]}]
        BY <2>1, <2>2, <4>1
      <4>3. g[s] = step[<<pick[s], h[s \ {pick[s]}]>>] /\ after(g)[s] = step[<<pick[s], g[s \ {pick[s]}]>>]
        BY <2>2, <3>2, <4>1
      <4>. QED BY <4>2, <4>3
    <3>. QED BY <3>1, <3>2
  <2>. QED BY <2>3
<1>6. bad = {}
  <2>. SUFFICES ASSUME bad # {} PROVE FALSE
    OBVIOUS
  <2>1. PICK m \in bad : \A k \in bad : m <= k
    <3>1. bad \in SUBSET Nat
      OBVIOUS
    <3>. HIDE DEF bad
    <3>. QED BY <3>1, LeastFound
  <2>2. m \in Nat
    OBVIOUS
  <2>. HIDE DEF bad
  <2>3. m # 0
    BY <1>4
  <2>4. m - 1 \in Nat /\ m - 1 \notin bad
    BY <2>1, <2>2, <2>3
  <2>5. (m - 1) + 1 \notin bad
    BY <1>5, <2>4
  <2>. QED BY <2>1, <2>2, <2>5
<1>7. Cardinality(D) \in Nat
  BY <1>1
<1>8. PICK h \in F : exact(h, Cardinality(D))
  <2>1. Cardinality(D) \notin bad
    BY <1>6
  <2>. HIDE DEF exact, F
  <2>. QED BY <1>7, <2>1
<1>9. SUBSET D = small(Cardinality(D))
  BY FS_Subset
<1>10. /\ h[{}] = base
       /\ \A s \in (SUBSET D) \ {{}} : h[s] = step[<<pick[s], h[s \ {pick[s]}]>>]
  BY <1>8, <1>9
<1>. QED BY <1>8, <1>10 DEF FoldOf
-----------------------------------------------------------------------------
(* MemPod: the hot segments *)

LEMMA PodSets ==
    /\ \A S : Pod!IsFiniteSet(S) <=> IsFiniteSet(S)
    /\ \A S : Pod!Cardinality(S) = Cardinality(S)
BY DEF Pod!IsFiniteSet, IsFiniteSet, Pod!Cardinality, Cardinality

Parameters ==
    /\ FastSegments \in Nat /\ Segments \in Nat /\ NUMBER_MEA_COUNTER \in Nat
    /\ MEA_COUNTER_MAX_VALUE \in Nat /\ REMAPPING_REQUEST_QUEUE_LENGTH \in Nat
    /\ MaxAccesses \in Nat
    /\ 0 < FastSegments /\ FastSegments < Segments /\ NUMBER_MEA_COUNTER <= FastSegments

LEMMA PodSizes == Parameters
BY PodAssumption DEF Pod!PodParameters, Parameters

LEMMA HotInSlowIs ==
    ASSUME NEW table \in [Pod!Segment -> Pod!Segment], DOMAIN mea_counter_table \subseteq Pod!Segment
    PROVE  LET slow == {s \in DOMAIN mea_counter_table : table[s] >= FastSegments}
               queue == Pod!HotInSlow(table)
           IN  /\ IsFiniteSet(slow) /\ Cardinality(slow) \in Nat
               /\ DOMAIN queue = 1 .. Cardinality(slow)
               /\ \A n \in 1 .. Cardinality(slow) : queue[n] \in slow
               /\ \A n, m \in 1 .. Cardinality(slow) : queue[n] = queue[m] => n = m
<1>. DEFINE slow == {s \in DOMAIN mea_counter_table : table[s] >= FastSegments}
            before(t, s) == table[t] < table[s] \/ (table[t] = table[s] /\ t <= s)
            upTo(s) == {t \in slow : before(t, s)}
            rank == [s \in slow |-> Cardinality(upTo(s))]
            queue == Pod!HotInSlow(table)
<1>0. /\ \A s \in slow : s \in Nat /\ table[s] \in Nat
      /\ slow \in SUBSET Pod!Segment
  BY PodSizes DEF Parameters, Pod!Segment
<1>1. IsFiniteSet(slow) /\ Cardinality(slow) \in Nat
  <2>1. IsFiniteSet(Pod!Segment)
    BY PodSizes, FS_Interval DEF Parameters, Pod!Segment
  <2>. QED BY <1>0, <2>1, FS_Subset, FS_CardinalityType
<1>2. queue = [n \in 1 .. Cardinality(slow) |-> CHOOSE s \in slow : Cardinality(upTo(s)) = n]
  BY DEF Pod!HotInSlow, Pod!Cardinality, Cardinality
<1>3. ASSUME NEW s \in slow
      PROVE  /\ IsFiniteSet(upTo(s)) /\ Cardinality(upTo(s)) \in 1 .. Cardinality(slow)
             /\ s \in upTo(s) /\ upTo(s) \in SUBSET slow
  <2>1. upTo(s) \in SUBSET slow /\ s \in upTo(s)
    BY <1>0
  <2>2. IsFiniteSet(upTo(s)) /\ Cardinality(upTo(s)) <= Cardinality(slow)
    BY <1>1, <2>1, FS_Subset
  <2>3. Cardinality(upTo(s)) \in Nat /\ Cardinality(upTo(s)) # 0
    BY <2>1, <2>2, FS_CardinalityType, FS_EmptySet
  <2>. QED BY <1>1, <2>1, <2>2, <2>3
<1>4. ASSUME NEW s \in slow, NEW t \in slow, Cardinality(upTo(s)) = Cardinality(upTo(t))
      PROVE  s = t
  <2>. SUFFICES ASSUME s # t PROVE FALSE
    OBVIOUS
  <2>1. ASSUME NEW a \in slow, NEW b \in slow, a # b, before(a, b),
               Cardinality(upTo(a)) = Cardinality(upTo(b))
        PROVE  FALSE
    <3>1. upTo(a) \in SUBSET upTo(b)
      BY <1>0, <2>1
    <3>2. b \notin upTo(a)
      BY <1>0, <2>1
    <3>3. upTo(a) = upTo(b)
      <4>. HIDE DEF upTo
      <4>. QED BY <1>3, <2>1, <3>1, FS_Subset
    <3>. QED BY <1>3, <3>2, <3>3
  <2>2. before(s, t) \/ before(t, s)
    BY <1>0
  <2>. HIDE DEF before, upTo
  <2>. QED BY <1>4, <2>1, <2>2
<1>5. \A n \in 1 .. Cardinality(slow) : \E s \in slow : Cardinality(upTo(s)) = n
  <2>. HIDE DEF upTo, slow
  <2>1. rank \in Injection(slow, 1 .. Cardinality(slow))
    BY <1>3, <1>4 DEF Injection, IsInjective
  <2>2. /\ IsFiniteSet(1 .. Cardinality(slow))
        /\ Cardinality(1 .. Cardinality(slow)) = Cardinality(slow)
    BY <1>1, FS_Interval
  <2>3. rank \in Surjection(slow, 1 .. Cardinality(slow))
    BY <1>1, <2>1, <2>2, FS_Injection
  <2>. QED BY <2>3 DEF Surjection
<1>6. ASSUME NEW n \in 1 .. Cardinality(slow)
      PROVE  queue[n] \in slow /\ Cardinality(upTo(queue[n])) = n
  <2>. HIDE DEF upTo, slow, queue
  <2>1. queue[n] = CHOOSE s \in slow : Cardinality(upTo(s)) = n
    BY <1>2
  <2>. QED BY <1>5, <2>1
<1>7. DOMAIN queue = 1 .. Cardinality(slow)
  BY <1>2
<1>. HIDE DEF queue, slow, upTo
<1>8. \A n, m \in 1 .. Cardinality(slow) : queue[n] = queue[m] => n = m
  BY <1>6
<1>. QED BY <1>1, <1>6, <1>7, <1>8 DEF queue, slow
-----------------------------------------------------------------------------
(* Folds from left to right *)

Greatest(s) == CHOOSE x_ \in s : \A y_ \in s : x_ >= y_

LEMMA GreatestIs ==
    ASSUME NEW n \in Nat, NEW s \in SUBSET (1 .. n), s # {}
    PROVE  Greatest(s) \in s /\ \A j \in s : Greatest(s) >= j
<1>1. s \in SUBSET (0 .. n)
  OBVIOUS
<1>2. PICK m \in s : \A k \in s : k <= m
  BY <1>1, GreatestFound
<1>3. \A k \in s : m >= k
  BY <1>1, <1>2
<1>. QED BY <1>3 DEF Greatest

LEMMA UpTo ==
    ASSUME NEW n \in Nat, NEW k \in 1 .. n
    PROVE  /\ 1 .. k \in (SUBSET (1 .. n)) \ {{}} /\ Greatest(1 .. k) = k
           /\ (1 .. k) \ {k} = 1 .. k - 1
<1>1. 1 .. k \in SUBSET (1 .. n) /\ k \in 1 .. k
  OBVIOUS
<1>2. Greatest(1 .. k) \in 1 .. k /\ Greatest(1 .. k) >= k
  BY <1>1, GreatestIs
<1>. QED BY <1>1, <1>2

FoldLeftOf(n, S, base, step, iter) ==
    /\ iter \in [SUBSET (1 .. n) -> S] /\ iter[{}] = base
    /\ \A s \in (SUBSET (1 .. n)) \ {{}} :
          iter[s] = step[<<Greatest(s), iter[s \ {Greatest(s)}]>>]

LEMMA FoldLeftExists ==
    ASSUME NEW n \in Nat, NEW S, NEW base \in S, NEW step \in [(1 .. n) \X S -> S]
    PROVE  \E iter : FoldLeftOf(n, S, base, step, iter)
<1>. DEFINE pick == [s \in (SUBSET (1 .. n)) \ {{}} |-> Greatest(s)]
<1>1. /\ pick \in [(SUBSET (1 .. n)) \ {{}} -> 1 .. n]
      /\ \A s \in (SUBSET (1 .. n)) \ {{}} : pick[s] = Greatest(s) /\ pick[s] \in s
  BY GreatestIs
<1>2. IsFiniteSet(1 .. n)
  BY FS_Interval
<1>. HIDE DEF pick
<1>3. FoldArguments(1 .. n, S, base, step, pick)
  BY <1>1, <1>2 DEF FoldArguments
<1>4. PICK iter : FoldOf(1 .. n, S, base, step, pick, iter)
  BY <1>3, FoldExists
<1>5. ASSUME NEW s \in (SUBSET (1 .. n)) \ {{}}
      PROVE  iter[s] = step[<<Greatest(s), iter[s \ {Greatest(s)}]>>]
  <2>1. iter[s] = step[<<pick[s], iter[s \ {pick[s]}]>>]
    BY <1>4 DEF FoldOf
  <2>2. pick[s] = Greatest(s)
    BY <1>1
  <2>. QED BY <2>1, <2>2
<1>6. iter \in [SUBSET (1 .. n) -> S] /\ iter[{}] = base
  BY <1>4 DEF FoldOf
<1>. QED BY <1>5, <1>6 DEF FoldLeftOf
-----------------------------------------------------------------------------
(* MemPod: the pairs of an interval *)

LEMMA NextVictimIs ==
    ASSUME NEW table, NEW f \in 0 .. FastSegments
    PROVE  LET v == Pod!NextVictim(table, f)
           IN  /\ v \in f .. FastSegments
               /\ v < FastSegments => v \notin Pod!HotFrames(table)
               /\ \A u \in f .. v - 1 : u \in Pod!HotFrames(table)
<1>. DEFINE S == {v \in f .. FastSegments : v \notin Pod!HotFrames(table) \cap 0 .. FastSegments - 1}
            first == CHOOSE m \in S : \A k \in S : m <= k
<1>1. S \in SUBSET Nat /\ FastSegments \in S
  BY PodSizes DEF Parameters
<1>2. first \in S /\ \A k \in S : first <= k
  <2>. HIDE DEF S
  <2>. QED BY <1>1, LeastFound
<1>. HIDE DEF first
<1>3. first \in f .. FastSegments /\ \A u \in f .. first - 1 : u \in Pod!HotFrames(table)
  BY <1>2, PodSizes DEF Parameters
<1>4. \E v \in f .. FastSegments :
        /\ v \notin Pod!HotFrames(table) \cap 0 .. FastSegments - 1
        /\ \A u \in f .. v - 1 : u \in Pod!HotFrames(table)
  BY <1>2, <1>3
<1>. HIDE DEF S
<1>5. LET v == Pod!NextVictim(table, f)
      IN  /\ v \in f .. FastSegments
          /\ v \notin Pod!HotFrames(table) \cap 0 .. FastSegments - 1
          /\ \A u \in f .. v - 1 : u \in Pod!HotFrames(table)
  BY <1>4 DEF Pod!NextVictim
<1>. QED BY <1>5, PodSizes DEF Parameters

Pairing == [queue : Seq(Pod!Request), itr : 0 .. FastSegments - 1, over : BOOLEAN, same : BOOLEAN]

LEMMA EnqueuedIs ==
    ASSUME NEW q \in Seq(Pod!Request), NEW r \in Pod!Request
    PROVE  /\ Pod!Enqueued(q, r) \in Seq(Pod!Request)
           /\ Len(q) <= REMAPPING_REQUEST_QUEUE_LENGTH
                 => Len(Pod!Enqueued(q, r)) <= REMAPPING_REQUEST_QUEUE_LENGTH
           /\ \A n \in DOMAIN Pod!Enqueued(q, r) :
                 \/ n \in DOMAIN q /\ Pod!Enqueued(q, r)[n] = q[n]
                 \/ n = Len(q) + 1 /\ Pod!Enqueued(q, r)[n] = r
<1>1. /\ Len(q) \in Nat /\ DOMAIN q = 1 .. Len(q)
      /\ Append(q, r) \in Seq(Pod!Request) /\ Len(Append(q, r)) = Len(q) + 1
      /\ \A i \in 1 .. Len(q) : Append(q, r)[i] = q[i]
      /\ Append(q, r)[Len(q) + 1] = r
      /\ DOMAIN Append(q, r) = 1 .. Len(q) + 1
  BY AppendProperties, LenProperties
<1>. QED BY <1>1, PodSizes DEF Pod!Enqueued, Parameters

LEMMA PairedIs ==
    ASSUME NEW table \in [Pod!Segment -> Pod!Segment],
           NEW invert \in [Pod!Victim -> Pod!Segment],
           NEW state \in Pairing, NEW s \in Pod!Segment
    PROVE  /\ Pod!Paired(table, invert, state, s) \in Pairing
           /\ Len(state.queue) <= REMAPPING_REQUEST_QUEUE_LENGTH
                 => Len(Pod!Paired(table, invert, state, s).queue) <= REMAPPING_REQUEST_QUEUE_LENGTH
<1>. DEFINE v == Pod!NextVictim(table, state.itr)
            r == [p_fm |-> invert[v], p_sm |-> s, h_fm |-> v, h_sm |-> table[s]]
<1>0. state.itr \in 0 .. FastSegments /\ state.queue \in Seq(Pod!Request)
  BY PodSizes DEF Pairing, Parameters
<1>1. v \in Pod!Victim
  BY <1>0, NextVictimIs, PodSizes DEF Pod!Victim, Parameters
<1>. HIDE DEF v
<1>2. r \in Pod!Request
  BY <1>1 DEF Pod!Request
<1>3. (v + 1) % FastSegments \in 0 .. FastSegments - 1
  BY <1>1, PodSizes DEF Pod!Victim, Parameters
<1>4. /\ Pod!Enqueued(state.queue, r) \in Seq(Pod!Request)
      /\ Len(state.queue) <= REMAPPING_REQUEST_QUEUE_LENGTH
            => Len(Pod!Enqueued(state.queue, r)) <= REMAPPING_REQUEST_QUEUE_LENGTH
  BY <1>0, <1>2, EnqueuedIs
<1>. HIDE DEF r
<1>5. Pod!Paired(table, invert, state, s) =
        [queue |-> Pod!Enqueued(state.queue, r), itr |-> (v + 1) % FastSegments,
         over |-> state.over \/ v = FastSegments,
         same |-> state.same \/ (v = table[s] /\ Len(state.queue) < REMAPPING_REQUEST_QUEUE_LENGTH)]
  BY DEF Pod!Paired, v, r
<1>6. state.over \in BOOLEAN /\ state.same \in BOOLEAN
  BY DEF Pairing
<1>. QED BY <1>3, <1>4, <1>5, <1>6 DEF Pairing

\* The states determine_swap_pair() goes through, one for each hot segment of slow
\* memory.
Passes(f, n, table, invert, queue) ==
    /\ f \in [0 .. n -> Pairing]
    /\ f[0] = [queue |-> queue, itr |-> swap_fm_address_itr, over |-> FALSE, same |-> FALSE]
    /\ \A k \in 1 .. n : f[k] = Pod!Paired(table, invert, f[k - 1], Pod!HotInSlow(table)[k])

LEMMA AllPairedIs ==
    ASSUME NEW table \in [Pod!Segment -> Pod!Segment],
           NEW invert \in [Pod!Victim -> Pod!Segment],
           NEW queue \in Seq(Pod!Request),
           swap_fm_address_itr \in 0 .. FastSegments - 1,
           NEW n \in Nat, DOMAIN Pod!HotInSlow(table) = 1 .. n,
           \A k \in 1 .. n : Pod!HotInSlow(table)[k] \in Pod!Segment
    PROVE  \E f : Passes(f, n, table, invert, queue) /\ Pod!AllPaired(table, invert, queue) = f[n]
<1>. DEFINE hots == Pod!HotInSlow(table)
            base == [queue |-> queue, itr |-> swap_fm_address_itr, over |-> FALSE, same |-> FALSE]
            step == [p \in (1 .. n) \X Pairing |-> Pod!Paired(table, invert, p[2], hots[p[1]])]
            after(it) == [s \in SUBSET (1 .. n) |->
                            IF s = {} THEN base
                            ELSE Pod!Paired(table, invert, it[s \ {Greatest(s)}], hots[Greatest(s)])]
<1>1. base \in Pairing
  BY DEF Pairing
<1>2. step \in [(1 .. n) \X Pairing -> Pairing]
  BY PairedIs
<1>. HIDE DEF base, hots
<1>3. PICK it : FoldLeftOf(n, Pairing, base, step, it)
  <2>. HIDE DEF step
  <2>. QED BY <1>1, <1>2, FoldLeftExists
<1>4. it = after(it)
  <2>1. ASSUME NEW s \in SUBSET (1 .. n), s # {}
        PROVE  it[s] = Pod!Paired(table, invert, it[s \ {Greatest(s)}], hots[Greatest(s)])
    <3>1. Greatest(s) \in 1 .. n /\ s \ {Greatest(s)} \in SUBSET (1 .. n)
      BY <2>1, GreatestIs
    <3>2. <<Greatest(s), it[s \ {Greatest(s)}]>> \in (1 .. n) \X Pairing
      BY <1>3, <3>1 DEF FoldLeftOf
    <3>3. it[s] = step[<<Greatest(s), it[s \ {Greatest(s)}]>>]
      BY <1>3, <2>1 DEF FoldLeftOf
    <3>4. step[<<Greatest(s), it[s \ {Greatest(s)}]>>]
            = Pod!Paired(table, invert, it[s \ {Greatest(s)}], hots[Greatest(s)])
      BY <3>2
    <3>. QED BY <3>3, <3>4
  <2>2. it[{}] = base /\ it \in [SUBSET (1 .. n) -> Pairing]
    BY <1>3 DEF FoldLeftOf
  <2>. QED BY <2>1, <2>2
<1>5. Pod!AllPaired(table, invert, queue) = (CHOOSE x_ : x_ = after(x_))[1 .. n]
  BY DEF Pod!AllPaired, Pod!FoldLeft, Pod!MapThenFoldSet, Pod!Max, Greatest, hots, base
<1>6. PICK x_ : x_ = after(x_) /\ Pod!AllPaired(table, invert, queue) = x_[1 .. n]
  <2>. HIDE DEF after
  <2>. QED BY <1>4, <1>5
<1>. DEFINE f == [k \in 0 .. n |-> x_[1 .. k]]
            bad == {k \in 0 .. n : f[k] \notin Pairing}
<1>7. x_[{}] = base /\ 1 .. 0 = {}
  BY <1>6
<1>8. f[0] = base
  BY <1>7
<1>9. ASSUME NEW k \in 1 .. n
      PROVE  f[k] = Pod!Paired(table, invert, f[k - 1], hots[k])
  <2>1. /\ 1 .. k \in SUBSET (1 .. n) /\ 1 .. k # {} /\ Greatest(1 .. k) = k
        /\ (1 .. k) \ {k} = 1 .. k - 1
    BY UpTo
  <2>2. x_[1 .. k] = Pod!Paired(table, invert, x_[1 .. k - 1], hots[k])
    BY <1>6, <2>1
  <2>3. k - 1 \in 0 .. n /\ k \in 0 .. n
    OBVIOUS
  <2>. QED BY <2>2, <2>3
<1>10. bad = {}
  <2>. SUFFICES ASSUME bad # {} PROVE FALSE
    OBVIOUS
  <2>1. PICK m \in bad : \A k \in bad : m <= k
    <3>1. bad \in SUBSET Nat
      OBVIOUS
    <3>. HIDE DEF bad
    <3>. QED BY <3>1, LeastFound
  <2>2. m \in 0 .. n /\ f[m] \notin Pairing
    OBVIOUS
  <2>. HIDE DEF f
  <2>3. m # 0
    BY <1>1, <1>8, <2>2
  <2>4. m \in 1 .. n /\ m - 1 \in 0 .. n /\ m - 1 \notin bad
    BY <2>1, <2>2, <2>3
  <2>5. f[m - 1] \in Pairing /\ hots[m] \in Pod!Segment
    BY <2>4 DEF hots
  <2>6. f[m] = Pod!Paired(table, invert, f[m - 1], hots[m])
    BY <1>9, <2>4
  <2>7. Pod!Paired(table, invert, f[m - 1], hots[m]) \in Pairing
    BY <2>5, PairedIs
  <2>. QED BY <2>2, <2>6, <2>7
<1>11. f \in [0 .. n -> Pairing]
  BY <1>10
<1>12. f[n] = x_[1 .. n]
  OBVIOUS
<1>. HIDE DEF f
<1>. QED BY <1>6, <1>8, <1>9, <1>11, <1>12 DEF Passes, base, hots

\* The frames swept since the iterator was itr0 are hot or among those taken.
Sweep(table, itr0, taken, itr) ==
    /\ taken \in SUBSET (0 .. FastSegments - 1)
    /\ \/ /\ itr0 <= itr
          /\ taken \in SUBSET (itr0 .. itr - 1)
          /\ \A f \in itr0 .. itr - 1 : f \in Pod!HotFrames(table) \cup taken
       \/ /\ itr <= itr0
          /\ \A f \in taken : f < itr \/ itr0 <= f
          /\ \A f \in 0 .. FastSegments - 1 :
                f < itr \/ itr0 <= f => f \in Pod!HotFrames(table) \cup taken

LEMMA HotEnough ==
    ASSUME NEW table \in [Pod!Segment -> Pod!Segment],
           DOMAIN mea_counter_table \subseteq Pod!Segment,
           Cardinality(DOMAIN mea_counter_table) <= NUMBER_MEA_COUNTER,
           NEW taken \in SUBSET (0 .. FastSegments - 1),
           \A f \in 0 .. FastSegments - 1 : f \in Pod!HotFrames(table) \cup taken
    PROVE  Cardinality({s \in DOMAIN mea_counter_table : table[s] >= FastSegments})
              <= Cardinality(taken)
<1>. DEFINE all == DOMAIN mea_counter_table
            slow == {s \in all : table[s] >= FastSegments}
            fast == {s \in all : table[s] < FastSegments}
            frames == (0 .. FastSegments - 1) \ taken
            some(f) == CHOOSE s \in fast : table[s] = f
            from == [f \in frames |-> some(f)]
<1>0. FastSegments \in Nat /\ 0 < FastSegments /\ Segments \in Nat /\ FastSegments < Segments
      /\ NUMBER_MEA_COUNTER \in Nat /\ NUMBER_MEA_COUNTER <= FastSegments
  BY PodSizes DEF Parameters
<1>1. IsFiniteSet(Pod!Segment) /\ IsFiniteSet(0 .. FastSegments - 1)
      /\ Cardinality(0 .. FastSegments - 1) = FastSegments
  <2>1. 0 \in Int /\ FastSegments - 1 \in Int /\ Segments - 1 \in Int
    BY <1>0
  <2>2. IsFiniteSet(0 .. Segments - 1) /\ IsFiniteSet(0 .. FastSegments - 1)
    BY <2>1, FS_Interval
  <2>3. Cardinality(0 .. FastSegments - 1)
           = IF 0 > FastSegments - 1 THEN 0 ELSE FastSegments - 1 - 0 + 1
    BY <2>1, FS_Interval
  <2>4. Cardinality(0 .. FastSegments - 1) = FastSegments
    BY <1>0, <2>3
  <2>. QED BY <2>2, <2>4 DEF Pod!Segment
<1>2. IsFiniteSet(all) /\ IsFiniteSet(slow) /\ IsFiniteSet(fast) /\ IsFiniteSet(taken)
  <2>1. fast \in SUBSET Pod!Segment /\ slow \in SUBSET Pod!Segment /\ all \in SUBSET Pod!Segment
    OBVIOUS
  <2>. HIDE DEF fast, slow, all
  <2>. QED BY <1>1, <2>1, FS_Subset
<1>3. /\ Cardinality(all) \in Nat /\ Cardinality(slow) \in Nat /\ Cardinality(fast) \in Nat
      /\ Cardinality(taken) \in Nat
  <2>. HIDE DEF fast, slow, all
  <2>. QED BY <1>2, FS_CardinalityType
<1>4. Cardinality(all) = Cardinality(slow) + Cardinality(fast)
  <2>1. \A s \in all : table[s] \in Int
    BY <1>0 DEF Pod!Segment
  <2>2. slow \cup fast = all /\ slow \cap fast = {}
    BY <1>0, <2>1
  <2>. HIDE DEF fast, slow, all
  <2>3. Cardinality(slow \cup fast)
           = Cardinality(slow) + Cardinality(fast) - Cardinality(slow \cap fast)
    BY <1>2, FS_Union
  <2>4. Cardinality(slow \cap fast) = 0
    BY <2>2, FS_EmptySet, Zenon
  <2>5. Cardinality(slow \cup fast) = Cardinality(all)
    BY <2>2
  <2>. QED BY <1>3, <2>3, <2>4, <2>5
<1>5. \A f \in frames : some(f) \in fast /\ table[some(f)] = f
  <2>1. ASSUME NEW f \in frames PROVE \E s \in fast : table[s] = f
    BY PodSizes DEF Pod!HotFrames, Parameters, Pod!Segment
  <2>. HIDE DEF fast, frames
  <2>. QED BY <2>1
<1>6. Cardinality(frames) = FastSegments - Cardinality(taken)
  <2>1. (0 .. FastSegments - 1) \cap taken = taken
    OBVIOUS
  <2>2. Cardinality((0 .. FastSegments - 1) \ taken)
           = Cardinality(0 .. FastSegments - 1) - Cardinality((0 .. FastSegments - 1) \cap taken)
    BY <1>1, FS_Difference
  <2>. QED BY <1>1, <2>1, <2>2
<1>7. from \in Injection(frames, fast)
  <2>. HIDE DEF fast, frames
  <2>. QED BY <1>5 DEF Injection, IsInjective
<1>8. Cardinality(frames) <= Cardinality(fast)
  <2>. HIDE DEF fast, frames, from
  <2>. QED BY <1>2, <1>7, FS_Injection
<1>. HIDE DEF fast, frames, slow, all
<1>9. Cardinality(slow) <= Cardinality(taken)
  BY <1>3, <1>4, <1>6, <1>8, PodSizes DEF Parameters, all
<1>. QED BY <1>9 DEF slow, all

LEMMA SweepOn ==
    ASSUME NEW table \in [Pod!Segment -> Pod!Segment],
           DOMAIN mea_counter_table \subseteq Pod!Segment,
           Cardinality(DOMAIN mea_counter_table) <= NUMBER_MEA_COUNTER,
           NEW itr0 \in 0 .. FastSegments - 1, NEW itr \in 0 .. FastSegments - 1,
           NEW taken, Sweep(table, itr0, taken, itr),
           Cardinality(taken)
              < Cardinality({s \in DOMAIN mea_counter_table : table[s] >= FastSegments}),
           NEW v, v = Pod!NextVictim(table, itr), v < FastSegments
    PROVE  /\ v \in 0 .. FastSegments - 1 /\ v \notin taken
           /\ (v + 1) % FastSegments \in 0 .. FastSegments - 1
           /\ Sweep(table, itr0, taken \cup {v}, (v + 1) % FastSegments)
<1>. DEFINE hotFrames == Pod!HotFrames(table)
<1>2. FastSegments \in Nat /\ 0 < FastSegments
  BY PodSizes DEF Parameters
<1>1. v \in itr .. FastSegments - 1 /\ v \notin hotFrames /\ \A u \in itr .. v - 1 : u \in hotFrames
  <2>1. itr \in 0 .. FastSegments
    BY <1>2
  <2>2. /\ v \in itr .. FastSegments
        /\ v < FastSegments => v \notin Pod!HotFrames(table)
        /\ \A u \in itr .. v - 1 : u \in Pod!HotFrames(table)
    BY <2>1, NextVictimIs
  <2>. QED BY <1>2, <2>2
<1>. HIDE DEF hotFrames
<1>3. IF v + 1 < FastSegments THEN (v + 1) % FastSegments = v + 1
                              ELSE (v + 1) % FastSegments = 0 /\ v = FastSegments - 1
  BY <1>1, <1>2
<1>4. taken \in SUBSET (0 .. FastSegments - 1)
  BY DEF Sweep
<1>5. CASE /\ itr0 <= itr
           /\ taken \in SUBSET (itr0 .. itr - 1)
           /\ \A f \in itr0 .. itr - 1 : f \in hotFrames \cup taken
  <2>1. v \notin taken /\ v >= itr0
    BY <1>1, <1>5
  <2>2. \A f \in itr0 .. v : f \in hotFrames \cup (taken \cup {v})
    BY <1>1, <1>5
  <2>3. taken \cup {v} \in SUBSET (itr0 .. v) /\ taken \cup {v} \in SUBSET (0 .. FastSegments - 1)
    <3>1. v \in itr0 .. v /\ v \in 0 .. FastSegments - 1
      BY <1>1, <1>2, <2>1
    <3>2. \A f \in taken : f \in itr0 .. v /\ f \in 0 .. FastSegments - 1
      BY <1>1, <1>2, <1>4, <1>5
    <3>. QED BY <3>1, <3>2, Zenon
  <2>4. CASE v + 1 < FastSegments
    <3>1. (v + 1) % FastSegments = v + 1 /\ (v + 1) - 1 = v /\ itr0 <= v + 1
      BY <1>1, <1>3, <2>1, <2>4
    <3>2. v \in 0 .. FastSegments - 1 /\ v + 1 \in 0 .. FastSegments - 1
      BY <1>1, <1>2, <2>4
    <3>. QED BY <2>1, <2>2, <2>3, <3>1, <3>2 DEF Sweep, hotFrames
  <2>5. CASE v = FastSegments - 1
    BY <1>1, <1>2, <1>3, <2>1, <2>2, <2>3, <2>5 DEF Sweep, hotFrames
  <2>. QED BY <1>1, <1>2, <2>4, <2>5
<1>6. CASE /\ itr <= itr0
           /\ \A f \in taken : f < itr \/ itr0 <= f
           /\ \A f \in 0 .. FastSegments - 1 : f < itr \/ itr0 <= f => f \in hotFrames \cup taken
  <2>1. v < itr0
    <3>. SUFFICES ASSUME itr0 <= v PROVE FALSE
      BY <1>1
    <3>1. \A f \in 0 .. FastSegments - 1 : f \in hotFrames \cup taken
      BY <1>1, <1>6
    <3>2. Cardinality({s \in DOMAIN mea_counter_table : table[s] >= FastSegments})
              <= Cardinality(taken)
      BY <1>4, <3>1, HotEnough DEF hotFrames
    <3>3. Cardinality(taken) \in Nat
      <4>1. IsFiniteSet(0 .. FastSegments - 1)
        BY <1>2, FS_Interval
      <4>. QED BY <1>4, <4>1, FS_Subset, FS_CardinalityType
    <3>4. Cardinality({s \in DOMAIN mea_counter_table : table[s] >= FastSegments}) \in Nat
      BY HotInSlowIs
    <3>. QED BY <3>2, <3>3, <3>4
  <2>2. v \notin taken /\ v + 1 <= itr0 /\ v + 1 < FastSegments
    BY <1>1, <1>2, <1>6, <2>1
  <2>3. \A f \in 0 .. FastSegments - 1 :
            f < v + 1 \/ itr0 <= f => f \in hotFrames \cup (taken \cup {v})
    BY <1>1, <1>6
  <2>4. \A f \in taken \cup {v} : f < v + 1 \/ itr0 <= f
    BY <1>1, <1>4, <1>6
  <2>5. taken \cup {v} \in SUBSET (0 .. FastSegments - 1)
    <3>1. v \in 0 .. FastSegments - 1
      BY <1>1, <1>2
    <3>. QED BY <1>4, <3>1, Zenon
  <2>6. (v + 1) % FastSegments = v + 1
    BY <1>3, <2>2
  <2>7. v \in 0 .. FastSegments - 1 /\ v + 1 \in 0 .. FastSegments - 1
    BY <1>1, <1>2, <2>2
  <2>. QED BY <2>2, <2>3, <2>4, <2>5, <2>6, <2>7 DEF Sweep, hotFrames
<1>. QED BY <1>5, <1>6 DEF Sweep, hotFrames

TablesAgree(table, invert, c) ==
    /\ \A s \in Pod!Segment : c[table[s]] = s
    /\ \A f \in Pod!Segment : table[c[f]] = f
    /\ \A f \in 0 .. FastSegments - 1 : invert[f] = c[f]

\* A queued request exchanges a fast frame for a slow one, names the segments that are
\* there, and shares no frame with another request.
QueueFits(q, c) ==
    /\ \A i \in DOMAIN q : /\ q[i].h_fm < FastSegments /\ q[i].h_sm >= FastSegments
                           /\ q[i].p_fm = c[q[i].h_fm] /\ q[i].p_sm = c[q[i].h_sm]
    /\ \A i, j \in DOMAIN q : q[i].h_fm = q[j].h_fm \/ q[i].h_sm = q[j].h_sm => i = j

Taken(taken, p, k, table) ==
    /\ Cardinality(taken) <= k /\ Sweep(table, swap_fm_address_itr, taken, p.itr)
    /\ \A i \in DOMAIN p.queue : p.queue[i].h_fm \in taken

PassInv(p, k, table, c) ==
    /\ ~p.same
    /\ QueueFits(p.queue, c)
    /\ \A i \in DOMAIN p.queue : \E j \in 1 .. k : p.queue[i].p_sm = Pod!HotInSlow(table)[j]
    /\ \E taken : Taken(taken, p, k, table)

Counted == /\ DOMAIN mea_counter_table \subseteq Pod!Segment
           /\ Cardinality(DOMAIN mea_counter_table) <= NUMBER_MEA_COUNTER
           /\ swap_fm_address_itr \in 0 .. FastSegments - 1

SlowHot(table) == {s \in DOMAIN mea_counter_table : table[s] >= FastSegments}

LEMMA PairedParts ==
    ASSUME NEW table, NEW invert, NEW state, NEW s
    PROVE  LET v == Pod!NextVictim(table, state.itr)
               next == Pod!Paired(table, invert, state, s)
           IN  /\ next.over <=> (state.over \/ v = FastSegments)
               /\ next.same <=> \/ state.same
                                \/ /\ v = table[s]
                                   /\ Len(state.queue) < REMAPPING_REQUEST_QUEUE_LENGTH
               /\ next.itr = (v + 1) % FastSegments
               /\ next.queue = Pod!Enqueued(state.queue, [p_fm |-> invert[v], p_sm |-> s,
                                                         h_fm |-> v, h_sm |-> table[s]])
BY DEF Pod!Paired

LEMMA PassKeeps ==
    ASSUME NEW table \in [Pod!Segment -> Pod!Segment],
           NEW invert \in [Pod!Victim -> Pod!Segment],
           NEW c \in [Pod!Segment -> Pod!Segment], Counted, TablesAgree(table, invert, c),
           NEW k \in Nat, k < Cardinality(SlowHot(table)),
           NEW p \in Pairing, PassInv(p, k, table, c),
           NEW next, next = Pod!Paired(table, invert, p, Pod!HotInSlow(table)[k + 1]), ~next.over
    PROVE  PassInv(next, k + 1, table, c)
<1>. DEFINE hots == Pod!HotInSlow(table)
            s == hots[k + 1]
            v == Pod!NextVictim(table, p.itr)
            r == [p_fm |-> invert[v], p_sm |-> s, h_fm |-> v, h_sm |-> table[s]]
            N == Cardinality(SlowHot(table))
<1>0. FastSegments \in Nat /\ 0 < FastSegments /\ Segments \in Nat /\ FastSegments < Segments
  BY PodSizes DEF Parameters
<1>1. /\ N \in Nat /\ DOMAIN hots = 1 .. N
      /\ \A n \in 1 .. N : hots[n] \in SlowHot(table)
      /\ \A n, m \in 1 .. N : hots[n] = hots[m] => n = m
  BY HotInSlowIs DEF Counted, SlowHot
<1>2. s \in Pod!Segment /\ table[s] >= FastSegments /\ table[s] \in Pod!Segment
      /\ \A j \in 1 .. k : s # hots[j]
  <2>1. k + 1 \in 1 .. N /\ \A j \in 1 .. k : j \in 1 .. N /\ j # k + 1
    BY <1>1
  <2>. HIDE DEF hots, N
  <2>. QED BY <1>1, <2>1 DEF SlowHot, Counted
<1>3. v \in 0 .. FastSegments /\ p.itr \in 0 .. FastSegments - 1
  <2>1. p.itr \in 0 .. FastSegments - 1 /\ p.itr \in 0 .. FastSegments
    BY <1>0 DEF Pairing
  <2>2. v \in p.itr .. FastSegments
    BY <2>1, NextVictimIs
  <2>. QED BY <1>0, <2>1, <2>2
<1>. HIDE DEF v, hots, s
<1>4. /\ next.over <=> (p.over \/ v = FastSegments)
      /\ next.same <=> p.same \/ (v = table[s] /\ Len(p.queue) < REMAPPING_REQUEST_QUEUE_LENGTH)
      /\ next.itr = (v + 1) % FastSegments /\ next.queue = Pod!Enqueued(p.queue, r)
  BY PairedParts DEF v, s, hots
<1>5. v < FastSegments /\ ~p.same
  <2>1. v # FastSegments /\ ~p.same
    BY <1>4, Zenon DEF PassInv
  <2>. QED BY <1>0, <1>3, <2>1
<1>6. ~next.same
  <2>1. v # table[s]
    BY <1>0, <1>2, <1>3, <1>5 DEF Pod!Segment
  <2>. QED BY <1>4, <1>5, <2>1, Zenon
<1>7. PICK taken : Taken(taken, p, k, table)
  BY DEF PassInv
<1>8. /\ v \in 0 .. FastSegments - 1 /\ v \notin taken
      /\ (v + 1) % FastSegments \in 0 .. FastSegments - 1
      /\ Sweep(table, swap_fm_address_itr, taken \cup {v}, (v + 1) % FastSegments)
      /\ IsFiniteSet(taken) /\ Cardinality(taken) \in Nat
  <2>1. IsFiniteSet(taken) /\ Cardinality(taken) \in Nat
    <3>1. IsFiniteSet(0 .. FastSegments - 1)
      BY <1>0, FS_Interval
    <3>2. taken \in SUBSET (0 .. FastSegments - 1)
      BY <1>7 DEF Taken, Sweep
    <3>. QED BY <3>1, <3>2, FS_Subset, FS_CardinalityType
  <2>2. Cardinality(taken) < N
    BY <1>1, <1>7, <2>1 DEF Taken
  <2>3. Sweep(table, swap_fm_address_itr, taken, p.itr)
    BY <1>7 DEF Taken
  <2>4. /\ swap_fm_address_itr \in 0 .. FastSegments - 1 /\ p.itr \in 0 .. FastSegments - 1
        /\ DOMAIN mea_counter_table \subseteq Pod!Segment
        /\ Cardinality(DOMAIN mea_counter_table) <= NUMBER_MEA_COUNTER
        /\ Cardinality(taken)
              < Cardinality({s_ \in DOMAIN mea_counter_table : table[s_] >= FastSegments})
        /\ v = Pod!NextVictim(table, p.itr) /\ v < FastSegments
    BY <1>3, <1>5, <2>2 DEF v, Counted, SlowHot
  <2>5. /\ v \in 0 .. FastSegments - 1 /\ v \notin taken
        /\ (v + 1) % FastSegments \in 0 .. FastSegments - 1
        /\ Sweep(table, swap_fm_address_itr, taken \cup {v}, (v + 1) % FastSegments)
    BY <2>3, <2>4, SweepOn
  <2>. QED BY <2>1, <2>5
<1>9. Cardinality(taken \cup {v}) <= k + 1
  <2>1. Cardinality(taken \cup {v}) = Cardinality(taken) + 1
    BY <1>8, FS_AddElement
  <2>. QED BY <1>7, <1>8, <2>1 DEF Taken
<1>10. r \in Pod!Request /\ r.h_fm = v /\ r.h_sm = table[s] /\ r.p_fm = invert[v] /\ r.p_sm = s
  <2>1. v \in Pod!Victim
    BY <1>3 DEF Pod!Victim
  <2>. QED BY <1>2, <2>1 DEF Pod!Request
<1>11. c[v] = invert[v] /\ c[table[s]] = s /\ v \in Pod!Segment
  <2>1. v \in Pod!Segment
    BY <1>0, <1>8 DEF Pod!Segment
  <2>2. c[v] = invert[v] /\ c[table[s]] = s
    BY <1>2, <1>8 DEF TablesAgree
  <2>. QED BY <2>1, <2>2
<1>. HIDE DEF r
<1>12. /\ next.queue = Pod!Enqueued(p.queue, r) /\ next.itr = (v + 1) % FastSegments
       /\ p.queue \in Seq(Pod!Request) /\ Len(p.queue) \in Nat
       /\ DOMAIN p.queue = 1 .. Len(p.queue)
  BY <1>4, LenProperties DEF Pairing
<1>13. \A n \in DOMAIN next.queue :
          \/ n \in DOMAIN p.queue /\ next.queue[n] = p.queue[n]
          \/ n = Len(p.queue) + 1 /\ next.queue[n] = r
  BY <1>10, <1>12, EnqueuedIs
<1>14. \A i \in DOMAIN p.queue :
          /\ p.queue[i].h_fm < FastSegments /\ p.queue[i].h_sm >= FastSegments
          /\ p.queue[i].p_fm = c[p.queue[i].h_fm] /\ p.queue[i].p_sm = c[p.queue[i].h_sm]
          /\ \E j \in 1 .. k : p.queue[i].p_sm = hots[j]
          /\ p.queue[i].h_fm \in taken
  BY <1>7 DEF PassInv, QueueFits, Taken, hots
<1>15. \A i \in DOMAIN p.queue : p.queue[i].h_fm # v /\ p.queue[i].h_sm # table[s]
  BY <1>2, <1>8, <1>11, <1>14
<1>16. QueueFits(next.queue, c)
  <2>1. ASSUME NEW i \in DOMAIN next.queue
        PROVE  /\ next.queue[i].h_fm < FastSegments /\ next.queue[i].h_sm >= FastSegments
               /\ next.queue[i].p_fm = c[next.queue[i].h_fm]
               /\ next.queue[i].p_sm = c[next.queue[i].h_sm]
    BY <1>2, <1>5, <1>10, <1>11, <1>13, <1>14
  <2>2. ASSUME NEW i \in DOMAIN next.queue, NEW j \in DOMAIN next.queue,
               next.queue[i].h_fm = next.queue[j].h_fm \/ next.queue[i].h_sm = next.queue[j].h_sm
        PROVE  i = j
    <3>1. \A a, b \in DOMAIN p.queue :
             p.queue[a].h_fm = p.queue[b].h_fm \/ p.queue[a].h_sm = p.queue[b].h_sm => a = b
      BY DEF PassInv, QueueFits
    <3>2. CASE i \in DOMAIN p.queue /\ next.queue[i] = p.queue[i]
      BY <1>10, <1>13, <1>15, <2>2, <3>1, <3>2
    <3>3. CASE i = Len(p.queue) + 1 /\ next.queue[i] = r
      BY <1>10, <1>13, <1>15, <2>2, <3>1, <3>3
    <3>. QED BY <1>13, <3>2, <3>3
  <2>. QED BY <2>1, <2>2 DEF QueueFits
<1>17. ASSUME NEW i \in DOMAIN next.queue
       PROVE  \E j \in 1 .. k + 1 : next.queue[i].p_sm = hots[j]
  <2>1. CASE i \in DOMAIN p.queue /\ next.queue[i] = p.queue[i]
    <3>1. PICK j \in 1 .. k : p.queue[i].p_sm = hots[j]
      BY <1>14, <2>1
    <3>2. j \in 1 .. k + 1
      OBVIOUS
    <3>. QED BY <2>1, <3>1, <3>2
  <2>2. CASE next.queue[i] = r
    <3>1. k + 1 \in 1 .. k + 1 /\ r.p_sm = hots[k + 1]
      BY <1>10 DEF s
    <3>. QED BY <2>2, <3>1
  <2>. QED BY <1>13, <2>1, <2>2
<1>18. Taken(taken \cup {v}, next, k + 1, table)
  <2>1. ASSUME NEW i \in DOMAIN next.queue PROVE next.queue[i].h_fm \in taken \cup {v}
    BY <1>10, <1>13, <1>14
  <2>. QED BY <1>8, <1>9, <1>12, <2>1 DEF Taken
<1>. QED BY <1>6, <1>16, <1>17, <1>18 DEF PassInv, hots

LEMMA PairsAre ==
    ASSUME NEW table \in [Pod!Segment -> Pod!Segment],
           NEW invert \in [Pod!Victim -> Pod!Segment], Counted,
           NEW queue \in Seq(Pod!Request), Len(queue) <= REMAPPING_REQUEST_QUEUE_LENGTH
    PROVE  LET pairs == Pod!AllPaired(table, invert, queue)
           IN  pairs \in Pairing /\ Len(pairs.queue) <= REMAPPING_REQUEST_QUEUE_LENGTH
<1>. DEFINE hots == Pod!HotInSlow(table)
            n == Cardinality(SlowHot(table))
<1>1. n \in Nat /\ DOMAIN hots = 1 .. n /\ \A k \in 1 .. n : hots[k] \in Pod!Segment
  BY HotInSlowIs DEF Counted, SlowHot
<1>. HIDE DEF hots, n
<1>2. PICK f : Passes(f, n, table, invert, queue) /\ Pod!AllPaired(table, invert, queue) = f[n]
  BY <1>1, AllPairedIs DEF Counted, hots
<1>3. /\ f \in [0 .. n -> Pairing] /\ f[0].queue = queue
      /\ \A k \in 1 .. n : f[k] = Pod!Paired(table, invert, f[k - 1], hots[k])
  BY <1>2 DEF Passes, hots
<1>. DEFINE bad == {k \in 0 .. n : ~(Len(f[k].queue) <= REMAPPING_REQUEST_QUEUE_LENGTH)}
<1>4. bad = {}
  <2>. SUFFICES ASSUME bad # {} PROVE FALSE
    OBVIOUS
  <2>1. PICK m \in bad : \A k \in bad : m <= k
    <3>1. bad \in SUBSET Nat
      OBVIOUS
    <3>. HIDE DEF bad
    <3>. QED BY <3>1, LeastFound
  <2>2. m \in 0 .. n /\ m # 0
    BY <1>3
  <2>3. m \in 1 .. n /\ m - 1 \in 0 .. n /\ m - 1 \notin bad
    BY <1>1, <2>1, <2>2
  <2>4. Len(f[m - 1].queue) <= REMAPPING_REQUEST_QUEUE_LENGTH /\ f[m - 1] \in Pairing
    BY <1>3, <2>3
  <2>5. Len(Pod!Paired(table, invert, f[m - 1], hots[m]).queue) <= REMAPPING_REQUEST_QUEUE_LENGTH
    BY <1>1, <2>3, <2>4, PairedIs
  <2>6. f[m] = Pod!Paired(table, invert, f[m - 1], hots[m])
    BY <1>3, <2>3
  <2>. QED BY <2>1, <2>5, <2>6
<1>5. n \in 0 .. n /\ n \notin bad
  BY <1>1, <1>4
<1>6. f[n] \in Pairing /\ Len(f[n].queue) <= REMAPPING_REQUEST_QUEUE_LENGTH
  BY <1>3, <1>5
<1>. QED BY <1>2, <1>6

LEMMA PairsFit ==
    ASSUME NEW table \in [Pod!Segment -> Pod!Segment],
           NEW invert \in [Pod!Victim -> Pod!Segment],
           NEW c \in [Pod!Segment -> Pod!Segment], Counted, TablesAgree(table, invert, c),
           ~Pod!AllPaired(table, invert, <<>>).over
    PROVE  LET pairs == Pod!AllPaired(table, invert, <<>>)
           IN  ~pairs.same /\ QueueFits(pairs.queue, c)
<1>. DEFINE hots == Pod!HotInSlow(table)
            n == Cardinality(SlowHot(table))
<1>1. n \in Nat /\ DOMAIN hots = 1 .. n /\ \A k \in 1 .. n : hots[k] \in Pod!Segment
  BY HotInSlowIs DEF Counted, SlowHot
<1>. HIDE DEF hots, n
<1>2. PICK f : Passes(f, n, table, invert, <<>>) /\ Pod!AllPaired(table, invert, <<>>) = f[n]
  <2>1. <<>> \in Seq(Pod!Request)
    OBVIOUS
  <2>. QED BY <1>1, <2>1, AllPairedIs DEF Counted, hots
<1>3. /\ f \in [0 .. n -> Pairing]
      /\ f[0] = [queue |-> <<>>, itr |-> swap_fm_address_itr, over |-> FALSE, same |-> FALSE]
      /\ \A k \in 1 .. n : f[k] = Pod!Paired(table, invert, f[k - 1], hots[k])
  BY <1>2 DEF Passes, hots
<1>4. \A k \in 1 .. n : f[k - 1].over => f[k].over
  <2>0. ASSUME NEW p, NEW s, p.over PROVE Pod!Paired(table, invert, p, s).over
    BY <2>0, PairedParts
  <2>1. ASSUME NEW k \in 1 .. n, f[k - 1].over PROVE f[k].over
    <3>1. f[k] = Pod!Paired(table, invert, f[k - 1], hots[k])
      BY <1>3
    <3>2. Pod!Paired(table, invert, f[k - 1], hots[k]).over
      BY <2>0, <2>1
    <3>. QED BY <3>1, <3>2
  <2>. QED BY <2>1
<1>. DEFINE bad == {k \in 0 .. n : f[k].over}
            broken == {k \in 0 .. n : ~PassInv(f[k], k, table, c)}
<1>5. bad = {}
  <2>. SUFFICES ASSUME bad # {} PROVE FALSE
    OBVIOUS
  <2>1. PICK m \in bad : \A k \in bad : k <= m
    <3>1. bad \in SUBSET (0 .. n)
      OBVIOUS
    <3>. HIDE DEF bad
    <3>. QED BY <1>1, <3>1, GreatestFound
  <2>2. m \in 0 .. n /\ f[m].over /\ m # n
    BY <1>2
  <2>3. m + 1 \in 1 .. n /\ m + 1 \in 0 .. n /\ (m + 1) - 1 = m
    BY <1>1, <2>2
  <2>4. f[m + 1].over
    BY <1>4, <2>2, <2>3
  <2>5. m + 1 \in bad
    BY <2>3, <2>4
  <2>. QED BY <2>1, <2>2, <2>5
<1>6. PassInv(f[0], 0, table, c)
  <2>1. f[0].queue = <<>> /\ f[0].itr = swap_fm_address_itr /\ ~f[0].same
    BY <1>3
  <2>2. Taken({}, f[0], 0, table)
    BY <2>1, FS_EmptySet DEF Taken, Sweep, Counted
  <2>. QED BY <2>1, <2>2 DEF PassInv, QueueFits
<1>7. broken = {}
  <2>. SUFFICES ASSUME broken # {} PROVE FALSE
    OBVIOUS
  <2>1. PICK m \in broken : \A k \in broken : m <= k
    <3>1. broken \in SUBSET Nat
      OBVIOUS
    <3>. HIDE DEF broken
    <3>. QED BY <3>1, LeastFound
  <2>2. m \in 0 .. n /\ m # 0
    BY <1>6
  <2>3. m \in 1 .. n /\ m - 1 \in 0 .. n /\ m - 1 \notin broken /\ m - 1 \in Nat
        /\ (m - 1) + 1 = m /\ m - 1 < n
    BY <1>1, <2>1, <2>2
  <2>4. PassInv(f[m - 1], m - 1, table, c) /\ f[m - 1] \in Pairing
    BY <1>3, <2>3
  <2>5. f[m] = Pod!Paired(table, invert, f[m - 1], hots[m]) /\ ~f[m].over
    BY <1>3, <1>5, <2>3, <2>2
  <2>. HIDE DEF broken
  <2>6. PassInv(f[m], m, table, c)
    BY <2>3, <2>4, <2>5, PassKeeps DEF n, hots
  <2>. QED BY <2>1, <2>6 DEF broken
<1>8. PassInv(f[n], n, table, c)
  BY <1>1, <1>7
<1>. QED BY <1>2, <1>8 DEF PassInv
-----------------------------------------------------------------------------
(* MemPod: sums over the segments *)

Any(s) == CHOOSE x_ \in s : TRUE
Sum(f) == Pod!FoldFunction(LAMBDA a, b : a + b, 0, f)

SumOver(f, D, it) ==
    /\ it \in [SUBSET D -> Nat] /\ it[{}] = 0
    /\ \A s \in (SUBSET D) \ {{}} : it[s] = f[Any(s)] + it[s \ {Any(s)}]

LEMMA AnyIn == \A s : s # {} => Any(s) \in s
BY DEF Any

LEMMA SumUnique ==
    ASSUME NEW D, IsFiniteSet(D), NEW f \in [D -> Nat],
           NEW it1, SumOver(f, D, it1), NEW it2, SumOver(f, D, it2)
    PROVE  it1 = it2
<1>. DEFINE differ == {s \in SUBSET D : it1[s] # it2[s]}
            sizes == {Cardinality(s) : s \in differ}
<1>0. \A s \in SUBSET D : IsFiniteSet(s) /\ Cardinality(s) \in Nat
  BY FS_Subset, FS_CardinalityType
<1>1. differ = {}
  <2>. SUFFICES ASSUME differ # {} PROVE FALSE
    OBVIOUS
  <2>1. PICK m \in sizes : \A k \in sizes : m <= k
    <3>1. sizes \in SUBSET Nat /\ sizes # {}
      BY <1>0
    <3>. HIDE DEF sizes
    <3>. QED BY <3>1, LeastFound
  <2>2. PICK s \in differ : m = Cardinality(s)
    OBVIOUS
  <2>3. s \in SUBSET D /\ s # {} /\ it1[s] # it2[s]
    BY <2>2 DEF SumOver
  <2>4. Any(s) \in s /\ s \ {Any(s)} \in SUBSET D
    BY <2>3, AnyIn
  <2>5. Cardinality(s \ {Any(s)}) = Cardinality(s) - 1
    BY <1>0, <2>3, <2>4, FS_RemoveElement
  <2>6. s \ {Any(s)} \notin differ
    BY <1>0, <2>1, <2>2, <2>3, <2>4, <2>5
  <2>7. it1[s \ {Any(s)}] = it2[s \ {Any(s)}]
    BY <2>4, <2>6
  <2>8. it1[s] = f[Any(s)] + it1[s \ {Any(s)}] /\ it2[s] = f[Any(s)] + it2[s \ {Any(s)}]
    BY <2>3 DEF SumOver
  <2>. QED BY <2>3, <2>7, <2>8
<1>2. it1 \in [SUBSET D -> Nat] /\ it2 \in [SUBSET D -> Nat]
  BY DEF SumOver
<1>. QED BY <1>1, <1>2

LEMMA SumIs ==
    ASSUME NEW D, IsFiniteSet(D), NEW f \in [D -> Nat]
    PROVE  /\ Sum(f) \in Nat
           /\ \E it : SumOver(f, D, it)
           /\ \A it : SumOver(f, D, it) => Sum(f) = it[D]
<1>. DEFINE pick == [s \in (SUBSET D) \ {{}} |-> Any(s)]
            step == [p \in D \X Nat |-> f[p[1]] + p[2]]
            after(it) == [s \in SUBSET D |->
                            IF s = {} THEN 0 ELSE f[Any(s)] + it[s \ {Any(s)}]]
<1>1. FoldArguments(D, Nat, 0, step, pick)
  <2>1. step \in [D \X Nat -> Nat]
    OBVIOUS
  <2>2. /\ pick \in [(SUBSET D) \ {{}} -> D] /\ \A s \in (SUBSET D) \ {{}} : pick[s] \in s
    BY AnyIn
  <2>. QED BY <2>1, <2>2 DEF FoldArguments
<1>2. PICK it : FoldOf(D, Nat, 0, step, pick, it)
  <2>. HIDE DEF step, pick
  <2>. QED BY <1>1, FoldExists
<1>3. SumOver(f, D, it)
  <2>1. it \in [SUBSET D -> Nat] /\ it[{}] = 0
    BY <1>2 DEF FoldOf
  <2>2. ASSUME NEW s \in (SUBSET D) \ {{}} PROVE it[s] = f[Any(s)] + it[s \ {Any(s)}]
    <3>1. it[s] = step[<<pick[s], it[s \ {pick[s]}]>>]
      BY <1>2 DEF FoldOf
    <3>2. pick[s] = Any(s) /\ Any(s) \in D /\ s \ {Any(s)} \in SUBSET D
      BY AnyIn
    <3>. HIDE DEF pick
    <3>3. <<Any(s), it[s \ {Any(s)}]>> \in D \X Nat
      BY <2>1, <3>2
    <3>4. step[<<Any(s), it[s \ {Any(s)}]>>] = f[Any(s)] + it[s \ {Any(s)}]
      BY <3>3
    <3>. QED BY <3>1, <3>2, <3>4
  <2>. QED BY <2>1, <2>2 DEF SumOver
<1>4. it = after(it)
  BY <1>3 DEF SumOver
<1>5. Sum(f) = (CHOOSE x_ : x_ = after(x_))[D]
  <2>1. DOMAIN f = D
    OBVIOUS
  <2>. QED BY <2>1 DEF Sum, Pod!FoldFunction, Pod!FoldFunctionOnSet, Pod!MapThenFoldSet, Any
<1>6. PICK x_ : x_ = after(x_) /\ Sum(f) = x_[D]
  <2>. HIDE DEF after
  <2>. QED BY <1>4, <1>5
<1>. DEFINE odd == {s \in SUBSET D : x_[s] \notin Nat}
            sizes == {Cardinality(s) : s \in odd}
<1>7. odd = {}
  <2>. SUFFICES ASSUME odd # {} PROVE FALSE
    OBVIOUS
  <2>0. \A s \in SUBSET D : IsFiniteSet(s) /\ Cardinality(s) \in Nat
    BY FS_Subset, FS_CardinalityType
  <2>1. PICK m \in sizes : \A k \in sizes : m <= k
    <3>1. sizes \in SUBSET Nat /\ sizes # {}
      BY <2>0
    <3>. HIDE DEF sizes
    <3>. QED BY <3>1, LeastFound
  <2>2. PICK s \in odd : m = Cardinality(s)
    OBVIOUS
  <2>3. s \in SUBSET D /\ s # {} /\ x_[s] \notin Nat
    <3>1. x_[{}] = 0
      BY <1>6
    <3>. QED BY <3>1
  <2>4. Any(s) \in s /\ s \ {Any(s)} \in SUBSET D
    BY <2>3, AnyIn
  <2>5. Cardinality(s \ {Any(s)}) = Cardinality(s) - 1
    BY <2>0, <2>3, <2>4, FS_RemoveElement
  <2>6. s \ {Any(s)} \notin odd
    <3>1. Cardinality(s) \in Nat /\ ~(Cardinality(s) <= Cardinality(s \ {Any(s)}))
      BY <2>0, <2>3, <2>5
    <3>2. \A t \in odd : Cardinality(s) <= Cardinality(t)
      <4>1. \A t \in odd : Cardinality(t) \in sizes
        OBVIOUS
      <4>. HIDE DEF sizes, odd
      <4>. QED BY <2>1, <2>2, <4>1
    <3>. HIDE DEF odd
    <3>. QED BY <3>1, <3>2
  <2>7. x_[s] = f[Any(s)] + x_[s \ {Any(s)}]
    BY <1>6, <2>3
  <2>. QED BY <2>3, <2>4, <2>6, <2>7
<1>8. SumOver(f, D, x_)
  <2>1. x_ = after(x_) /\ \A s \in SUBSET D : x_[s] \in Nat
    BY <1>6, <1>7
  <2>2. x_ \in [SUBSET D -> Nat]
    BY <2>1
  <2>3. x_[{}] = 0 /\ \A s \in (SUBSET D) \ {{}} : x_[s] = f[Any(s)] + x_[s \ {Any(s)}]
    BY <2>1
  <2>. QED BY <2>2, <2>3 DEF SumOver
<1>9. x_[D] \in Nat
  BY <1>7
<1>. HIDE DEF after, odd
<1>10. \A y_ : SumOver(f, D, y_) => Sum(f) = y_[D]
  BY <1>6, <1>8, SumUnique
<1>. QED BY <1>3, <1>6, <1>9, <1>10

LEMMA SumAdds ==
    ASSUME NEW D, IsFiniteSet(D), NEW f \in [D -> Nat], NEW g \in [D -> Nat],
           NEW h \in [D -> Nat], \A x_ \in D : h[x_] = f[x_] + g[x_]
    PROVE  Sum(h) = Sum(f) + Sum(g)
<1>1. PICK a : SumOver(f, D, a)
  BY SumIs
<1>2. PICK b : SumOver(g, D, b)
  BY SumIs
<1>. DEFINE c == [s \in SUBSET D |-> a[s] + b[s]]
<1>3. SumOver(h, D, c)
  <2>1. a \in [SUBSET D -> Nat] /\ b \in [SUBSET D -> Nat] /\ a[{}] = 0 /\ b[{}] = 0
    BY <1>1, <1>2 DEF SumOver
  <2>2. c \in [SUBSET D -> Nat] /\ c[{}] = 0
    BY <2>1
  <2>3. ASSUME NEW s \in (SUBSET D) \ {{}} PROVE c[s] = h[Any(s)] + c[s \ {Any(s)}]
    <3>1. Any(s) \in D /\ s \ {Any(s)} \in SUBSET D
      BY AnyIn
    <3>2. a[s] = f[Any(s)] + a[s \ {Any(s)}] /\ b[s] = g[Any(s)] + b[s \ {Any(s)}]
      BY <1>1, <1>2 DEF SumOver
    <3>3. /\ f[Any(s)] \in Nat /\ g[Any(s)] \in Nat /\ h[Any(s)] = f[Any(s)] + g[Any(s)]
          /\ a[s \ {Any(s)}] \in Nat /\ b[s \ {Any(s)}] \in Nat
      BY <2>1, <3>1
    <3>4. c[s] = a[s] + b[s] /\ c[s \ {Any(s)}] = a[s \ {Any(s)}] + b[s \ {Any(s)}]
      BY <3>1
    <3>. QED BY <3>2, <3>3, <3>4
  <2>. HIDE DEF c
  <2>. QED BY <2>2, <2>3 DEF SumOver
<1>4. Sum(f) = a[D] /\ Sum(g) = b[D]
  BY <1>1, <1>2, SumIs
<1>5. Sum(h) = c[D]
  <2>. HIDE DEF c
  <2>. QED BY <1>3, SumIs
<1>. QED BY <1>4, <1>5

LEMMA SumCounts ==
    ASSUME NEW D, IsFiniteSet(D), NEW C \in SUBSET D
    PROVE  Sum([x_ \in D |-> IF x_ \in C THEN 1 ELSE 0]) = Cardinality(C)
<1>. DEFINE f == [x_ \in D |-> IF x_ \in C THEN 1 ELSE 0]
            it == [s \in SUBSET D |-> Cardinality(s \cap C)]
<1>1. \A s \in SUBSET D : IsFiniteSet(s \cap C) /\ Cardinality(s \cap C) \in Nat
  BY FS_Subset, FS_CardinalityType
<1>2. it \in [SUBSET D -> Nat]
  BY <1>1
<1>3. it[{}] = 0
  <2>1. {} \cap C = {}
    OBVIOUS
  <2>. QED BY <2>1, FS_EmptySet
<1>4. ASSUME NEW s \in (SUBSET D) \ {{}} PROVE it[s] = f[Any(s)] + it[s \ {Any(s)}]
  <2>1. Any(s) \in s /\ s \ {Any(s)} \in SUBSET D /\ Any(s) \in D
    BY AnyIn
  <2>2. it[s] = Cardinality(s \cap C) /\ it[s \ {Any(s)}] = Cardinality((s \ {Any(s)}) \cap C)
    BY <2>1
  <2>3. (s \ {Any(s)}) \cap C = (s \cap C) \ {Any(s)}
    OBVIOUS
  <2>4. Cardinality((s \cap C) \ {Any(s)})
          = IF Any(s) \in s \cap C THEN Cardinality(s \cap C) - 1 ELSE Cardinality(s \cap C)
    BY <1>1, FS_RemoveElement
  <2>5. Cardinality(s \cap C) \in Nat
    BY <1>1
  <2>6. f[Any(s)] = IF Any(s) \in C THEN 1 ELSE 0
    BY <2>1
  <2>. HIDE DEF it, f
  <2>. QED BY <2>1, <2>2, <2>3, <2>4, <2>5, <2>6
<1>5. f \in [D -> Nat]
  OBVIOUS
<1>6. it[D] = Cardinality(C)
  <2>1. D \cap C = C
    OBVIOUS
  <2>. QED BY <2>1
<1>. HIDE DEF it, f
<1>7. SumOver(f, D, it)
  BY <1>2, <1>3, <1>4 DEF SumOver
<1>8. Sum(f) = it[D]
  BY <1>5, <1>7, SumIs
<1>. QED BY <1>6, <1>8 DEF f

LEMMA SumOfOne ==
    ASSUME NEW D, IsFiniteSet(D), NEW f \in [D -> Nat], NEW x_ \in D,
           \A y_ \in D : y_ # x_ => f[y_] = 0
    PROVE  Sum(f) = f[x_]
<1>. DEFINE it == [s \in SUBSET D |-> IF x_ \in s THEN f[x_] ELSE 0]
<1>1. it \in [SUBSET D -> Nat] /\ it[{}] = 0 /\ it[D] = f[x_]
  OBVIOUS
<1>2. ASSUME NEW s \in (SUBSET D) \ {{}} PROVE it[s] = f[Any(s)] + it[s \ {Any(s)}]
  <2>1. Any(s) \in s /\ s \ {Any(s)} \in SUBSET D /\ Any(s) \in D
    BY AnyIn
  <2>2. f[x_] \in Nat
    OBVIOUS
  <2>. QED BY <2>1, <2>2
<1>. HIDE DEF it
<1>3. SumOver(f, D, it)
  BY <1>1, <1>2 DEF SumOver
<1>. QED BY <1>1, <1>3, SumIs

LEMMA SumAtLeast ==
    ASSUME NEW D, IsFiniteSet(D), NEW f \in [D -> Nat], NEW x_ \in D
    PROVE  f[x_] <= Sum(f)
<1>. DEFINE one == [y_ \in D |-> IF y_ = x_ THEN f[x_] ELSE 0]
            rest == [y_ \in D |-> IF y_ = x_ THEN 0 ELSE f[y_]]
<1>1. one \in [D -> Nat] /\ rest \in [D -> Nat] /\ one[x_] = f[x_]
      /\ (\A y_ \in D : y_ # x_ => one[y_] = 0) /\ (\A y_ \in D : f[y_] = one[y_] + rest[y_])
  OBVIOUS
<1>. HIDE DEF one, rest
<1>2. Sum(f) = Sum(one) + Sum(rest)
  BY <1>1, SumAdds
<1>3. Sum(one) = f[x_] /\ Sum(rest) \in Nat
  BY <1>1, SumOfOne, SumIs
<1>. QED BY <1>1, <1>2, <1>3
-----------------------------------------------------------------------------
(* MemPod: types, and where every segment is *)

\* While the behaviour is not disturbed the tables agree with the data, the queued
\* requests fit them, and the unit swaps the pair of the front request.
Placed ==
    /\ ~failed
    /\ TablesAgree(address_remapping_table, invert_address_remapping_table, contents)
    /\ QueueFits(remapping_request_queue, contents)
    /\ base_address # Pod!Idle =>
          /\ remapping_request_queue # <<>>
          /\ base_address = <<Head(remapping_request_queue).h_fm,
                              Head(remapping_request_queue).h_sm>>

PodInv == Pod!TypeOK /\ (~disturbed => Placed)

LEMMA PodTypes ==
    ASSUME Pod!TypeOK
    PROVE  /\ Counted
           /\ address_remapping_table \in [Pod!Segment -> Pod!Segment]
           /\ invert_address_remapping_table \in [Pod!Victim -> Pod!Segment]
           /\ contents \in [Pod!Segment -> Pod!Segment]
           /\ remapping_request_queue \in Seq(Pod!Request)
           /\ Len(remapping_request_queue) <= REMAPPING_REQUEST_QUEUE_LENGTH
           /\ Len(remapping_request_queue) \in Nat
           /\ remapping_request_queue # <<>> =>
                 /\ Head(remapping_request_queue) \in Pod!Request
                 /\ Head(remapping_request_queue) = remapping_request_queue[1]
                 /\ 1 \in DOMAIN remapping_request_queue
                 /\ Tail(remapping_request_queue) \in Seq(Pod!Request)
                 /\ Len(Tail(remapping_request_queue)) = Len(remapping_request_queue) - 1
                 /\ \A i \in DOMAIN Tail(remapping_request_queue) :
                       /\ i + 1 \in DOMAIN remapping_request_queue
                       /\ i + 1 # 1 /\ i \in Int
                       /\ Tail(remapping_request_queue)[i] = remapping_request_queue[i + 1]
<1>1. /\ DOMAIN mea_counter_table \subseteq Pod!Segment
      /\ Cardinality(DOMAIN mea_counter_table) <= NUMBER_MEA_COUNTER
      /\ swap_fm_address_itr \in 0 .. FastSegments - 1
      /\ remapping_request_queue \in Seq(Pod!Request)
      /\ Len(remapping_request_queue) <= REMAPPING_REQUEST_QUEUE_LENGTH
      /\ address_remapping_table \in [Pod!Segment -> Pod!Segment]
      /\ invert_address_remapping_table \in [Pod!Victim -> Pod!Segment]
      /\ contents \in [Pod!Segment -> Pod!Segment]
  BY PodSets DEF Pod!TypeOK
<1>. DEFINE q == remapping_request_queue
<1>2. q \in Seq(Pod!Request) /\ Len(q) \in Nat
  BY <1>1, LenProperties
<1>3. ASSUME q # <<>>
      PROVE  /\ Head(q) \in Pod!Request /\ Head(q) = q[1] /\ 1 \in DOMAIN q
             /\ Tail(q) \in Seq(Pod!Request) /\ Len(Tail(q)) = Len(q) - 1
             /\ \A i \in DOMAIN Tail(q) : /\ i + 1 \in DOMAIN q /\ i + 1 # 1 /\ i \in Int
                                          /\ Tail(q)[i] = q[i + 1]
  <2>. HIDE DEF q
  <2>1. /\ Head(q) \in Pod!Request /\ Head(q) = q[1] /\ Tail(q) \in Seq(Pod!Request)
        /\ Len(Tail(q)) = Len(q) - 1 /\ Len(q) > 0
        /\ \A i \in 1 .. Len(Tail(q)) : Tail(q)[i] = q[i + 1]
    BY <1>2, <1>3, HeadTailProperties
  <2>2. DOMAIN q = 1 .. Len(q) /\ DOMAIN Tail(q) = 1 .. Len(Tail(q))
    BY <1>2, <2>1, LenProperties
  <2>. QED BY <1>2, <2>1, <2>2
<1>. HIDE DEF q
<1>. QED BY <1>1, <1>2, <1>3 DEF Counted, q

LEMMA PodStart == Pod!Init => PodInv
<1>. SUFFICES ASSUME Pod!Init PROVE PodInv
  OBVIOUS
<1>0. FastSegments \in Nat /\ 0 < FastSegments /\ Segments \in Nat /\ FastSegments < Segments
      /\ MaxAccesses \in Nat /\ NUMBER_MEA_COUNTER \in Nat /\ REMAPPING_REQUEST_QUEUE_LENGTH \in Nat
  BY PodSizes DEF Parameters
<1>1. /\ mea_counter_table = <<>> /\ DOMAIN mea_counter_table = {}
      /\ Cardinality(DOMAIN mea_counter_table) = 0
  BY FS_EmptySet DEF Pod!Init
<1>2. /\ address_remapping_table \in [Pod!Segment -> Pod!Segment]
      /\ contents \in [Pod!Segment -> Pod!Segment]
      /\ accesses \in [Pod!Segment -> 0 .. MaxAccesses]
  BY <1>0 DEF Pod!Init
<1>3. invert_address_remapping_table \in [Pod!Victim -> Pod!Segment]
  BY <1>0 DEF Pod!Init, Pod!Victim, Pod!Segment
<1>4. /\ remapping_request_queue = <<>> /\ remapping_request_queue \in Seq(Pod!Request)
      /\ Len(remapping_request_queue) = 0 /\ DOMAIN remapping_request_queue = {}
      /\ swap_fm_address_itr \in 0 .. FastSegments - 1 /\ base_address = Pod!Idle
      /\ disturbed \in BOOLEAN /\ failed \in BOOLEAN /\ failed = FALSE
  <2>1. disturbed = FALSE /\ failed = FALSE /\ remapping_request_queue = <<>>
        /\ swap_fm_address_itr = 0 /\ base_address = Pod!Idle
    BY DEF Pod!Init
  <2>2. swap_fm_address_itr \in 0 .. FastSegments - 1
    BY <1>0, <2>1
  <2>3. remapping_request_queue \in Seq(Pod!Request) /\ Len(remapping_request_queue) = 0
        /\ DOMAIN remapping_request_queue = {}
    BY <2>1
  <2>. QED BY <2>1, <2>2, <2>3, Zenon
<1>5. Pod!TypeOK
  BY <1>0, <1>1, <1>2, <1>3, <1>4, PodSets DEF Pod!TypeOK
<1>6. TablesAgree(address_remapping_table, invert_address_remapping_table, contents)
  BY <1>0 DEF Pod!Init, Pod!Segment, Pod!Victim, TablesAgree
<1>. QED BY <1>4, <1>5, <1>6 DEF PodInv, Placed, QueueFits

LEMMA DecrementedIs ==
    ASSUME Pod!TypeOK
    PROVE  /\ DOMAIN Pod!Decremented \in SUBSET (DOMAIN mea_counter_table)
           /\ \A s \in DOMAIN Pod!Decremented :
                 /\ Pod!Decremented[s] \in Pod!Count
                 /\ Pod!Decremented[s] = mea_counter_table[s] - 1
           /\ \A s \in DOMAIN mea_counter_table \ DOMAIN Pod!Decremented :
                 mea_counter_table[s] = 1
           /\ \A s \in DOMAIN mea_counter_table : mea_counter_table[s] \in Pod!Count
<1>1. \A s \in DOMAIN mea_counter_table : mea_counter_table[s] \in Pod!Count
  BY DEF Pod!TypeOK
<1>2. /\ DOMAIN Pod!Decremented = {t \in DOMAIN mea_counter_table : mea_counter_table[t] > 1}
      /\ \A s \in DOMAIN Pod!Decremented : Pod!Decremented[s] = mea_counter_table[s] - 1
  BY DEF Pod!Decremented
<1>. QED BY <1>1, <1>2, PodSizes DEF Pod!Count, Parameters

LEMMA MeaAfterIs ==
    ASSUME Pod!TypeOK, NEW s \in Pod!Segment
    PROVE  /\ DOMAIN Pod!MeaAfter(s) \subseteq Pod!Segment
           /\ \A t \in DOMAIN Pod!MeaAfter(s) : Pod!MeaAfter(s)[t] \in Pod!Count
           /\ Cardinality(DOMAIN Pod!MeaAfter(s)) <= NUMBER_MEA_COUNTER
<1>. DEFINE counted == DOMAIN mea_counter_table
            next == Pod!MeaAfter(s)
<1>0. MEA_COUNTER_MAX_VALUE \in Nat /\ NUMBER_MEA_COUNTER \in Nat
  BY PodSizes DEF Parameters
<1>1. /\ counted \subseteq Pod!Segment /\ IsFiniteSet(counted) /\ Cardinality(counted) \in Nat
      /\ Cardinality(counted) <= NUMBER_MEA_COUNTER
  <2>1. IsFiniteSet(Pod!Segment)
    BY PodSizes, FS_Interval DEF Pod!Segment, Parameters
  <2>2. counted \in SUBSET Pod!Segment /\ Cardinality(counted) <= NUMBER_MEA_COUNTER
    BY PodTypes DEF Counted
  <2>. QED BY <2>1, <2>2, FS_Subset, FS_CardinalityType
<1>2. CASE s \in counted
  <2>1. next = [mea_counter_table EXCEPT ![s] =
                  IF @ <= MEA_COUNTER_MAX_VALUE THEN @ + 1 ELSE @]
    BY <1>2 DEF Pod!MeaAfter
  <2>2. DOMAIN next = counted
    BY <2>1
  <2>3. \A t \in counted : next[t] \in Pod!Count
    BY <1>0, <2>1 DEF Pod!TypeOK, Pod!Count
  <2>. QED BY <1>1, <2>2, <2>3
<1>3. CASE s \notin counted /\ Cardinality(counted) >= NUMBER_MEA_COUNTER
  <2>1. next = Pod!Decremented
    BY <1>3, PodSets DEF Pod!MeaAfter
  <2>2. /\ DOMAIN next \in SUBSET counted /\ \A t \in DOMAIN next : next[t] \in Pod!Count
    BY <2>1, DecrementedIs
  <2>3. Cardinality(DOMAIN next) <= Cardinality(counted) /\ Cardinality(DOMAIN next) \in Nat
    <3>. HIDE DEF next, counted
    <3>. QED BY <1>1, <2>2, FS_Subset, FS_CardinalityType
  <2>. QED BY <1>0, <1>1, <2>2, <2>3
<1>4. CASE s \notin counted /\ ~(Cardinality(counted) >= NUMBER_MEA_COUNTER)
  <2>1. next = [t \in counted \cup {s} |-> IF t = s THEN 1 ELSE mea_counter_table[t]]
    BY <1>4, PodSets DEF Pod!MeaAfter
  <2>2. DOMAIN next = counted \cup {s}
    BY <2>1
  <2>3. \A t \in DOMAIN next : next[t] \in Pod!Count
    BY <1>0, <2>1 DEF Pod!TypeOK, Pod!Count
  <2>4. Cardinality(counted \cup {s}) = Cardinality(counted) + 1
    BY <1>1, <1>4, FS_AddElement
  <2>. QED BY <1>0, <1>1, <1>4, <2>2, <2>3, <2>4
<1>. QED BY <1>2, <1>3, <1>4

LEMMA AccessKeepsPod ==
    ASSUME PodInv, NEW s \in Pod!Segment, Pod!Access(s) PROVE PodInv'
<1>1. mea_counter_table' = Pod!MeaAfter(s)
      /\ accesses' = [accesses EXCEPT ![s] = @ + 1]
      /\ UNCHANGED <<address_remapping_table, invert_address_remapping_table,
                     remapping_request_queue, swap_fm_address_itr, base_address, contents,
                     disturbed, failed>>
  BY DEF Pod!Access
<1>2. /\ DOMAIN mea_counter_table' \subseteq Pod!Segment
      /\ \A t \in DOMAIN mea_counter_table' : mea_counter_table'[t] \in Pod!Count
      /\ Cardinality(DOMAIN mea_counter_table') <= NUMBER_MEA_COUNTER
  BY <1>1, MeaAfterIs DEF PodInv
<1>3. accesses' \in [Pod!Segment -> 0 .. MaxAccesses]
  <2>1. IsFiniteSet(Pod!Segment) /\ MaxAccesses \in Nat
    BY PodSizes, FS_Interval DEF Pod!Segment, Parameters
  <2>2. accesses \in [Pod!Segment -> 0 .. MaxAccesses] /\ accesses \in [Pod!Segment -> Nat]
    BY DEF PodInv, Pod!TypeOK
  <2>3. accesses[s] <= Sum(accesses) /\ Sum(accesses) \in Nat
    BY <2>1, <2>2, SumAtLeast, SumIs
  <2>4. Sum(accesses) < MaxAccesses
    BY DEF Pod!Access, Pod!Accesses, Sum
  <2>. QED BY <1>1, <2>1, <2>2, <2>3, <2>4
<1>4. Pod!TypeOK'
  BY <1>1, <1>2, <1>3, PodSets DEF PodInv, Pod!TypeOK
<1>5. (~disturbed => Placed)'
  BY <1>1 DEF PodInv, Placed, QueueFits, TablesAgree
<1>. QED BY <1>4, <1>5 DEF PodInv

LEMMA CheckKeepsTypes ==
    ASSUME Pod!TypeOK, NEW ends \in BOOLEAN,
           NEW table \in [Pod!Segment -> Pod!Segment],
           NEW invert \in [Pod!Victim -> Pod!Segment],
           NEW queue \in Seq(Pod!Request), Len(queue) <= REMAPPING_REQUEST_QUEUE_LENGTH,
           NEW kept \in Seq(Pod!Request), Len(kept) <= REMAPPING_REQUEST_QUEUE_LENGTH,
           NEW unit, unit = Pod!Idle \/ unit \in Pod!Victim \X Pod!Segment,
           Pod!CheckInterval(ends, table, invert, queue, kept, unit),
           contents' \in [Pod!Segment -> Pod!Segment]
    PROVE  Pod!TypeOK'
<1>. DEFINE pairs == Pod!AllPaired(table, invert, kept)
<1>1. pairs \in Pairing /\ Len(pairs.queue) <= REMAPPING_REQUEST_QUEUE_LENGTH
  BY PodTypes, PairsAre
<1>. HIDE DEF pairs
<1>2. /\ address_remapping_table' = table /\ invert_address_remapping_table' = invert
      /\ base_address' = unit /\ mea_counter_table' = mea_counter_table /\ accesses' = accesses
  BY DEF Pod!CheckInterval
<1>3. /\ remapping_request_queue' \in Seq(Pod!Request)
      /\ Len(remapping_request_queue') <= REMAPPING_REQUEST_QUEUE_LENGTH
      /\ swap_fm_address_itr' \in 0 .. FastSegments - 1
  <2>1. CASE ends
    <3>1. remapping_request_queue' = pairs.queue /\ swap_fm_address_itr' = pairs.itr
      BY <2>1 DEF Pod!CheckInterval, pairs
    <3>. QED BY <1>1, <3>1 DEF Pairing
  <2>2. CASE ~ends
    <3>1. remapping_request_queue' = queue /\ swap_fm_address_itr' = swap_fm_address_itr
      BY <2>2 DEF Pod!CheckInterval
    <3>. QED BY <3>1 DEF Pod!TypeOK
  <2>. QED BY <2>1, <2>2
<1>4. disturbed' \in BOOLEAN /\ failed' \in BOOLEAN
  <2>0. disturbed \in BOOLEAN /\ failed \in BOOLEAN
    BY DEF Pod!TypeOK
  <2>1. CASE ends
    <3>1. disturbed' = (disturbed \/ unit # Pod!Idle \/ pairs.over) /\ failed' = pairs.same
      BY <2>1, Zenon DEF Pod!CheckInterval, pairs
    <3>2. pairs.same \in BOOLEAN /\ pairs.over \in BOOLEAN
      BY <1>1 DEF Pairing
    <3>. QED BY <2>0, <3>1, <3>2
  <2>2. CASE ~ends
    <3>1. disturbed' = disturbed /\ failed' = failed
      BY <2>2 DEF Pod!CheckInterval
    <3>. QED BY <2>0, <3>1, Zenon
  <2>. QED BY <2>1, <2>2
<1>5. /\ DOMAIN mea_counter_table \subseteq Pod!Segment
      /\ \A s \in DOMAIN mea_counter_table : mea_counter_table[s] \in Pod!Count
      /\ Pod!Cardinality(DOMAIN mea_counter_table) <= NUMBER_MEA_COUNTER
      /\ accesses \in [Pod!Segment -> 0 .. MaxAccesses]
  BY DEF Pod!TypeOK
<1>. QED BY <1>2, <1>3, <1>4, <1>5 DEF Pod!TypeOK

\* An interval that ends without disturbing leaves requests that fit.
LEMMA CheckKeepsPlaced ==
    ASSUME Pod!TypeOK, NEW ends \in BOOLEAN,
           NEW table \in [Pod!Segment -> Pod!Segment],
           NEW invert \in [Pod!Victim -> Pod!Segment],
           NEW queue, NEW kept, NEW unit,
           Pod!CheckInterval(ends, table, invert, queue, kept, unit),
           contents' \in [Pod!Segment -> Pod!Segment],
           TablesAgree(table, invert, contents'), QueueFits(queue, contents'),
           unit = Pod!Idle => kept = <<>>,
           unit # Pod!Idle => queue # <<>> /\ unit = <<Head(queue).h_fm, Head(queue).h_sm>>,
           ~failed, ~disturbed'
    PROVE  Placed'
<1>. DEFINE pairs == Pod!AllPaired(table, invert, kept)
<1>1. /\ address_remapping_table' = table /\ invert_address_remapping_table' = invert
      /\ base_address' = unit
  BY DEF Pod!CheckInterval
<1>2. CASE ends
  <2>1. /\ remapping_request_queue' = pairs.queue /\ failed' = pairs.same
        /\ disturbed' = (disturbed \/ unit # Pod!Idle \/ pairs.over)
    BY <1>2, Zenon DEF Pod!CheckInterval
  <2>2. unit = Pod!Idle /\ ~pairs.over
    <3>. HIDE DEF pairs
    <3>. QED BY <2>1, Zenon
  <2>3. kept = <<>>
    BY <2>2
  <2>4. Counted
    BY PodTypes
  <2>5. ~pairs.same /\ QueueFits(pairs.queue, contents')
    BY <2>2, <2>3, <2>4, PairsFit
  <2>. HIDE DEF pairs
  <2>6. failed' = FALSE \/ ~failed'
    BY <2>1, <2>5, Zenon
  <2>. QED BY <1>1, <2>1, <2>2, <2>5, <2>6 DEF Placed, TablesAgree, QueueFits
<1>3. CASE ~ends
  <2>1. remapping_request_queue' = queue /\ failed' = failed
    BY <1>3 DEF Pod!CheckInterval
  <2>. QED BY <1>1, <2>1 DEF Placed, TablesAgree, QueueFits
<1>. QED BY <1>2, <1>3

LEMMA FrontUnit ==
    ASSUME Pod!TypeOK, remapping_request_queue # <<>>
    PROVE  <<Head(remapping_request_queue).h_fm, Head(remapping_request_queue).h_sm>>
              \in Pod!Victim \X Pod!Segment
BY PodTypes DEF Pod!Request

LEMMA OperateIdleKeepsPod ==
    ASSUME PodInv, NEW ends \in BOOLEAN, Pod!OperateIdle(ends) PROVE PodInv'
<1>. DEFINE q == remapping_request_queue
            unit == IF q = <<>> THEN Pod!Idle ELSE <<Head(q).h_fm, Head(q).h_sm>>
<1>1. /\ Pod!CheckInterval(ends, address_remapping_table, invert_address_remapping_table,
                           q, <<>>, unit)
      /\ contents' = contents
  BY DEF Pod!OperateIdle
<1>2. unit = Pod!Idle \/ unit \in Pod!Victim \X Pod!Segment
  BY FrontUnit DEF PodInv
<1>3. <<>> \in Seq(Pod!Request) /\ Len(<<>>) <= REMAPPING_REQUEST_QUEUE_LENGTH
  BY PodSizes DEF Parameters
<1>. HIDE DEF unit
<1>4. Pod!TypeOK'
  BY <1>1, <1>2, <1>3, PodTypes, CheckKeepsTypes DEF PodInv
<1>5. ASSUME ~disturbed' PROVE Placed'
  <2>1. ~disturbed
    <3>1. CASE ends
      BY <1>1, <1>5, <3>1, Zenon DEF Pod!CheckInterval
    <3>2. CASE ~ends
      BY <1>1, <1>5, <3>2 DEF Pod!CheckInterval
    <3>. QED BY <3>1, <3>2
  <2>2. Placed
    BY <2>1 DEF PodInv
  <2>3. unit # Pod!Idle => q # <<>> /\ unit = <<Head(q).h_fm, Head(q).h_sm>>
    BY DEF unit
  <2>4. /\ ~failed
        /\ TablesAgree(address_remapping_table, invert_address_remapping_table, contents')
        /\ QueueFits(q, contents')
    BY <1>1, <2>2 DEF Placed
  <2>. QED BY <1>1, <1>5, <2>3, <2>4, PodTypes, CheckKeepsPlaced DEF PodInv
<1>. QED BY <1>4, <1>5 DEF PodInv

LEMMA OperateBusyKeepsPod ==
    ASSUME PodInv, NEW ends \in BOOLEAN, Pod!OperateBusy(ends) PROVE PodInv'
<1>. DEFINE q == remapping_request_queue
<1>1. /\ base_address # Pod!Idle /\ q # <<>>
      /\ Pod!CheckInterval(ends, address_remapping_table, invert_address_remapping_table,
                           q, <<Head(q)>>, base_address)
      /\ contents' = contents
  BY DEF Pod!OperateBusy
<1>2. base_address = Pod!Idle \/ base_address \in Pod!Victim \X Pod!Segment
  BY DEF PodInv, Pod!TypeOK
<1>3. <<Head(q)>> \in Seq(Pod!Request) /\ Len(<<Head(q)>>) <= REMAPPING_REQUEST_QUEUE_LENGTH
  <2>1. Head(q) \in Pod!Request /\ Len(q) <= REMAPPING_REQUEST_QUEUE_LENGTH /\ Len(q) \in Nat
        /\ DOMAIN q = 1 .. Len(q) /\ 1 \in DOMAIN q
    BY <1>1, PodTypes, LenProperties DEF PodInv
  <2>. QED BY <2>1, PodSizes DEF Parameters
<1>4. Pod!TypeOK'
  BY <1>1, <1>2, <1>3, PodTypes, CheckKeepsTypes DEF PodInv
<1>5. ASSUME ~disturbed' PROVE Placed'
  <2>1. ~disturbed /\ ~ends
    <3>1. ~ends
      BY <1>1, <1>5, Zenon DEF Pod!CheckInterval
    <3>. QED BY <1>1, <1>5, <3>1 DEF Pod!CheckInterval
  <2>2. Placed
    BY <2>1 DEF PodInv
  <2>3. base_address # Pod!Idle => q # <<>> /\ base_address = <<Head(q).h_fm, Head(q).h_sm>>
    BY <2>2 DEF Placed
  <2>4. /\ ~failed
        /\ TablesAgree(address_remapping_table, invert_address_remapping_table, contents')
        /\ QueueFits(q, contents')
    BY <1>1, <2>2 DEF Placed
  <2>. QED BY <1>1, <1>5, <2>3, <2>4, PodTypes, CheckKeepsPlaced DEF PodInv
<1>. QED BY <1>4, <1>5 DEF PodInv

LEMMA FrameSets ==
    /\ \A f : f \in Pod!Segment <=> f \in Int /\ 0 <= f /\ f < Segments
    /\ \A f : f \in Pod!Victim <=> f \in Int /\ 0 <= f /\ f <= FastSegments
    /\ \A f : f \in 0 .. FastSegments - 1 <=> f \in Int /\ 0 <= f /\ f < FastSegments
    /\ FastSegments \in Nat /\ 0 < FastSegments /\ Segments \in Nat /\ FastSegments < Segments
    /\ \A r \in Pod!Request : /\ r.h_fm \in Pod!Victim /\ r.h_fm \in Pod!Segment
                              /\ r.h_sm \in Pod!Segment /\ r.p_fm \in Pod!Segment
                              /\ r.p_sm \in Pod!Segment
<1>1. FastSegments \in Nat /\ 0 < FastSegments /\ Segments \in Nat /\ FastSegments < Segments
  BY PodSizes DEF Parameters
<1>2. /\ \A f : f \in Pod!Segment <=> f \in Int /\ 0 <= f /\ f < Segments
      /\ \A f : f \in Pod!Victim <=> f \in Int /\ 0 <= f /\ f <= FastSegments
      /\ \A f : f \in 0 .. FastSegments - 1 <=> f \in Int /\ 0 <= f /\ f < FastSegments
  BY <1>1 DEF Pod!Segment, Pod!Victim
<1>3. ASSUME NEW r \in Pod!Request
      PROVE  /\ r.h_fm \in Pod!Victim /\ r.h_sm \in Pod!Segment /\ r.p_fm \in Pod!Segment
             /\ r.p_sm \in Pod!Segment
  BY DEF Pod!Request
<1>4. \A f \in Pod!Victim : f \in Pod!Segment
  BY <1>1, <1>2
<1>. QED BY <1>1, <1>2, <1>3, <1>4

\* Exchanging the frames of a request that fits: the tables still agree with the data,
\* and the requests behind it still fit.
LEMMA FinishFits ==
    ASSUME NEW table \in [Pod!Segment -> Pod!Segment],
           NEW invert \in [Pod!Victim -> Pod!Segment],
           NEW c \in [Pod!Segment -> Pod!Segment], TablesAgree(table, invert, c),
           NEW q \in Seq(Pod!Request), q # <<>>, QueueFits(q, c)
    PROVE  LET r == Head(q)
               d == [c EXCEPT ![r.h_fm] = c[r.h_sm], ![r.h_sm] = c[r.h_fm]]
           IN  /\ TablesAgree([table EXCEPT ![r.p_sm] = r.h_fm, ![r.p_fm] = r.h_sm],
                              [invert EXCEPT ![r.h_fm] = r.p_sm], d)
               /\ QueueFits(Tail(q), d)
<1>. DEFINE r == Head(q)
            d == [c EXCEPT ![r.h_fm] = c[r.h_sm], ![r.h_sm] = c[r.h_fm]]
            t == [table EXCEPT ![r.p_sm] = r.h_fm, ![r.p_fm] = r.h_sm]
            i == [invert EXCEPT ![r.h_fm] = r.p_sm]
<1>0. FastSegments \in Nat /\ 0 < FastSegments /\ Segments \in Nat /\ FastSegments < Segments
  BY PodSizes DEF Parameters
<1>1. /\ r \in Pod!Request /\ r = q[1] /\ 1 \in DOMAIN q
      /\ \A n \in DOMAIN Tail(q) : /\ n + 1 \in DOMAIN q /\ n + 1 # 1 /\ n \in Int
                                   /\ Tail(q)[n] = q[n + 1] /\ Tail(q)[n] \in Pod!Request
  <2>1. /\ Head(q) \in Pod!Request /\ Head(q) = q[1] /\ Tail(q) \in Seq(Pod!Request)
        /\ Len(Tail(q)) = Len(q) - 1 /\ Len(q) > 0
        /\ \A n \in 1 .. Len(Tail(q)) : Tail(q)[n] = q[n + 1]
    BY HeadTailProperties
  <2>2. DOMAIN q = 1 .. Len(q) /\ DOMAIN Tail(q) = 1 .. Len(Tail(q)) /\ Len(q) \in Nat
        /\ \A n \in DOMAIN Tail(q) : Tail(q)[n] \in Pod!Request
    BY <2>1, LenProperties, ElementOfSeq
  <2>. QED BY <2>1, <2>2
<1>2. /\ r.h_fm \in Pod!Segment /\ r.h_sm \in Pod!Segment /\ r.h_fm # r.h_sm
      /\ r.h_fm \in 0 .. FastSegments - 1 /\ r.h_sm >= FastSegments
      /\ r.p_fm = c[r.h_fm] /\ r.p_sm = c[r.h_sm]
      /\ r.p_fm \in Pod!Segment /\ r.p_sm \in Pod!Segment
  <2>1. /\ r.h_fm < FastSegments /\ r.h_sm >= FastSegments
        /\ r.p_fm = c[r.h_fm] /\ r.p_sm = c[r.h_sm]
    BY <1>1 DEF QueueFits
  <2>2. /\ r.h_fm \in Pod!Victim /\ r.h_fm \in Pod!Segment /\ r.h_sm \in Pod!Segment
        /\ r.p_fm \in Pod!Segment /\ r.p_sm \in Pod!Segment
    BY <1>1, FrameSets
  <2>. HIDE DEF r
  <2>. QED BY <2>1, <2>2, FrameSets
<1>3. table[r.p_fm] = r.h_fm /\ table[r.p_sm] = r.h_sm /\ r.p_fm # r.p_sm
  BY <1>2 DEF TablesAgree
<1>. HIDE DEF r
<1>4. /\ d \in [Pod!Segment -> Pod!Segment] /\ d[r.h_fm] = r.p_sm /\ d[r.h_sm] = r.p_fm
      /\ \A f \in Pod!Segment : f # r.h_fm /\ f # r.h_sm => d[f] = c[f]
  BY <1>2
<1>5. /\ t \in [Pod!Segment -> Pod!Segment] /\ t[r.p_sm] = r.h_fm /\ t[r.p_fm] = r.h_sm
      /\ \A s \in Pod!Segment : s # r.p_fm /\ s # r.p_sm => t[s] = table[s]
  BY <1>2, <1>3
<1>6. \A f \in 0 .. FastSegments - 1 :
         f \in Pod!Segment /\ i[f] = IF f = r.h_fm THEN r.p_sm ELSE invert[f]
  <2>1. \A f \in 0 .. FastSegments - 1 : f \in Pod!Victim /\ f \in Pod!Segment
    BY <1>0 DEF Pod!Victim, Pod!Segment
  <2>. QED BY <2>1
<1>. HIDE DEF d, t, i
<1>7. \A s \in Pod!Segment : d[t[s]] = s
  <2>. SUFFICES ASSUME NEW s \in Pod!Segment PROVE d[t[s]] = s
    OBVIOUS
  <2>1. c[table[s]] = s /\ table[s] \in Pod!Segment
    BY DEF TablesAgree
  <2>2. CASE s # r.p_fm /\ s # r.p_sm
    BY <1>2, <1>4, <1>5, <2>1, <2>2
  <2>. QED BY <1>2, <1>4, <1>5, <2>2
<1>8. \A f \in Pod!Segment : t[d[f]] = f
  <2>. SUFFICES ASSUME NEW f \in Pod!Segment PROVE t[d[f]] = f
    OBVIOUS
  <2>1. table[c[f]] = f /\ c[f] \in Pod!Segment
    BY DEF TablesAgree
  <2>2. CASE f # r.h_fm /\ f # r.h_sm
    BY <1>2, <1>3, <1>4, <1>5, <2>1, <2>2
  <2>. QED BY <1>2, <1>4, <1>5, <2>2
<1>9. \A f \in 0 .. FastSegments - 1 : i[f] = d[f]
  BY <1>0, <1>2, <1>4, <1>6 DEF TablesAgree
<1>10. TablesAgree(t, i, d)
  BY <1>7, <1>8, <1>9 DEF TablesAgree
<1>11. ASSUME NEW n \in DOMAIN Tail(q)
       PROVE  /\ Tail(q)[n].h_fm < FastSegments /\ Tail(q)[n].h_sm >= FastSegments
              /\ Tail(q)[n].p_fm = d[Tail(q)[n].h_fm] /\ Tail(q)[n].p_sm = d[Tail(q)[n].h_sm]
  <2>1. n + 1 \in DOMAIN q /\ n + 1 # 1 /\ Tail(q)[n] = q[n + 1] /\ q[n + 1] \in Pod!Request
    BY <1>1
  <2>2. /\ q[n + 1].h_fm < FastSegments /\ q[n + 1].h_sm >= FastSegments
        /\ q[n + 1].p_fm = c[q[n + 1].h_fm] /\ q[n + 1].p_sm = c[q[n + 1].h_sm]
    BY <2>1 DEF QueueFits
  <2>3. q[n + 1].h_fm # r.h_fm /\ q[n + 1].h_sm # r.h_sm
    BY <1>1, <2>1 DEF QueueFits
  <2>4. q[n + 1].h_fm \in Pod!Segment /\ q[n + 1].h_sm \in Pod!Segment
    BY <2>1, FrameSets
  <2>5. q[n + 1].h_fm # r.h_sm /\ q[n + 1].h_sm # r.h_fm
    <3>1. /\ q[n + 1].h_fm \in Int /\ q[n + 1].h_sm \in Int
          /\ r.h_fm \in Int /\ r.h_sm \in Int /\ r.h_fm < FastSegments
      BY <1>2, <2>4, FrameSets
    <3>. QED BY <1>0, <1>2, <2>2, <3>1
  <2>. QED BY <1>4, <2>1, <2>2, <2>3, <2>4, <2>5
<1>12. ASSUME NEW n \in DOMAIN Tail(q), NEW m \in DOMAIN Tail(q),
              Tail(q)[n].h_fm = Tail(q)[m].h_fm \/ Tail(q)[n].h_sm = Tail(q)[m].h_sm
       PROVE  n = m
  <2>1. n + 1 = m + 1
    BY <1>1, <1>12 DEF QueueFits
  <2>. QED BY <1>1, <2>1
<1>13. QueueFits(Tail(q), d)
  BY <1>11, <1>12 DEF QueueFits
<1>. QED BY <1>10, <1>13 DEF r, t, i, d

LEMMA OperateFinishKeepsPod ==
    ASSUME PodInv, NEW ends \in BOOLEAN, Pod!OperateFinish(ends) PROVE PodInv'
<1>. DEFINE q == remapping_request_queue
            r == Head(q)
            table == [address_remapping_table EXCEPT ![r.p_sm] = r.h_fm, ![r.p_fm] = r.h_sm]
            invert == [invert_address_remapping_table EXCEPT ![r.h_fm] = r.p_sm]
            d == [contents EXCEPT ![base_address[1]] = contents[base_address[2]],
                                  ![base_address[2]] = contents[base_address[1]]]
<1>0. FastSegments \in Nat /\ 0 < FastSegments /\ Segments \in Nat /\ FastSegments < Segments
  BY PodSizes DEF Parameters
<1>1. /\ base_address # Pod!Idle /\ q # <<>> /\ contents' = d
      /\ Pod!CheckInterval(ends, table, invert, Tail(q), <<>>, Pod!Idle)
  BY DEF Pod!OperateFinish
<1>2. /\ r \in Pod!Request /\ Tail(q) \in Seq(Pod!Request) /\ Len(Tail(q)) = Len(q) - 1
      /\ Len(q) <= REMAPPING_REQUEST_QUEUE_LENGTH /\ Len(q) \in Nat
      /\ address_remapping_table \in [Pod!Segment -> Pod!Segment]
      /\ invert_address_remapping_table \in [Pod!Victim -> Pod!Segment]
      /\ contents \in [Pod!Segment -> Pod!Segment] /\ q \in Seq(Pod!Request)
  BY <1>1, PodTypes DEF PodInv
<1>3. r.p_sm \in Pod!Segment /\ r.p_fm \in Pod!Segment /\ r.h_sm \in Pod!Segment
      /\ r.h_fm \in Pod!Victim /\ Pod!Victim \in SUBSET Pod!Segment
  BY <1>2, FrameSets
<1>4. table \in [Pod!Segment -> Pod!Segment] /\ invert \in [Pod!Victim -> Pod!Segment]
  <2>. HIDE DEF q
  <2>. QED BY <1>2, <1>3
<1>5. contents' \in [Pod!Segment -> Pod!Segment]
  <2>1. base_address[1] \in Pod!Segment /\ base_address[2] \in Pod!Segment
    BY <1>1, <1>3 DEF PodInv, Pod!TypeOK
  <2>. QED BY <1>1, <1>2, <2>1
<1>6. /\ <<>> \in Seq(Pod!Request) /\ Len(<<>>) <= REMAPPING_REQUEST_QUEUE_LENGTH
      /\ Len(Tail(q)) <= REMAPPING_REQUEST_QUEUE_LENGTH
  BY <1>2, PodSizes DEF Parameters
<1>7. Pod!TypeOK'
  <2>. HIDE DEF table, invert, q
  <2>. QED BY <1>1, <1>2, <1>4, <1>5, <1>6, CheckKeepsTypes DEF PodInv
<1>8. ASSUME ~disturbed' PROVE Placed'
  <2>1. ~disturbed
    <3>. HIDE DEF table, invert, q
    <3>1. CASE ends
      BY <1>1, <1>8, <3>1, Zenon DEF Pod!CheckInterval
    <3>2. CASE ~ends
      BY <1>1, <1>8, <3>2 DEF Pod!CheckInterval
    <3>. QED BY <3>1, <3>2
  <2>2. Placed
    BY <2>1 DEF PodInv
  <2>3. /\ ~failed /\ QueueFits(q, contents) /\ base_address = <<r.h_fm, r.h_sm>>
        /\ TablesAgree(address_remapping_table, invert_address_remapping_table, contents)
    BY <1>1, <2>2 DEF Placed
  <2>4. contents' = [contents EXCEPT ![r.h_fm] = contents[r.h_sm], ![r.h_sm] = contents[r.h_fm]]
    BY <1>1, <2>3
  <2>5. TablesAgree(table, invert, contents') /\ QueueFits(Tail(q), contents')
    <3>1. /\ address_remapping_table \in [Pod!Segment -> Pod!Segment]
          /\ invert_address_remapping_table \in [Pod!Victim -> Pod!Segment]
          /\ contents \in [Pod!Segment -> Pod!Segment] /\ q \in Seq(Pod!Request) /\ q # <<>>
      BY <1>1, <1>2
    <3>2. LET r_ == Head(q)
              d_ == [contents EXCEPT ![r_.h_fm] = contents[r_.h_sm],
                                     ![r_.h_sm] = contents[r_.h_fm]]
          IN  /\ TablesAgree([address_remapping_table EXCEPT ![r_.p_sm] = r_.h_fm,
                                                             ![r_.p_fm] = r_.h_sm],
                              [invert_address_remapping_table EXCEPT ![r_.h_fm] = r_.p_sm], d_)
              /\ QueueFits(Tail(q), d_)
      <4>. HIDE DEF q
      <4>. QED BY <2>3, <3>1, FinishFits, Zenon
    <3>. QED BY <2>4, <3>2
  <2>. HIDE DEF table, invert, q
  <2>. QED BY <1>1, <1>4, <1>5, <1>8, <2>3, <2>5, CheckKeepsPlaced DEF PodInv
<1>. QED BY <1>7, <1>8 DEF PodInv

LEMMA OperateFailKeepsPod == ASSUME PodInv, Pod!OperateFail PROVE PodInv'
<1>1. disturbed
  BY DEF Pod!OperateFail, PodInv, Placed
<1>2. failed' \in BOOLEAN
  BY DEF Pod!OperateFail
<1>3. UNCHANGED <<mea_counter_table, address_remapping_table, accesses, contents,
                   invert_address_remapping_table, remapping_request_queue,
                   swap_fm_address_itr, base_address, disturbed>>
  BY DEF Pod!OperateFail
<1>. QED BY <1>1, <1>2, <1>3 DEF PodInv, Pod!TypeOK

LEMMA PodKept == ASSUME PodInv, Pod!Next PROVE PodInv'
<1>1. ASSUME NEW ends \in {FALSE, ~disturbed} PROVE ends \in BOOLEAN
  OBVIOUS
<1>. QED BY <1>1, AccessKeepsPod, OperateIdleKeepsPod, OperateBusyKeepsPod,
            OperateFinishKeepsPod, OperateFailKeepsPod DEF Pod!Next

LEMMA PodKeeps == (part = "mempod" => PodInv) /\ [SumNext]_allVars => (part = "mempod" => PodInv)'
<1>. SUFFICES ASSUME part = "mempod" => PodInv, [SumNext]_allVars, part' = "mempod"
              PROVE  PodInv'
  OBVIOUS
<1>1. part' = part
  BY DEF SumNext, allVars
<1>2. PodInv
  BY <1>1
<1>3. CASE Pod!Next
  BY <1>2, <1>3, PodKept
<1>4. CASE UNCHANGED allVars
  BY <1>2, <1>4 DEF allVars, managementVars, podOwnVars, PodInv, Pod!TypeOK, Placed, QueueFits,
                     TablesAgree
<1>. QED BY <1>1, <1>3, <1>4 DEF SumNext

\* Whatever the order of accesses, checks and swaps: the tables and the queue have their
\* sizes, and while no swap was cancelled the tables lead to the data and to each other and
\* the queued swaps are of different segments (determine_swap_pair(), finish_remapping_request()).
THEOREM PodInvariant == SumSpec => [](part = "mempod" => PodInv)
<1>1. SumInit => (part = "mempod" => PodInv)
  BY PodStart DEF SumInit
<1>. QED BY <1>1, PodKeeps, PTL DEF SumSpec

\* As long as no interval ends on a swap, and the search for victims stays in fast memory,
\* every segment is found where its data is, the two tables are inverse on fast memory and
\* no sanity check fails, however many of the queued pairs were exchanged before the rest
\* was cancelled (check_interval_swap(), determine_swap_pair(), finish_remapping_request()).
THEOREM SegmentsAlwaysFound == SumSpec => []SegmentsFound
<1>1. (part = "mempod" => PodInv) => SegmentsFound
  BY DEF PodInv, Placed, TablesAgree, SegmentsFound, Pod!SegmentsFound
<1>. QED BY <1>1, PodInvariant, PTL
-----------------------------------------------------------------------------
(* MemPod: segments with a large share of the accesses *)

\* What the counter of a segment says.
Tally(s) == IF s \in DOMAIN mea_counter_table THEN mea_counter_table[s] ELSE 0
Tallies  == [s \in Pod!Segment |-> Tally(s)]

\* Every time the counters went down, NUMBER_MEA_COUNTER + 1 accesses found no counter
\* that still counts them.
Share(d) ==
    /\ d * (NUMBER_MEA_COUNTER + 1) + Sum(Tallies) <= Sum(accesses)
    /\ \A s \in Pod!Segment :
          /\ Tally(s) <= accesses[s]
          /\ accesses[s] <= MEA_COUNTER_MAX_VALUE + 1 => accesses[s] - Tally(s) <= d

MeaInv == \E d \in Nat : Share(d)

LEMMA TallyTypes ==
    ASSUME Pod!TypeOK
    PROVE  /\ IsFiniteSet(Pod!Segment)
           /\ Tallies \in [Pod!Segment -> Nat] /\ accesses \in [Pod!Segment -> Nat]
           /\ \A s \in Pod!Segment : Tally(s) \in Nat /\ Tallies[s] = Tally(s)
           /\ Sum(Tallies) \in Nat /\ Sum(accesses) \in Nat
<1>1. IsFiniteSet(Pod!Segment)
  BY PodSizes, FS_Interval DEF Pod!Segment, Parameters
<1>2. \A s \in Pod!Segment : Tally(s) \in Nat
  BY PodSizes DEF Pod!TypeOK, Tally, Pod!Count, Parameters
<1>3. Tallies \in [Pod!Segment -> Nat] /\ \A s \in Pod!Segment : Tallies[s] = Tally(s)
  BY <1>2 DEF Tallies
<1>4. accesses \in [Pod!Segment -> Nat]
  BY PodSizes DEF Pod!TypeOK, Parameters
<1>5. Sum(Tallies) \in Nat /\ Sum(accesses) \in Nat
  BY <1>1, <1>3, <1>4, SumIs
<1>. QED BY <1>1, <1>2, <1>3, <1>4, <1>5

LEMMA OneMore ==
    ASSUME NEW D, IsFiniteSet(D), NEW f \in [D -> Nat], NEW g \in [D -> Nat], NEW s \in D,
           \A seg \in D : g[seg] = IF seg = s THEN f[seg] + 1 ELSE f[seg]
    PROVE  Sum(g) = Sum(f) + 1
<1>. DEFINE one == [seg \in D |-> IF seg \in {s} THEN 1 ELSE 0]
<1>1. Sum(one) = 1
  <2>1. {s} \in SUBSET D /\ Cardinality({s}) = 1
    BY FS_Singleton
  <2>. QED BY <2>1, SumCounts
<1>2. one \in [D -> Nat] /\ \A seg \in D : g[seg] = f[seg] + one[seg]
  OBVIOUS
<1>. HIDE DEF one
<1>. QED BY <1>1, <1>2, SumAdds

LEMMA AccessKeepsMea ==
    ASSUME PodInv, MeaInv, PodInv', NEW s \in Pod!Segment, Pod!Access(s) PROVE MeaInv'
<1>0. MEA_COUNTER_MAX_VALUE \in Nat /\ NUMBER_MEA_COUNTER \in Nat
  BY PodSizes DEF Parameters
<1>. DEFINE Seg == Pod!Segment
            K == NUMBER_MEA_COUNTER
            counted == DOMAIN mea_counter_table
            old == [seg \in Seg |-> Tally(seg)]
            new == [seg \in Seg |-> Tally(seg)']
<1>1. /\ IsFiniteSet(Seg) /\ \A seg \in Seg : Tally(seg) \in Nat
      /\ old \in [Seg -> Nat] /\ accesses \in [Seg -> Nat] /\ old = Tallies
      /\ Sum(old) \in Nat /\ Sum(accesses) \in Nat
  BY TallyTypes DEF PodInv, Tallies
<1>2. /\ \A seg \in Seg : Tally(seg)' \in Nat
      /\ new \in [Seg -> Nat] /\ accesses' \in [Seg -> Nat] /\ new = Tallies'
      /\ Sum(new) \in Nat /\ Sum(accesses') \in Nat
  <2>1. Pod!TypeOK'
    BY DEF PodInv
  <2>2. \A seg \in Seg : Tally(seg)' \in Nat
    BY <2>1, PodSizes DEF Pod!TypeOK, Tally, Pod!Count, Parameters
  <2>3. accesses' \in [Seg -> Nat]
    BY <2>1, PodSizes DEF Pod!TypeOK, Parameters
  <2>4. new \in [Seg -> Nat] /\ new = Tallies'
    BY <2>2 DEF Tallies
  <2>. HIDE DEF new
  <2>. QED BY <1>1, <2>2, <2>3, <2>4, SumIs
<1>3. /\ mea_counter_table' = Pod!MeaAfter(s)
      /\ accesses' = [accesses EXCEPT ![s] = @ + 1]
  BY DEF Pod!Access
<1>4. Sum(accesses') = Sum(accesses) + 1
      /\ \A seg \in Seg : accesses'[seg] = IF seg = s THEN accesses[seg] + 1 ELSE accesses[seg]
  <2>1. \A seg \in Seg : accesses'[seg] = IF seg = s THEN accesses[seg] + 1 ELSE accesses[seg]
    BY <1>1, <1>3
  <2>2. \A g \in [Seg -> Nat] :
           (\A seg \in Seg : g[seg] = IF seg = s THEN accesses[seg] + 1 ELSE accesses[seg])
              => Sum(g) = Sum(accesses) + 1
    BY <1>1, OneMore
  <2>. QED BY <1>2, <2>1, <2>2
<1>5. PICK d \in Nat : Share(d)
  BY DEF MeaInv
<1>6. /\ d * (K + 1) + Sum(old) <= Sum(accesses) /\ d * (K + 1) \in Nat
      /\ \A seg \in Seg : /\ Tally(seg) <= accesses[seg]
                          /\ accesses[seg] <= MEA_COUNTER_MAX_VALUE + 1 => accesses[seg] - Tally(seg) <= d
  BY <1>0, <1>1, <1>5 DEF Share
<1>7. \A seg \in Seg : new[seg] = Tally(seg)' /\ old[seg] = Tally(seg)
  OBVIOUS
<1>8. \A e \in Nat : /\ e * (K + 1) + Sum(new) <= Sum(accesses')
                     /\ \A seg \in Seg :
                          /\ Tally(seg)' <= accesses'[seg]
                          /\ accesses'[seg] <= MEA_COUNTER_MAX_VALUE + 1
                                => accesses'[seg] - Tally(seg)' <= e
                     => MeaInv'
  BY <1>2 DEF MeaInv, Share
<1>9. \A seg \in counted : seg \in Seg /\ mea_counter_table[seg] \in 1 .. MEA_COUNTER_MAX_VALUE + 1
  BY DEF PodInv, Pod!TypeOK, Pod!Count
<1>. HIDE DEF new, old, Seg
<1>10. CASE s \in counted /\ mea_counter_table[s] <= MEA_COUNTER_MAX_VALUE
  <2>1. \A seg \in Seg : Tally(seg)' = IF seg = s THEN Tally(seg) + 1 ELSE Tally(seg)
    BY <1>3, <1>9, <1>10 DEF Pod!MeaAfter, Tally
  <2>2. Sum(new) = Sum(old) + 1
    BY <1>1, <1>2, <1>7, <2>1, OneMore DEF Seg
  <2>3. \A seg \in Seg :
           /\ Tally(seg)' <= accesses'[seg]
           /\ accesses'[seg] <= MEA_COUNTER_MAX_VALUE + 1 => accesses'[seg] - Tally(seg)' <= d
    BY <1>0, <1>1, <1>4, <1>6, <2>1
  <2>4. d * (K + 1) + Sum(new) <= Sum(accesses')
    BY <1>1, <1>2, <1>4, <1>6, <2>2
  <2>. QED BY <1>8, <2>3, <2>4
<1>11. CASE s \in counted /\ ~(mea_counter_table[s] <= MEA_COUNTER_MAX_VALUE)
  <2>1. \A seg \in Seg : Tally(seg)' = Tally(seg)
    BY <1>3, <1>9, <1>11 DEF Pod!MeaAfter, Tally
  <2>2. new = old
    BY <2>1 DEF new, old
  <2>3. Tally(s) = MEA_COUNTER_MAX_VALUE + 1
    BY <1>0, <1>9, <1>11 DEF Tally
  <2>4. accesses'[s] > MEA_COUNTER_MAX_VALUE + 1
    BY <1>0, <1>1, <1>4, <1>6, <2>3 DEF Seg
  <2>5. \A seg \in Seg :
           /\ Tally(seg)' <= accesses'[seg]
           /\ accesses'[seg] <= MEA_COUNTER_MAX_VALUE + 1 => accesses'[seg] - Tally(seg)' <= d
    BY <1>0, <1>1, <1>4, <1>6, <2>1, <2>4
  <2>6. d * (K + 1) + Sum(new) <= Sum(accesses')
    BY <1>1, <1>4, <1>6, <2>2
  <2>. QED BY <1>8, <2>5, <2>6
<1>12. CASE s \notin counted /\ Cardinality(counted) >= NUMBER_MEA_COUNTER
  <2>1. mea_counter_table' = Pod!Decremented
    BY <1>3, <1>12, PodSets DEF Pod!MeaAfter
  <2>2. \A seg \in Seg : Tally(seg) = Tally(seg)' + (IF seg \in counted THEN 1 ELSE 0)
    <3>1. /\ DOMAIN mea_counter_table' \in SUBSET counted
          /\ \A seg \in DOMAIN mea_counter_table' : mea_counter_table'[seg] = mea_counter_table[seg] - 1
          /\ \A seg \in counted \ DOMAIN mea_counter_table' : mea_counter_table[seg] = 1
      BY <2>1, DecrementedIs DEF PodInv
    <3>. QED BY <1>0, <1>9, <3>1 DEF Tally
  <2>3. Cardinality(counted) = K /\ counted \in SUBSET Seg
    <3>1. Cardinality(counted) <= K /\ counted \in SUBSET Seg
      BY PodTypes DEF PodInv, Counted, Seg
    <3>2. Cardinality(counted) \in Nat
      BY <1>1, <3>1, FS_Subset, FS_CardinalityType
    <3>. QED BY <1>0, <1>12, <3>1, <3>2
  <2>. DEFINE ones == [seg \in Seg |-> IF seg \in counted THEN 1 ELSE 0]
  <2>4. Sum(ones) = K
    BY <1>1, <2>3, SumCounts
  <2>5. ones \in [Seg -> Nat] /\ \A seg \in Seg : old[seg] = new[seg] + ones[seg]
    BY <1>7, <2>2
  <2>. HIDE DEF ones
  <2>6. Sum(old) = Sum(new) + K
    BY <1>1, <1>2, <2>4, <2>5, SumAdds
  <2>7. d + 1 \in Nat /\ (d + 1) * (K + 1) = d * (K + 1) + K + 1
    BY <1>0
  <2>8. (d + 1) * (K + 1) + Sum(new) <= Sum(accesses')
    BY <1>0, <1>1, <1>2, <1>4, <1>6, <2>6, <2>7
  <2>9. Tally(s) = 0 /\ Tally(s)' = 0
    BY <1>12, <2>1, DecrementedIs DEF Tally, PodInv
  <2>10. \A seg \in Seg :
           /\ Tally(seg)' <= accesses'[seg]
           /\ accesses'[seg] <= MEA_COUNTER_MAX_VALUE + 1 => accesses'[seg] - Tally(seg)' <= d + 1
    <3>. SUFFICES ASSUME NEW seg \in Seg
                  PROVE  /\ Tally(seg)' <= accesses'[seg]
                         /\ accesses'[seg] <= MEA_COUNTER_MAX_VALUE + 1
                               => accesses'[seg] - Tally(seg)' <= d + 1
      OBVIOUS
    <3>1. /\ Tally(seg) \in Nat /\ Tally(seg)' \in Nat /\ accesses[seg] \in Nat
          /\ Tally(seg) <= accesses[seg]
          /\ accesses[seg] <= MEA_COUNTER_MAX_VALUE + 1 => accesses[seg] - Tally(seg) <= d
          /\ Tally(seg) = Tally(seg)' \/ Tally(seg) = Tally(seg)' + 1
      BY <1>1, <1>2, <1>6, <2>2
    <3>2. CASE seg = s
      BY <1>0, <1>4, <2>9, <3>1, <3>2
    <3>3. CASE seg # s
      BY <1>0, <1>4, <3>1, <3>3
    <3>. QED BY <3>2, <3>3
  <2>. QED BY <1>8, <2>7, <2>8, <2>10
<1>13. CASE s \notin counted /\ ~(Cardinality(counted) >= NUMBER_MEA_COUNTER)
  <2>1. mea_counter_table' = [t \in counted \cup {s} |-> IF t = s THEN 1 ELSE mea_counter_table[t]]
    BY <1>3, <1>13, PodSets DEF Pod!MeaAfter
  <2>2. \A seg \in Seg : Tally(seg)' = IF seg = s THEN Tally(seg) + 1 ELSE Tally(seg)
    BY <1>13, <2>1 DEF Tally
  <2>3. Sum(new) = Sum(old) + 1
    BY <1>1, <1>2, <1>7, <2>2, OneMore DEF Seg
  <2>4. \A seg \in Seg :
           /\ Tally(seg)' <= accesses'[seg]
           /\ accesses'[seg] <= MEA_COUNTER_MAX_VALUE + 1 => accesses'[seg] - Tally(seg)' <= d
    BY <1>0, <1>1, <1>4, <1>6, <2>2
  <2>5. d * (K + 1) + Sum(new) <= Sum(accesses')
    BY <1>1, <1>2, <1>4, <1>6, <2>3
  <2>. QED BY <1>8, <2>4, <2>5
<1>. QED BY <1>10, <1>11, <1>12, <1>13

LEMMA MeaStart == Pod!Init => MeaInv
<1>. SUFFICES ASSUME Pod!Init PROVE MeaInv
  OBVIOUS
<1>1. Pod!TypeOK
  BY PodStart DEF PodInv
<1>2. \A s \in Pod!Segment : Tally(s) = 0 /\ accesses[s] = 0
  BY DEF Pod!Init, Tally
<1>3. Sum(Tallies) = 0 /\ Sum(accesses) \in Nat
  <2>1. 0 \in Pod!Segment
    BY PodSizes DEF Parameters, Pod!Segment
  <2>2. Sum(Tallies) = Tallies[0]
    BY <1>1, <1>2, <2>1, TallyTypes, SumOfOne
  <2>. QED BY <1>1, <1>2, <2>1, <2>2, TallyTypes
<1>4. Share(0)
  BY <1>2, <1>3, PodSizes DEF Share, Parameters
<1>. QED BY <1>4 DEF MeaInv

LEMMA MeaUntouched == ASSUME MeaInv, UNCHANGED <<mea_counter_table, accesses>> PROVE MeaInv'
BY DEF MeaInv, Share, Tallies, Tally

LEMMA MeaKept == ASSUME PodInv, MeaInv, Pod!Next PROVE MeaInv'
<1>1. PodInv'
  BY PodKept
<1>2. CASE \E s \in Pod!Segment : Pod!Access(s)
  BY <1>1, <1>2, AccessKeepsMea
<1>3. ASSUME NEW ends, Pod!OperateIdle(ends) \/ Pod!OperateBusy(ends) \/ Pod!OperateFinish(ends)
      PROVE  UNCHANGED <<mea_counter_table, accesses>>
  BY <1>3 DEF Pod!OperateIdle, Pod!OperateBusy, Pod!OperateFinish, Pod!CheckInterval
<1>4. CASE Pod!OperateFail
  BY <1>4, MeaUntouched DEF Pod!OperateFail
<1>. QED BY <1>2, <1>3, <1>4, MeaUntouched DEF Pod!Next

LEMMA MeaKeeps ==
    (part = "mempod" => PodInv /\ MeaInv) /\ [SumNext]_allVars => (part = "mempod" => PodInv /\ MeaInv)'
<1>. SUFFICES ASSUME part = "mempod" => PodInv /\ MeaInv, [SumNext]_allVars, part' = "mempod"
              PROVE  PodInv' /\ MeaInv'
  OBVIOUS
<1>1. part' = part
  BY DEF SumNext, allVars
<1>2. PodInv /\ MeaInv
  BY <1>1
<1>3. PodInv'
  BY <1>1, <1>2, PodKeeps
<1>4. CASE Pod!Next
  BY <1>2, <1>3, <1>4, MeaKept
<1>5. CASE UNCHANGED allVars
  BY <1>2, <1>3, <1>5, MeaUntouched DEF allVars, podOwnVars
<1>. QED BY <1>1, <1>3, <1>4, <1>5 DEF SumNext

LEMMA ShareBound ==
    ASSUME NEW d \in Nat, NEW m \in Nat, m > 0, NEW a \in Nat, d * m <= a
    PROVE  d <= a \div m
<1>. DEFINE q == a \div m
<1>1. q \in Nat /\ a < (q + 1) * m
  <2>1. q \in Nat /\ a = m * q + (a % m) /\ a % m \in 0 .. m - 1
    OBVIOUS
  <2>2. (q + 1) * m = m * q + m /\ m * q \in Nat
    BY <2>1
  <2>. HIDE DEF q
  <2>. QED BY <2>1, <2>2
<1>. HIDE DEF q
<1>2. ASSUME q < d PROVE FALSE
  <2>1. d - (q + 1) \in Nat
    BY <1>1, <1>2
  <2>2. (d - (q + 1)) * m \in Nat
    BY <2>1
  <2>3. d * m = (q + 1) * m + (d - (q + 1)) * m
    BY <1>1
  <2>4. (q + 1) * m \in Nat /\ d * m \in Nat
    BY <1>1
  <2>. QED BY <1>1, <2>2, <2>3, <2>4
<1>3. d <= q
  BY <1>1, <1>2
<1>. QED BY <1>3 DEF q

\* For every number of counters and accesses: what the counters lost since the last check was
\* lost in rounds that took one from each and one access with them (update_mea_counter()).
THEOREM MeaInvariant == SumSpec => [](part = "mempod" => PodInv /\ MeaInv)
<1>1. SumInit => (part = "mempod" => PodInv /\ MeaInv)
  BY PodStart, MeaStart DEF SumInit
<1>. QED BY <1>1, MeaKeeps, PTL DEF SumSpec

\* A segment with more than one in NUMBER_MEA_COUNTER + 1 of all accesses has a counter, and
\* no counter is short by more than that share, as long as none reached its limit
\* (update_mea_counter()).
THEOREM MajorityAlwaysTracked == SumSpec => []MajorityTracked
<1>1. (part = "mempod" => PodInv /\ MeaInv) => MajorityTracked
  <2>. SUFFICES ASSUME part = "mempod", PodInv, MeaInv PROVE Pod!MajorityTracked
    BY DEF MajorityTracked
  <2>1. PICK d \in Nat : Share(d)
    BY DEF MeaInv
  <2>2. /\ Sum(Tallies) \in Nat /\ Sum(accesses) \in Nat
        /\ \A s \in Pod!Segment : Tally(s) \in Nat /\ accesses[s] \in Nat
    BY TallyTypes DEF PodInv
  <2>3. NUMBER_MEA_COUNTER + 1 \in Nat /\ NUMBER_MEA_COUNTER + 1 > 0
        /\ d * (NUMBER_MEA_COUNTER + 1) \in Nat
    BY PodSizes DEF Parameters
  <2>4. d * (NUMBER_MEA_COUNTER + 1) <= Sum(accesses)
    BY <2>1, <2>2, <2>3 DEF Share
  <2>5. d <= Sum(accesses) \div (NUMBER_MEA_COUNTER + 1)
    BY <2>2, <2>3, <2>4, ShareBound
  <2>6. Sum(accesses) \div (NUMBER_MEA_COUNTER + 1) \in Nat
    BY <2>2, <2>3
  <2>7. Pod!Accesses = Sum(accesses)
    BY DEF Pod!Accesses, Sum
  <2>8. ASSUME \A s \in Pod!Segment : accesses[s] <= MEA_COUNTER_MAX_VALUE + 1,
               NEW s \in Pod!Segment
        PROVE  accesses[s] - Tally(s) <= Sum(accesses) \div (NUMBER_MEA_COUNTER + 1)
    <3>1. accesses[s] - Tally(s) <= d
      BY <2>1, <2>8 DEF Share
    <3>. QED BY <2>2, <2>5, <2>6, <3>1
  <2>. QED BY <2>7, <2>8 DEF Pod!MajorityTracked, Tally
<1>. QED BY <1>1, MeaInvariant, PTL
=============================================================================
