------------------------- MODULE CodeProject_proofs -------------------------
(***************************************************************************)
(* Proofs about CodeProject: what the client's files say of the session,   *)
(* for any files of a repository, through edits, restarts of the server    *)
(* and commands that are cut off anywhere.                                 *)
(***************************************************************************)
EXTENDS CodeProject, SequenceTheorems, FiniteSetTheorems, TLAPS

-----------------------------------------------------------------------------
(* Sequences and the sets of what they hold.                               *)
LEMMA ToSetIsRange == \A s : ToSet(s) = Range(s)
BY DEF ToSet, Range

LEMMA RangeOfAppend ==
    ASSUME NEW S, NEW s \in Seq(S), NEW x \in S
    PROVE  /\ Append(s, x) \in Seq(S)
           /\ Len(Append(s, x)) = Len(s) + 1
           /\ Range(Append(s, x)) = Range(s) \cup {x}
<1>1. /\ Append(s, x) \in Seq(S) /\ Len(Append(s, x)) = Len(s) + 1
      /\ \A i \in 1..Len(s) : Append(s, x)[i] = s[i]
      /\ Append(s, x)[Len(s) + 1] = x
  BY AppendProperties
<1>2. Len(s) \in Nat /\ DOMAIN s = 1..Len(s) /\ DOMAIN Append(s, x) = 1..Len(s) + 1
  BY <1>1, LenProperties
<1> QED
  BY <1>1, <1>2 DEF Range

LEMMA HeadAndTail ==
    ASSUME NEW S, NEW s \in Seq(S), s # <<>>
    PROVE  /\ Head(s) \in S /\ Tail(s) \in Seq(S)
           /\ Range(s) = {Head(s)} \cup Range(Tail(s))
<1>1. /\ Head(s) \in S /\ Tail(s) \in Seq(S) /\ Len(Tail(s)) = Len(s) - 1
      /\ \A i \in 1..Len(Tail(s)) : Tail(s)[i] = s[i + 1]
  BY HeadTailProperties
<1>2. Len(s) \in Nat \ {0} /\ DOMAIN s = 1..Len(s)
  BY LenProperties, EmptySeq
<1>3. DOMAIN Tail(s) = 1..Len(s) - 1
  BY <1>1, LenProperties
<1>4. Head(s) = s[1]
  BY <1>2
<1>5. \A y : (\E i \in 1..Len(s) : y = s[i])
             <=> y = s[1] \/ \E i \in 1..Len(s) - 1 : y = s[i + 1]
  <2> TAKE y
  <2>1. ASSUME NEW i \in 1..Len(s), y = s[i], i # 1
        PROVE  \E j \in 1..Len(s) - 1 : y = s[j + 1]
    <3>1. i - 1 \in 1..Len(s) - 1 /\ (i - 1) + 1 = i
      BY <1>2, <2>1
    <3> QED
      BY <2>1, <3>1
  <2>2. \A i \in 1..Len(s) - 1 : i + 1 \in 1..Len(s)
    BY <1>2
  <2>3. 1 \in 1..Len(s)
    BY <1>2
  <2> QED
    BY <2>1, <2>2, <2>3
<1>6. \A y : y \in Range(Tail(s)) <=> \E i \in 1..Len(s) - 1 : y = s[i + 1]
  BY <1>1, <1>2, <1>3 DEF Range
<1>7. \A y : y \in Range(s) <=> \E i \in 1..Len(s) : y = s[i]
  BY <1>2 DEF Range
<1>8. \A y : y \in Range(s) <=> y = Head(s) \/ y \in Range(Tail(s))
  BY <1>4, <1>5, <1>6, <1>7
<1> QED
  BY <1>1, <1>8

(* s is a first part of t. *)
StartOf(s, t) == Len(s) <= Len(t) /\ \A i \in 1..Len(s) : s[i] = t[i]

LEMMA StartOfProperties ==
    ASSUME NEW S, NEW s \in Seq(S), NEW t \in Seq(S)
    PROVE  /\ StartOf(s, s)
           /\ StartOf(s, t) => Range(s) \subseteq Range(t)
           /\ StartOf(s, t) /\ IsInjective(t) => IsInjective(s)
           /\ StartOf(s, t) /\ StartOf(t, s) => s = t
           /\ \A x \in S : StartOf(t, Append(t, x)) /\ (StartOf(s, t) => StartOf(s, Append(t, x)))
<1>1. /\ Len(s) \in Nat /\ DOMAIN s = 1..Len(s)
      /\ Len(t) \in Nat /\ DOMAIN t = 1..Len(t)
  BY LenProperties
<1>2. StartOf(s, s)
  BY <1>1 DEF StartOf
<1>3. StartOf(s, t) => Range(s) \subseteq Range(t)
  BY <1>1 DEF StartOf, Range
<1>4. StartOf(s, t) /\ IsInjective(t) => IsInjective(s)
  BY <1>1 DEF StartOf, IsInjective
<1>5. StartOf(s, t) /\ StartOf(t, s) => s = t
  <2>1. SUFFICES ASSUME StartOf(s, t), StartOf(t, s) PROVE s = t
    OBVIOUS
  <2>0. Len(s) <= Len(t) /\ Len(t) <= Len(s)
    BY <2>1 DEF StartOf
  <2>2. Len(s) = Len(t)
    <3> DEFINE m == Len(s)
               n == Len(t)
    <3>1. m \in Nat /\ n \in Nat /\ m <= n /\ n <= m
      BY <1>1, <2>0
    <3> HIDE DEF m, n
    <3>2. m = n
      BY <3>1
    <3> QED
      BY <3>2 DEF m, n
  <2>3. \A i \in 1..Len(s) : s[i] = t[i]
    BY <2>1 DEF StartOf
  <2> QED
    BY <2>2, <2>3, SeqEqual
<1>6. ASSUME NEW x \in S
      PROVE  StartOf(t, Append(t, x)) /\ (StartOf(s, t) => StartOf(s, Append(t, x)))
  <2>1. Len(Append(t, x)) = Len(t) + 1 /\ \A i \in 1..Len(t) : Append(t, x)[i] = t[i]
    BY AppendProperties
  <2> QED
    BY <1>1, <2>1 DEF StartOf
<1> QED
  BY <1>2, <1>3, <1>4, <1>5, <1>6

(* A sequence without repetitions that holds nothing outside a set of as   *)
(* many elements holds all of them.                                        *)
LEMMA HoldsAll ==
    ASSUME NEW S, IsFiniteSet(S), NEW s \in Seq(S), IsInjective(s), Len(s) = Cardinality(S)
    PROVE  Range(s) = S
<1>1. Len(s) \in Nat /\ s \in [1..Len(s) -> S] /\ DOMAIN s = 1..Len(s)
  BY LenProperties
<1>2. s \in Injection(1..Len(s), S)
  BY <1>1 DEF Injection
<1>3. Cardinality(1..Len(s)) = Len(s)
  BY <1>1, FS_Interval
<1>4. s \in Surjection(1..Len(s), S)
  BY <1>2, <1>3, FS_Injection
<1> QED
  BY <1>1, <1>4 DEF Surjection, Range

LEMMA InjectiveAppend ==
    ASSUME NEW S, NEW s \in Seq(S), NEW x \in S, IsInjective(s), x \notin Range(s)
    PROVE  IsInjective(Append(s, x))
<1>1. /\ Append(s, x) \in Seq(S) /\ Len(Append(s, x)) = Len(s) + 1
      /\ \A i \in 1..Len(s) : Append(s, x)[i] = s[i]
      /\ Append(s, x)[Len(s) + 1] = x
  BY AppendProperties
<1>2. Len(s) \in Nat /\ DOMAIN s = 1..Len(s) /\ DOMAIN Append(s, x) = 1..Len(s) + 1
  BY <1>1, LenProperties
<1> QED
  BY <1>1, <1>2 DEF IsInjective, Range

-----------------------------------------------------------------------------
(* Files, chunks and their numbers.                                        *)
FilesOf(records) == {r[1] : r \in records}
Headers(files) == {Header(f) : f \in files}

LEMMA FilesAreFinite == IsFiniteSet(Files) /\ IsFiniteSet(Ids)
<1>1. Len(Scanned) \in Nat /\ Scanned \in [1..Len(Scanned) -> Files]
      /\ DOMAIN Scanned = 1..Len(Scanned)
  BY FilesAssumption, LenProperties
<1>2. IsFiniteSet(Range(Scanned))
  <2>1. Scanned \in Surjection(1..Len(Scanned), Range(Scanned))
    BY <1>1 DEF Surjection, Range
  <2>2. IsFiniteSet(1..Len(Scanned))
    BY <1>1, FS_Interval
  <2> QED
    BY <2>1, <2>2, FS_Surjection
<1>3. IsFiniteSet(Files)
  BY <1>2, FilesAssumption, ToSetIsRange, FS_Union DEF Files
<1>4. ASSUME NEW f \in Files PROVE IsFiniteSet({<<f, i>> : i \in 1..MaxChunks[f]})
  <2> DEFINE T == {<<f, i>> : i \in 1..MaxChunks[f]}
             g == [i \in 1..MaxChunks[f] |-> <<f, i>>]
  <2>1. g \in Surjection(1..MaxChunks[f], T)
    BY DEF Surjection
  <2>2. IsFiniteSet(1..MaxChunks[f])
    BY FilesAssumption, FS_Interval
  <2> HIDE DEF g, T
  <2>3. IsFiniteSet(T)
    BY <2>1, <2>2, FS_Surjection
  <2> QED
    BY <2>3 DEF T
<1>5. IsFiniteSet({{<<f, i>> : i \in 1..MaxChunks[f]} : f \in Files})
  <2> DEFINE Of(f) == {<<f, i>> : i \in 1..MaxChunks[f]}
             T == {Of(f) : f \in Files}
             g == [f \in Files |-> Of(f)]
  <2>1. g \in Surjection(Files, T)
    <3> HIDE DEF Of
    <3> QED
      BY DEF Surjection
  <2> HIDE DEF g, T
  <2>2. IsFiniteSet(T)
    BY <1>3, <2>1, FS_Surjection
  <2> QED
    BY <2>2 DEF T
<1>6. IsFiniteSet(Ids)
  BY <1>4, <1>5, FS_UNION DEF Ids
<1> QED
  BY <1>3, <1>6

LEMMA IdShape ==
    /\ \A r \in Ids : /\ r[1] \in Files /\ r[2] \in Nat \ {0} /\ r[2] <= MaxChunks[r[1]]
                     /\ r = <<r[1], r[2]>>
    /\ \A m \in Memories : /\ m[1] \in Files /\ m[2] \in Nat /\ m[2] <= MaxChunks[m[1]]
                          /\ m = <<m[1], m[2]>>
    /\ \A f \in Files : \A i \in Nat :
          /\ i <= MaxChunks[f] => <<f, i>> \in Memories
          /\ i # 0 /\ i <= MaxChunks[f] => <<f, i>> \in Ids
    /\ Ids \subseteq Memories
<1>1. \A f \in Files : MaxChunks[f] \in Nat
  BY FilesAssumption
<1> QED
  BY <1>1 DEF Ids, Memories

LEMMA RecordsAreFinite ==
    ASSUME NEW R \in SUBSET Ids
    PROVE  /\ IsFiniteSet(R) /\ FilesOf(R) \subseteq Files /\ IsFiniteSet(FilesOf(R))
           /\ MemoryCount(R) = Cardinality(FilesOf(R)) + Cardinality(R)
           /\ Cardinality(R) \in Nat /\ Cardinality(FilesOf(R)) \in Nat /\ MemoryCount(R) \in Nat
<1>1. IsFiniteSet(R)
  BY FilesAreFinite, FS_Subset
<1>2. FilesOf(R) \subseteq Files
  BY IdShape DEF FilesOf
<1>3. IsFiniteSet(FilesOf(R))
  BY <1>2, FilesAreFinite, FS_Subset
<1>4. Cardinality(R) \in Nat /\ Cardinality(FilesOf(R)) \in Nat
  BY <1>1, <1>3, FS_CardinalityType
<1> QED
  BY <1>1, <1>2, <1>3, <1>4 DEF MemoryCount, FilesOf

(* The memories of some records and of the headers of their files.         *)
LEMMA CountWithHeaders ==
    ASSUME NEW R \in SUBSET Ids
    PROVE  /\ IsFiniteSet(R \cup Headers(FilesOf(R)))
           /\ Cardinality(R \cup Headers(FilesOf(R))) = MemoryCount(R)
<1> DEFINE F == FilesOf(R)
           g == [f \in F |-> Header(f)]
<1>1. IsFiniteSet(R) /\ IsFiniteSet(F) /\ Cardinality(R) \in Nat /\ Cardinality(F) \in Nat
      /\ MemoryCount(R) = Cardinality(F) + Cardinality(R)
  BY RecordsAreFinite
<1>2. g \in Surjection(F, Headers(F)) /\ g \in Injection(F, Headers(F))
  BY DEF Surjection, Injection, IsInjective, Headers, Header
<1>3. R \cap Headers(F) = {}
  BY IdShape DEF Headers, Header
<1> HIDE DEF F, g
<1>4. IsFiniteSet(Headers(F)) /\ Cardinality(Headers(F)) = Cardinality(F)
  BY <1>1, <1>2, FS_Surjection
<1>5. Cardinality(R \cap Headers(F)) = 0
  BY <1>3, FS_EmptySet
<1>6. IsFiniteSet(R \cup Headers(F))
      /\ Cardinality(R \cup Headers(F)) = Cardinality(R) + Cardinality(Headers(F)) - Cardinality(R \cap Headers(F))
  BY <1>1, <1>4, FS_Union
<1> QED
  BY <1>1, <1>4, <1>5, <1>6 DEF F

(* What is still to be sent of a file of n chunks.                         *)
MemoryRun(f, i, n) == [j \in 1..(n - i + 1) |-> <<f, (i + j) - 1>>]

LEMMA MemoryRunProperties ==
    ASSUME NEW f \in Files, NEW n \in Nat, NEW i \in 0..n, n <= MaxChunks[f]
    PROVE  /\ MemoryRun(f, i, n) \in Seq(Memories) /\ MemoryRun(f, i, n) # <<>>
           /\ Head(MemoryRun(f, i, n)) = <<f, i>>
           /\ Tail(MemoryRun(f, i, n)) = IF i = n THEN <<>> ELSE MemoryRun(f, i + 1, n)
           /\ Range(MemoryRun(f, i, n)) = {<<f, j>> : j \in i..n}
<1> DEFINE s == MemoryRun(f, i, n)
<1>1. s \in Seq(Memories) /\ Len(s) = n - i + 1 /\ n - i + 1 \in Nat \ {0}
      /\ \A j \in 1..(n - i + 1) : s[j] = <<f, (i + j) - 1>>
  <2>1. \A j \in 1..(n - i + 1) : <<f, (i + j) - 1>> \in Memories
    <3> TAKE j \in 1..(n - i + 1)
    <3>1. MaxChunks[f] \in Nat /\ (i + j) - 1 \in Nat /\ (i + j) - 1 <= MaxChunks[f]
      BY FilesAssumption
    <3> QED
      BY <3>1, IdShape
  <2>2. n - i + 1 \in Nat \ {0}
    OBVIOUS
  <2> QED
    BY <2>1, <2>2 DEF MemoryRun
<1>2. s # <<>> /\ Head(s) = s[1] /\ s[1] = <<f, i>>
  BY <1>1
<1>3. Range(s) = {<<f, j>> : j \in i..n}
  <2>1. DOMAIN s = 1..(n - i + 1)
    BY <1>1
  <2>2. \A j \in i..n : (j - i + 1) \in 1..(n - i + 1) /\ <<f, (i + (j - i + 1)) - 1>> = <<f, j>>
    OBVIOUS
  <2>3. \A k \in 1..(n - i + 1) : (i + k) - 1 \in i..n
    OBVIOUS
  <2>4. Range(s) = {s[j] : j \in 1..(n - i + 1)}
    BY <2>1 DEF Range
  <2>5. {s[j] : j \in 1..(n - i + 1)} = {<<f, (i + j) - 1>> : j \in 1..(n - i + 1)}
    BY <1>1
  <2>6. {<<f, (i + j) - 1>> : j \in 1..(n - i + 1)} = {<<f, j>> : j \in i..n}
    BY <2>2, <2>3
  <2> QED
    BY <2>4, <2>5, <2>6
<1>4. /\ Tail(s) \in Seq(Memories) /\ Len(Tail(s)) = n - i
      /\ \A j \in 1..(n - i) : Tail(s)[j] = <<f, i + j>>
  <2>1. /\ Tail(s) \in Seq(Memories) /\ Len(Tail(s)) = Len(s) - 1
        /\ \A j \in 1..Len(Tail(s)) : Tail(s)[j] = s[j + 1]
    BY <1>1, <1>2, HeadTailProperties
  <2>2. Len(Tail(s)) = n - i
    BY <1>1, <2>1
  <2>3. ASSUME NEW j \in 1..(n - i) PROVE Tail(s)[j] = <<f, i + j>>
    <3>1. j + 1 \in 1..(n - i + 1) /\ (i + (j + 1)) - 1 = i + j
      OBVIOUS
    <3>2. Tail(s)[j] = s[j + 1]
      BY <2>1, <2>2
    <3>3. s[j + 1] = <<f, (i + (j + 1)) - 1>>
      BY <1>1, <3>1
    <3> QED
      BY <3>1, <3>2, <3>3
  <2> QED
    BY <2>1, <2>2, <2>3
<1>5. CASE i = n
  <2>1. Len(Tail(s)) = 0
    BY <1>4, <1>5
  <2>2. Tail(s) = <<>>
    BY <1>4, <2>1, EmptySeq
  <2> QED
    BY <1>1, <1>2, <1>3, <1>5, <2>2
<1>6. CASE i # n
  <2>1. /\ MemoryRun(f, i + 1, n) \in Seq(Memories) /\ Len(MemoryRun(f, i + 1, n)) = n - i
        /\ \A j \in 1..(n - i) : MemoryRun(f, i + 1, n)[j] = <<f, i + j>>
    <3>1. n - (i + 1) + 1 = n - i /\ n - i \in Nat
      BY <1>6
    <3>2. \A j \in 1..(n - i) : <<f, ((i + 1) + j) - 1>> = <<f, i + j>>
      OBVIOUS
    <3>3. \A j \in 1..(n - i) : <<f, i + j>> \in Memories
      <4> TAKE j \in 1..(n - i)
      <4>1. MaxChunks[f] \in Nat /\ i + j \in Nat /\ i + j <= MaxChunks[f]
        BY FilesAssumption
      <4> QED
        BY <4>1, IdShape
    <3> QED
      BY <3>1, <3>2, <3>3 DEF MemoryRun
  <2>2. Tail(s) = MemoryRun(f, i + 1, n)
    BY <1>4, <2>1, SeqEqual
  <2> QED
    BY <1>1, <1>2, <1>3, <1>6, <2>2
<1> QED
  BY <1>5, <1>6

-----------------------------------------------------------------------------
(* The command that runs.                                                  *)
Adding == {"build", "resume", "add"}
Sending == {"file", "seal"}
Indexing == {"index", "status", "indexed", "save", "check", "chunks"}
Working == Sending \cup {"write_index", "config"} \cup Indexing
Removing == {"delete", "unlink", "unlink_chunks"}

Ops == Adding \cup {"none", "reset", "reindex"}
Steps == Working \cup Removing \cup {"create", "done", "error"}

Commands ==
    [op : Ops, at : Steps,
     rest : Seq(Files), pending : Seq(Memories), records : SUBSET Ids, count : Nat,
     file : Files \cup {None}, lost : BOOLEAN, trusted : BOOLEAN]

CmdInv ==
    /\ cmd \in Commands
    /\ At("create") => /\ cmd.op = "build" /\ cmd.rest = <<>> /\ cmd.pending = <<>>
                       /\ cmd.records = {} /\ cmd.count = 0
    /\ cmd.at \in Sending => cmd.op \in {"build", "add"}
    /\ cmd.at \in Indexing \cup {"write_index"} => cmd.op \in Adding
    /\ At("config") => cmd.op = "add"
    /\ cmd.at \in Removing => cmd.op \in {"reset", "reindex"}
    /\ cmd.op = "add" /\ cmd.at \in Sending => cmd.rest = <<>>
    /\ cmd.op = "add" /\ ~Free => cmd.file \in Files

(* The repository and the client's files. *)
DataInv ==
    /\ repo \in [Files -> Nat] /\ \A f \in Files : repo[f] <= MaxChunks[f]
    /\ include \in Seq(Files) /\ index \in Nat \cup {None}
    /\ chunks # None => chunks \subseteq Ids
    /\ index # None => chunks # None
    /\ edited \in Nat /\ doubted \in BOOLEAN

(* What is on disk is a first part of what is in memory, and all of it,    *)
(* unless the session is marked dirty and has a plan without a KV cache;   *)
(* or the directory does not load.                                         *)
StoreInv ==
    /\ session # None =>
          /\ session \in Seq(Memories) /\ saved # None
          /\ saved # Husk => saved \in Seq(Memories) /\ StartOf(saved, session)
          /\ ~dirty \/ ~planned \/ kv \/ onDisk => saved \in {session, Husk}
    /\ session = None => saved \in {None, Husk} /\ ~planned /\ ~dirty
    /\ dirty \in BOOLEAN /\ planned \in BOOLEAN /\ kv \in BOOLEAN /\ onDisk \in BOOLEAN
    /\ ~planned => ~kv /\ ~onDisk

(* What has been done when a command is at a step.                         *)
Gone == session = None /\ saved \in {None, Husk}

Indexed == {"status", "indexed", "save", "check", "chunks", "write_index", "config"}
Cached == {"status", "check", "chunks", "write_index", "config"}
Past(steps) == cmd.at \in steps \/ (At("done") /\ cmd.op \in Adding)

StageInv ==
    /\ cmd.at \in {"unlink", "unlink_chunks"} => Gone
    /\ At("unlink_chunks") => index = None
    /\ At("done") /\ cmd.op = "reset" => Gone /\ index = None /\ chunks = None
    /\ At("create") => chunks = None
    /\ cmd.at \in Indexing \cup Sending =>
          /\ cmd.op = "build" => chunks = None
          /\ cmd.op = "add" => chunks # None /\ index # None
    /\ session # None /\ cmd.op # "resume" /\ (At("index") \/ (At("file") /\ cmd.pending = <<>>)) =>
          saved # Husk \/ dirty
    /\ Past(Indexed) => /\ saved # Husk => (session # None /\ saved = session)
                        /\ cmd.op # "resume" => saved # Husk
    /\ Past(Cached) /\ session # None /\ ~cmd.trusted =>
          cached = session /\ (planned => kv /\ onDisk)
    /\ cmd.at \in {"write_index", "config"} => chunks = cmd.records
    /\ At("config") => index = cmd.count

LEMMA IdleFields ==
    \A op, at : /\ Idle(op, at).op = op /\ Idle(op, at).at = at
                /\ Idle(op, at).rest = <<>> /\ Idle(op, at).pending = <<>>
                /\ Idle(op, at).records = {} /\ Idle(op, at).count = 0
                /\ Idle(op, at).file = None /\ Idle(op, at).lost = FALSE
                /\ Idle(op, at).trusted = FALSE
BY DEF Idle

LEMMA IdleTyped == \A op \in Ops, at \in Steps : Idle(op, at) \in Commands
<1>1. <<>> \in Seq(Files) /\ <<>> \in Seq(Memories)
  BY EmptySeq
<1> QED
  BY <1>1 DEF Idle, Commands

(* A command that only goes from step to step keeps the rest of itself.    *)
LEMMA GotoShape ==
    ASSUME cmd \in Commands, NEW at \in Steps, Goto(at)
    PROVE  /\ cmd' \in Commands /\ cmd'.at = at /\ cmd'.op = cmd.op
           /\ cmd'.rest = cmd.rest /\ cmd'.pending = cmd.pending /\ cmd'.records = cmd.records
           /\ cmd'.count = cmd.count /\ cmd'.file = cmd.file /\ cmd'.lost = cmd.lost
           /\ cmd'.trusted = cmd.trusted
BY DEF Goto, Commands

LEMMA DoneShape ==
    ASSUME cmd \in Commands, Done
    PROVE  /\ cmd' \in Commands /\ cmd'.at = "done" /\ cmd'.op = cmd.op /\ cmd'.lost = cmd.lost
           /\ cmd'.trusted = cmd.trusted
<1>1. Idle(cmd.op, "done") \in Commands
  BY IdleTyped DEF Commands, Steps
<1>2. cmd.lost \in BOOLEAN /\ cmd.trusted \in BOOLEAN
  BY DEF Commands
<1>3. Idle(cmd.op, "done").op = cmd.op /\ Idle(cmd.op, "done").at = "done"
  BY IdleFields
<1> DEFINE i == Idle(cmd.op, "done")
<1>4. cmd' = [i EXCEPT !.lost = cmd.lost, !.trusted = cmd.trusted]
  BY DEF Done
<1>5. i \in Commands /\ i.op = cmd.op /\ i.at = "done"
  BY <1>1, <1>3
<1> HIDE DEF i
<1> QED
  BY <1>2, <1>4, <1>5 DEF Commands

(* A command that ended, or has not begun, says nothing.                   *)
LEMMA CommandShape ==
    ASSUME NEW op \in Ops, NEW at \in Removing \cup {"create", "done", "error"},
           Command(op, at), at = "create" => op = "build",
           at \in Removing => op \in {"reset", "reindex"}
    PROVE  /\ cmd' = Idle(op, at) /\ CmdInv'
           /\ cmd'.op = op /\ cmd'.at = at /\ cmd'.records = {} /\ cmd'.count = 0
           /\ cmd'.pending = <<>> /\ cmd'.rest = <<>> /\ cmd'.lost = FALSE
<1>1. cmd' = Idle(op, at)
  BY DEF Command
<1>2. Idle(op, at) \in Commands
  BY IdleTyped DEF Steps
<1>3. /\ cmd' \in Commands /\ cmd'.op = op /\ cmd'.at = at /\ cmd'.records = {} /\ cmd'.count = 0
      /\ cmd'.pending = <<>> /\ cmd'.rest = <<>> /\ cmd'.lost = FALSE
  BY <1>1, <1>2, IdleFields
<1>4. CmdInv'
  BY <1>3 DEF CmdInv, At, Free, Working, Indexing, Sending, Removing
<1> QED
  BY <1>1, <1>3, <1>4

-----------------------------------------------------------------------------
(* Commands, data and storage of the server.                               *)
TypedInv == CmdInv /\ DataInv /\ StoreInv

LEMMA ScanTyped ==
    ASSUME include \in Seq(Files)
    PROVE  /\ ToScan \in Seq(Files)
           /\ Range(ToScan) = Range(Scanned) \cup Range(include)
           /\ Found \subseteq Files /\ IsFiniteSet(Found)
           /\ \A f : f \in Found <=> f \in Range(ToScan) /\ repo[f] > 0
<1>1. ToScan \in Seq(Files) /\ Range(ToScan) = Range(Scanned) \cup Range(include)
  BY FilesAssumption, ConcatProperties, RangeConcatenation DEF ToScan
<1>2. Range(ToScan) \subseteq Files
  BY <1>1, RangeOfSeq
<1>3. Found \subseteq Files /\ \A f : f \in Found <=> f \in Range(ToScan) /\ repo[f] > 0
  BY <1>2, ToSetIsRange DEF Found
<1> QED
  BY <1>1, <1>3, FilesAreFinite, FS_Subset

LEMMA FileOnDisk ==
    ASSUME DataInv, NEW f \in Files
    PROVE  /\ repo[f] \in Nat /\ repo[f] <= MaxChunks[f]
           /\ ChunksOf(f) \subseteq Ids
           /\ MemoriesOf(f) = MemoryRun(f, 0, repo[f])
           /\ MemoriesOf(f) \in Seq(Memories) /\ MemoriesOf(f) # <<>>
<1>1. repo[f] \in Nat /\ repo[f] <= MaxChunks[f] /\ MaxChunks[f] \in Nat
  BY FilesAssumption DEF DataInv
<1>2. ChunksOf(f) \subseteq Ids
  BY <1>1, IdShape DEF ChunksOf
<1>3. MemoriesOf(f) = MemoryRun(f, 0, repo[f])
  <2>1. repo[f] + 1 = repo[f] - 0 + 1 /\ \A i \in 1..repo[f] + 1 : i - 1 = (0 + i) - 1
    BY <1>1
  <2> QED
    BY <2>1 DEF MemoriesOf, MemoryRun
<1>4. MemoryRun(f, 0, repo[f]) \in Seq(Memories) /\ MemoryRun(f, 0, repo[f]) # <<>>
  BY <1>1, MemoryRunProperties
<1> QED
  BY <1>1, <1>2, <1>3, <1>4

LEMMA ScannedRecords ==
    ASSUME DataInv
    PROVE  ScanRecords \subseteq Ids
<1>1. \A f \in Found : ChunksOf(f) \subseteq Ids
  BY ScanTyped, FileOnDisk DEF DataInv
<1>2. Preserved \subseteq Ids
  BY DEF Preserved, DataInv
<1>3. UNION {ChunksOf(f) : f \in Found} \subseteq Ids
  BY <1>1
<1> QED
  BY <1>2, <1>3 DEF ScanRecords

LEMMA InitTyped == Init => TypedInv
<1> SUFFICES ASSUME Init PROVE TypedInv
  OBVIOUS
<1>1. /\ repo \in [Files -> UNION {0..MaxChunks[f] : f \in Files}]
      /\ \A f \in Files : repo[f] <= MaxChunks[f]
      /\ include = <<>> /\ index = None /\ chunks = None
      /\ session = None /\ saved = None /\ dirty = FALSE /\ planned = FALSE
      /\ kv = FALSE /\ onDisk = FALSE
      /\ cmd = Idle("none", "done") /\ edited = 0 /\ doubted = FALSE
  BY DEF Init
<1>2. CmdInv
  <2>1. cmd \in Commands /\ cmd.op = "none" /\ cmd.at = "done"
    BY <1>1, IdleTyped, IdleFields DEF Ops, Steps
  <2> QED
    BY <2>1 DEF CmdInv, At, Free, Working, Indexing, Removing, Sending
<1>3. DataInv
  <2>1. UNION {0..MaxChunks[f] : f \in Files} \subseteq Nat
    BY FilesAssumption
  <2>2. repo \in [Files -> Nat]
    BY <1>1, <2>1
  <2> QED
    BY <1>1, <2>2, EmptySeq DEF DataInv
<1>4. StoreInv
  BY <1>1 DEF StoreInv
<1> QED
  BY <1>2, <1>3, <1>4 DEF TypedInv

(* The client's own steps. *)
LEMMA ClientTyped ==
    ASSUME TypedInv, StageInv,
           \/ StartIndex \/ ReadFile \/ AllAdded \/ ReadStatus \/ CheckStatus
           \/ WriteChunks \/ WriteIndex \/ Resume \/ (\E f \in Files : AddFile(f))
           \/ WriteConfig \/ (\E op \in {"reset", "reindex"} : StartReset(op))
           \/ UnlinkIndex \/ UnlinkChunks \/ Interrupted
    PROVE  TypedInv'
<1>t. /\ cmd \in Commands /\ CmdInv /\ DataInv /\ StoreInv
  BY DEF TypedInv, CmdInv, Sending, At
<1>e. ASSUME Failed PROVE CmdInv'
  BY <1>e, CommandShape DEF Failed, Removing, Ops
<1>1. ASSUME StartIndex PROVE TypedInv'
  <2>1. CmdInv'
    BY <1>1, CommandShape DEF StartIndex, Removing, Ops, Adding
  <2> QED
    BY <1>1, <1>t, <2>1 DEF StartIndex, TypedInv, DataInv, StoreInv, local, server
<1>2. ASSUME ReadFile PROVE TypedInv'
  <2> DEFINE f == Head(cmd.rest)
             next == IF repo[f] = 0 \/ f \in Seen THEN <<>> ELSE MemoriesOf(f)
  <2>1. /\ At("file") /\ cmd.rest # <<>> /\ cmd' = [cmd EXCEPT !.rest = Tail(@), !.pending = next]
        /\ UNCHANGED <<repo, local, server, edited, doubted>>
    BY <1>2 DEF ReadFile
  <2>2. f \in Files /\ Tail(cmd.rest) \in Seq(Files)
    BY <1>t, <2>1, HeadAndTail DEF Commands
  <2>3. next \in Seq(Memories)
    BY <1>t, <2>2, FileOnDisk, EmptySeq
  <2> HIDE DEF next
  <2>4. /\ cmd' \in Commands /\ cmd'.at = cmd.at /\ cmd'.op = cmd.op /\ cmd'.file = cmd.file
    BY <1>t, <2>1, <2>2, <2>3 DEF Commands
  <2>5. cmd.op # "add"
    BY <1>t, <2>1 DEF CmdInv, Sending, At
  <2>6. CmdInv'
    BY <1>t, <2>1, <2>4, <2>5 DEF CmdInv, At, Free, Indexing, Removing, Sending
  <2> QED
    BY <1>t, <2>1, <2>6 DEF TypedInv, DataInv, StoreInv, local, server
<1>3. ASSUME AllAdded PROVE TypedInv'
  <2>1. CmdInv'
    <3>1. CASE Failed
      BY <1>e, <3>1
    <3>2. CASE Goto("index")
      BY <1>3, <1>t, <3>2, GotoShape
         DEF AllAdded, CmdInv, At, Free, Working, Indexing, Removing, Adding, Steps, Sending
    <3> QED
      BY <1>3, <3>1, <3>2 DEF AllAdded
  <2> QED
    BY <1>3, <1>t, <2>1 DEF AllAdded, TypedInv, DataInv, StoreInv, local, server
<1>g. ASSUME NEW at \in Indexing, cmd.at \in Indexing, Goto(at) PROVE CmdInv'
  <2>1. at \in Steps
    BY DEF Steps, Working, Sending
  <2>2. cmd' \in Commands /\ cmd'.at = at /\ cmd'.op = cmd.op /\ cmd'.file = cmd.file
    BY <1>g, <1>t, <2>1, GotoShape
  <2>3. cmd.op \in Adding /\ (cmd.op = "add" => cmd.file \in Files)
    BY <1>g, <1>t DEF CmdInv, Free, Indexing, Sending, At
  <2> QED
    BY <2>2, <2>3 DEF CmdInv, At, Free, Indexing, Sending, Removing
<1>4. ASSUME ReadStatus PROVE TypedInv'
  <2>1. CmdInv'
    BY <1>4, <1>g DEF ReadStatus, At, Indexing, Sending
  <2> QED
    BY <1>4, <1>t, <2>1 DEF ReadStatus, TypedInv, DataInv, StoreInv, local, server
<1>5. ASSUME CheckStatus PROVE TypedInv'
  <2>1. CmdInv'
    BY <1>5, <1>g DEF CheckStatus, At, Indexing, Sending
  <2> QED
    BY <1>5, <1>t, <2>1 DEF CheckStatus, TypedInv, DataInv, StoreInv, local, server
<1>6. ASSUME WriteChunks PROVE TypedInv'
  <2>1. CmdInv'
    BY <1>6, <1>t, GotoShape
       DEF WriteChunks, CmdInv, At, Free, Working, Indexing, Removing, Adding, Steps, Sending
  <2>2. cmd.records \subseteq Ids /\ cmd.records # None /\ cmd.lost \in BOOLEAN
    BY <1>t, NoneAssumption DEF Commands
  <2>3. DataInv'
    BY <1>6, <1>t, <2>2 DEF WriteChunks, DataInv
  <2> QED
    BY <1>6, <1>t, <2>1, <2>3 DEF WriteChunks, TypedInv, StoreInv, server
<1>7. ASSUME WriteIndex PROVE TypedInv'
  <2>1. CmdInv'
    <3>1. CASE Done
      BY <1>t, <3>1, DoneShape DEF CmdInv, At, Free, Working, Indexing, Removing, Sending
    <3>2. CASE cmd.op = "add" /\ Goto("config")
      BY <1>7, <1>t, <3>2, GotoShape
         DEF WriteIndex, CmdInv, At, Free, Working, Indexing, Removing, Steps, Sending
    <3> QED
      BY <1>7, <3>1, <3>2 DEF WriteIndex
  <2>2. cmd.count \in Nat /\ cmd.records # None
    BY <1>t, NoneAssumption DEF Commands
  <2>3. chunks # None
    BY <1>7, <2>2 DEF WriteIndex, StageInv, At, Past, Indexed, Cached, Sending
  <2>4. DataInv'
    BY <1>7, <1>t, <2>2, <2>3 DEF WriteIndex, DataInv
  <2> QED
    BY <1>7, <1>t, <2>1, <2>4 DEF WriteIndex, TypedInv, StoreInv, server
<1>8. ASSUME Resume PROVE TypedInv'
  <2>1. PICK at \in {"index", "save", "chunks"} :
          cmd' = [Idle("resume", at) EXCEPT
                    !.records = ScanRecords, !.count = MemoryCount(ScanRecords),
                    !.trusted = (at = "chunks")]
    BY <1>8 DEF Resume, ResumeAt
  <2>2. UNCHANGED <<repo, local, server, edited, doubted>>
    BY <1>8 DEF Resume, ResumeAt
  <2>3. ScanRecords \subseteq Ids /\ MemoryCount(ScanRecords) \in Nat /\ (at = "chunks") \in BOOLEAN
    BY <1>t, ScannedRecords, RecordsAreFinite
  <2>4. cmd' \in Commands /\ cmd'.at = at /\ cmd'.op = "resume"
    <3> DEFINE i == Idle("resume", at)
    <3>1. i \in Commands /\ i.at = at /\ i.op = "resume"
      BY IdleTyped, IdleFields DEF Ops, Adding, Steps, Working, Indexing, Sending
    <3>2. cmd' = [i EXCEPT !.records = ScanRecords, !.count = MemoryCount(ScanRecords),
                           !.trusted = (at = "chunks")]
      BY <2>1
    <3> HIDE DEF i
    <3> QED
      BY <2>3, <3>1, <3>2 DEF Commands
  <2>5. CmdInv'
    BY <2>4 DEF CmdInv, At, Free, Working, Indexing, Sending, Removing, Adding
  <2> QED
    BY <1>t, <2>2, <2>5 DEF TypedInv, DataInv, StoreInv, local, server
<1>9. ASSUME NEW f \in Files, AddFile(f) PROVE TypedInv'
  <2>1. PICK at \in Sending :
          cmd' = [Idle("add", at) EXCEPT
                    !.file = f, !.pending = MemoriesOf(f), !.records = chunks, !.count = index]
    BY <1>9 DEF AddFile, Sending
  <2>8. /\ chunks # None /\ index # None
        /\ UNCHANGED <<repo, local, server, edited, doubted>>
    BY <1>9 DEF AddFile
  <2>2. chunks \subseteq Ids /\ index \in Nat /\ MemoriesOf(f) \in Seq(Memories)
    BY <1>t, <2>8, FileOnDisk DEF DataInv
  <2> DEFINE ms == MemoriesOf(f)
             i == Idle("add", at)
  <2>3. cmd' = [i EXCEPT !.file = f, !.pending = ms, !.records = chunks, !.count = index]
    BY <2>1
  <2>4. i \in Commands /\ i.op = "add" /\ i.at = at /\ i.rest = <<>>
    BY IdleTyped, IdleFields DEF Ops, Adding, Steps, Working, Sending
  <2>7. ms \in Seq(Memories)
    BY <2>2
  <2> HIDE DEF ms, i
  <2>5. /\ cmd' \in Commands /\ cmd'.at = at /\ cmd'.op = "add"
        /\ cmd'.rest = <<>> /\ cmd'.file = f
    BY <2>2, <2>3, <2>4, <2>7 DEF Commands
  <2>6. CmdInv'
    BY <2>5 DEF CmdInv, At, Free, Working, Indexing, Sending, Removing, Adding
  <2> QED
    BY <1>t, <2>8, <2>6 DEF TypedInv, DataInv, StoreInv, local, server
<1>10. ASSUME WriteConfig PROVE TypedInv'
  <2>1. CmdInv'
    BY <1>10, <1>t, DoneShape DEF WriteConfig, CmdInv, At, Free, Working, Indexing, Removing,
                                  Sending
  <2>2. cmd.file \in Files
    BY <1>10, <1>t DEF WriteConfig, CmdInv, At, Free, Sending
  <2>3. include' \in Seq(Files)
    BY <1>10, <1>t, <2>2, RangeOfAppend DEF WriteConfig, DataInv
  <2> QED
    BY <1>10, <1>t, <2>1, <2>3 DEF WriteConfig, TypedInv, DataInv, StoreInv, server
<1>11. ASSUME NEW op \in {"reset", "reindex"}, StartReset(op) PROVE TypedInv'
  <2>1. CmdInv'
    BY <1>11, CommandShape DEF StartReset, Removing, Ops
  <2> QED
    BY <1>11, <1>t, <2>1 DEF StartReset, TypedInv, DataInv, StoreInv, local, server
<1>12. ASSUME UnlinkIndex PROVE TypedInv'
  <2>1. CmdInv'
    BY <1>12, <1>t, GotoShape
       DEF UnlinkIndex, CmdInv, At, Free, Working, Indexing, Removing, Adding, Steps, Sending
  <2> QED
    BY <1>12, <1>t, <2>1 DEF UnlinkIndex, TypedInv, DataInv, StoreInv, server
<1>13. ASSUME UnlinkChunks PROVE TypedInv'
  <2>1. CmdInv'
    <3>1. CASE Done
      BY <1>t, <3>1, DoneShape DEF CmdInv, At, Free, Working, Indexing, Removing, Sending
    <3>2. CASE Command("build", "create")
      BY <3>2, CommandShape DEF Removing, Ops, Adding
    <3> QED
      BY <1>13, <3>1, <3>2 DEF UnlinkChunks
  <2>2. include' \in Seq(Files)
    BY <1>13, <1>t, EmptySeq DEF UnlinkChunks, DataInv
  <2>3. index = None
    BY <1>13 DEF UnlinkChunks, StageInv, Past, Indexed, Cached, Sending
  <2> QED
    BY <1>13, <1>t, <2>1, <2>2, <2>3 DEF UnlinkChunks, TypedInv, DataInv, StoreInv, server
<1>14. ASSUME Interrupted PROVE TypedInv'
  BY <1>14, <1>t, <1>e DEF Interrupted, TypedInv, DataInv, StoreInv, local, server
<1> QED
  BY <1>1, <1>2, <1>3, <1>4, <1>5, <1>6, <1>7, <1>8, <1>9, <1>10, <1>11, <1>12, <1>13, <1>14

(* A KV cache, of a plan in memory or of one that is restored, is of a     *)
(* session that is on disk, and so is a session that persist_if_dirty has  *)
(* gone over; but for a directory that does not load.                      *)
LEMMA StoreFacts ==
    ASSUME StoreInv, session # None
    PROVE  /\ session \in Seq(Memories) /\ session # Husk /\ StartOf(session, session)
           /\ KV \in BOOLEAN /\ OnDisk \in BOOLEAN
           /\ KV \/ OnDisk \/ ~planned => saved \in {session, Husk}
<1>1. session \in Seq(Memories) /\ session # Husk /\ StartOf(session, session)
  BY NoneAssumption, StartOfProperties DEF StoreInv
<1>2. kv \in BOOLEAN /\ onDisk \in BOOLEAN /\ planned \in BOOLEAN
  BY DEF StoreInv
<1>3. Listed \in BOOLEAN
  BY DEF Listed
<1>4. KV \in BOOLEAN /\ OnDisk \in BOOLEAN
  BY <1>2, <1>3 DEF KV, OnDisk
<1>5. planned => (KV => kv) /\ (OnDisk => onDisk)
  BY DEF KV, OnDisk
<1>6. KV \/ OnDisk \/ ~planned => saved \in {session, Husk}
  BY <1>5 DEF StoreInv
<1> QED
  BY <1>1, <1>4, <1>6

LEMMA SavedIfDirty ==
    ASSUME StoreInv, session # None, session' = session, SaveIfDirty
    PROVE  /\ dirty' = FALSE /\ saved' \in {session, Husk} /\ saved' \in {saved, session}
           /\ saved # Husk \/ dirty => saved' = session
<1>1. dirty \in BOOLEAN /\ session \in Seq(Memories) /\ session # Husk
  BY StoreFacts DEF StoreInv
<1>2. CASE dirty
  BY <1>1, <1>2 DEF SaveIfDirty, Persist
<1>3. CASE ~dirty
  BY <1>1, <1>3 DEF SaveIfDirty, StoreInv
<1> QED
  BY <1>2, <1>3

(* A request that leaves the session and its memories as they are.         *)
LEMMA StoreSame ==
    ASSUME StoreInv, session # None, session' = session, planned' = TRUE,
           kv' \in BOOLEAN, onDisk' \in BOOLEAN, dirty' \in BOOLEAN,
           \/ saved' \in {session, Husk}
           \/ saved' = saved /\ dirty' /\ (kv' \/ onDisk' => saved \in {session, Husk})
    PROVE  StoreInv'
<1>1. session \in Seq(Memories) /\ StartOf(session, session) /\ session # Husk
  BY StoreFacts
<1>2. session # None /\ Husk # None
  BY NoneAssumption
<1>3. CASE saved' \in {session, Husk}
  BY <1>1, <1>2, <1>3 DEF StoreInv
<1>4. CASE saved' = saved /\ dirty' /\ (kv' \/ onDisk' => saved \in {session, Husk})
  BY <1>1, <1>2, <1>4 DEF StoreInv
<1> QED
  BY <1>3, <1>4

(* Steps of the server, and edits of the repository. *)
LEMMA ServerTyped ==
    ASSUME TypedInv, StageInv,
           \/ CreateSession \/ NextSegment \/ AddMemory \/ IndexSession \/ SaveSession
           \/ IndexCutOff \/ FactsNotSaved \/ DeleteSession \/ ServerRestart
           \/ LoadPlan \/ OtherSessionEvicts \/ Edit
    PROVE  TypedInv'
<1>t. /\ cmd \in Commands /\ CmdInv /\ DataInv /\ StoreInv
  BY DEF TypedInv, CmdInv, Sending, At
<1>n. <<>> # None /\ \A s \in Seq(Memories) : s # None /\ s # Husk
  BY NoneAssumption, EmptySeq
<1>e. ASSUME Failed PROVE CmdInv'
  BY <1>e, CommandShape DEF Failed, Removing, Ops
<1>h. None # Husk
  BY NoneAssumption
<1>1. ASSUME CreateSession PROVE TypedInv'
  <2>1. /\ At("create") /\ session = None /\ saved = None
        /\ UNCHANGED <<repo, local, planned, kv, onDisk, cached, doubted>>
    BY <1>1 DEF CreateSession
  <2>2. planned = FALSE /\ dirty = FALSE /\ kv = FALSE /\ onDisk = FALSE
    BY <1>t, <2>1 DEF StoreInv
  <2>3. ASSUME session' = <<>>, saved' \in {<<>>, Husk}, dirty' \in BOOLEAN, edited' = 0
        PROVE  DataInv' /\ StoreInv'
    <3>1. <<>> \in Seq(Memories) /\ StartOf(<<>>, <<>>)
      BY EmptySeq, StartOfProperties
    <3>2. StoreInv'
      BY <1>n, <1>h, <2>1, <2>2, <2>3, <3>1 DEF StoreInv
    <3> QED
      BY <1>t, <2>1, <2>3, <3>2 DEF DataInv, local
  <2>4. CASE /\ session' = <<>> /\ Persist /\ edited' = 0
             /\ cmd' = [cmd EXCEPT !.at = "file", !.rest = ToScan]
    <3>1. ToScan \in Seq(Files)
      BY <1>t, ScanTyped DEF DataInv
    <3>2. cmd' \in Commands /\ cmd'.at = "file" /\ cmd'.op = cmd.op
      BY <1>t, <2>4, <3>1 DEF Commands, Steps, Working, Sending
    <3>3. cmd.op = "build"
      BY <1>t, <2>1 DEF CmdInv, Sending, At
    <3>4. CmdInv'
      BY <3>2, <3>3 DEF CmdInv, At, Free, Indexing, Sending, Removing
    <3> QED
      BY <2>3, <2>4, <3>4 DEF TypedInv, Persist
  <2>5. CASE session' = <<>> /\ dirty' = TRUE /\ saved' \in {<<>>, Husk} /\ edited' = 0 /\ Failed
    BY <1>e, <2>3, <2>5 DEF TypedInv
  <2>6. CASE saved' = Husk /\ Failed /\ UNCHANGED <<session, dirty, edited>>
    <3>1. session' = None /\ saved' = Husk /\ dirty' = FALSE
      BY <2>1, <2>2, <2>6
    <3>2. StoreInv'
      BY <2>1, <2>2, <3>1 DEF StoreInv
    <3> QED
      BY <1>t, <1>e, <2>1, <2>6, <3>2 DEF TypedInv, DataInv, local
  <2> QED
    BY <1>1, <2>4, <2>5, <2>6 DEF CreateSession
<1>2. ASSUME NextSegment PROVE TypedInv'
  <2>1. /\ session # None /\ cmd.at \in Sending /\ session' = session /\ PlanReady
        /\ UNCHANGED <<repo, local, edited, doubted>>
    BY <1>2 DEF NextSegment, At, Sending
  <2>2. planned' = TRUE /\ kv' = KV /\ onDisk' = OnDisk
    BY <2>1 DEF PlanReady
  <2>3. KV \in BOOLEAN /\ OnDisk \in BOOLEAN /\ (KV \/ OnDisk => saved \in {session, Husk})
    BY <1>t, <2>1, StoreFacts
  <2>4. Persist \/ PersistFails => StoreInv'
    BY <1>t, <2>1, <2>2, <2>3, StoreSame DEF Persist, PersistFails
  <2>5. CASE Persist /\ Goto("file")
    <3>1. /\ cmd' \in Commands /\ cmd'.at = "file" /\ cmd'.op = cmd.op /\ cmd'.file = cmd.file
          /\ cmd'.rest = cmd.rest
      BY <1>t, <2>5, GotoShape DEF Steps, Working, Sending
    <3>2. CmdInv'
      BY <1>t, <2>1, <3>1 DEF CmdInv, At, Free, Indexing, Sending, Removing
    <3> QED
      BY <1>t, <2>1, <2>4, <2>5, <3>2 DEF TypedInv, DataInv, local
  <2>6. CASE PersistFails /\ Failed
    BY <1>t, <1>e, <2>1, <2>4, <2>6 DEF TypedInv, DataInv, local
  <2> QED
    BY <1>2, <2>5, <2>6 DEF NextSegment
<1>3. ASSUME AddMemory PROVE TypedInv'
  <2> DEFINE memory == Head(cmd.pending)
             rs == cmd.records \cup IF memory[2] = 0 THEN {} ELSE {memory}
  <2>1. /\ At("file") /\ cmd.pending # <<>> /\ session # None
        /\ session' = Append(session, memory)
        /\ planned' = TRUE /\ kv' = FALSE /\ onDisk' = FALSE
        /\ UNCHANGED <<repo, local, edited, doubted>>
    BY <1>3 DEF AddMemory
  <2>0. \/ /\ Persist \/ (dirty' = TRUE /\ saved' = saved)
           /\ cmd' = [cmd EXCEPT !.pending = Tail(@), !.records = rs, !.count = @ + 1]
        \/ PersistFails /\ Failed
    BY <1>3 DEF AddMemory
  <2>2. memory \in Memories /\ Tail(cmd.pending) \in Seq(Memories)
    BY <1>t, <2>1, HeadAndTail DEF Commands
  <2>3. rs \subseteq Ids
    <3> HIDE DEF memory
    <3>1. memory[2] # 0 => memory \in Ids
      <4>1. /\ memory[1] \in Files /\ memory[2] \in Nat /\ memory[2] <= MaxChunks[memory[1]]
            /\ memory = <<memory[1], memory[2]>>
        BY <2>2, IdShape
      <4> QED
        BY <4>1, IdShape
    <3>2. cmd.records \subseteq Ids
      BY <1>t DEF Commands
    <3> QED
      BY <3>1, <3>2
  <2> HIDE DEF rs, memory
  <2>4. session \in Seq(Memories) /\ session' \in Seq(Memories)
    <3>1. session \in Seq(Memories) /\ session' = Append(session, memory) /\ memory \in Memories
      BY <1>t, <2>1, <2>2 DEF StoreInv
    <3> QED
      BY <3>1, RangeOfAppend
  <2>5. CmdInv'
    <3>1. CASE cmd' = [cmd EXCEPT !.pending = Tail(@), !.records = rs, !.count = @ + 1]
      <4> DEFINE tail == Tail(cmd.pending)
                 n == cmd.count + 1
      <4>1. tail \in Seq(Memories) /\ n \in Nat
        BY <1>t, <2>2 DEF Commands
      <4>2. cmd' = [cmd EXCEPT !.pending = tail, !.records = rs, !.count = n]
        BY <3>1
      <4> HIDE DEF tail, n
      <4>3. cmd.at = "file"
        BY <2>1 DEF At
      <4>4. cmd' \in Commands /\ cmd'.at = "file" /\ cmd'.op = cmd.op /\ cmd'.rest = cmd.rest
            /\ cmd'.file = cmd.file
        BY <1>t, <2>3, <4>1, <4>2, <4>3 DEF Commands
      <4> QED
        BY <1>t, <4>3, <4>4 DEF CmdInv, At, Free, Indexing, Sending, Removing
    <3> QED
      BY <1>e, <2>0, <3>1
  <2>7. StartOf(session', session')
        /\ \A s \in Seq(Memories) : StartOf(s, session) => StartOf(s, session')
    BY <2>1, <2>2, <2>4, StartOfProperties
  <2>8. \/ saved' = session' /\ dirty' = FALSE
        \/ saved' \in {saved, Husk} /\ dirty' = TRUE
    BY <2>0 DEF Persist, PersistFails
  <2>10. session' # None /\ Husk # None
    BY <1>n, <1>h, <2>4
  <2>9. StoreInv'
    BY <1>t, <2>1, <2>4, <2>7, <2>8, <2>10 DEF StoreInv
  <2> QED
    BY <1>t, <2>1, <2>5, <2>9 DEF TypedInv, DataInv, local
<1>i. ASSUME NEW at \in Indexing, cmd.at \in Indexing, Goto(at) PROVE CmdInv'
  <2>1. at \in Steps
    BY DEF Steps, Working, Sending
  <2>2. cmd' \in Commands /\ cmd'.at = at /\ cmd'.op = cmd.op /\ cmd'.file = cmd.file
    BY <1>i, <1>t, <2>1, GotoShape
  <2>3. cmd.op \in Adding /\ (cmd.op = "add" => cmd.file \in Files)
    BY <1>i, <1>t DEF CmdInv, Free, Indexing, Sending, At
  <2> QED
    BY <2>2, <2>3 DEF CmdInv, At, Free, Indexing, Sending, Removing
<1>4. ASSUME IndexSession PROVE TypedInv'
  <2>1. /\ session # None /\ session' = session /\ SaveIfDirty /\ planned' = TRUE /\ kv' = TRUE
        /\ onDisk' = TRUE \/ onDisk' = OnDisk
        /\ UNCHANGED <<repo, local, edited, doubted>>
    BY <1>4 DEF IndexSession
  <2>2. OnDisk \in BOOLEAN /\ dirty' = FALSE /\ saved' \in {session, Husk}
    BY <1>t, <2>1, StoreFacts, SavedIfDirty
  <2>3. StoreInv'
    BY <1>t, <2>1, <2>2, StoreSame
  <2>4. cmd.at = "index" /\ cmd.op \in Adding
    BY <1>4, <1>t DEF IndexSession, CmdInv, At, Indexing, Sending
  <2>5. AfterIndex(TRUE) \in Indexing /\ AfterIndex(FALSE) \in Indexing
    BY <2>4 DEF AfterIndex, Adding, Indexing, Sending
  <2>6. CmdInv'
    BY <1>4, <1>i, <2>4, <2>5 DEF IndexSession, Indexing, Sending
  <2> QED
    BY <1>t, <2>1, <2>3, <2>6 DEF TypedInv, DataInv, local
<1>5. ASSUME SaveSession PROVE TypedInv'
  <2>1. /\ session # None /\ session' = session /\ planned' = TRUE /\ kv' = TRUE /\ onDisk' = TRUE
        /\ cmd.at = "save"
        /\ UNCHANGED <<repo, local, edited, doubted>>
    BY <1>5 DEF SaveSession, At
  <2>2. \/ (SaveIfDirty \/ Persist) /\ Goto("check")
        \/ saved' \in {IF dirty THEN session ELSE saved, Husk} /\ dirty' = TRUE /\ Failed
    BY <1>5 DEF SaveSession
  <2>3. dirty' \in BOOLEAN /\ saved' \in {session, Husk}
    <3>1. CASE SaveIfDirty
      BY <1>t, <2>1, <3>1, SavedIfDirty
    <3>2. CASE Persist
      BY <2>1, <3>2 DEF Persist
    <3>3. CASE saved' \in {IF dirty THEN session ELSE saved, Husk} /\ dirty' = TRUE
      <4>1. ~dirty => saved \in {session, Husk}
        BY <1>t, <2>1 DEF StoreInv
      <4> QED
        BY <3>3, <4>1
    <3> QED
      BY <2>2, <3>1, <3>2, <3>3
  <2>4. StoreInv'
    BY <1>t, <2>1, <2>3, StoreSame
  <2>5. CmdInv'
    BY <1>e, <1>i, <2>1, <2>2 DEF Indexing, Sending
  <2> QED
    BY <1>t, <2>1, <2>4, <2>5 DEF TypedInv, DataInv, local
<1>10. ASSUME IndexCutOff PROVE TypedInv'
  <2>1. /\ session # None /\ session' = session /\ SaveIfDirty /\ planned' = TRUE
        /\ kv' \in {KV, TRUE} /\ onDisk' \in {OnDisk, kv'} /\ Failed
        /\ UNCHANGED <<repo, local, edited, doubted>>
    BY <1>10 DEF IndexCutOff
  <2>2. KV \in BOOLEAN /\ OnDisk \in BOOLEAN /\ dirty' = FALSE /\ saved' \in {session, Husk}
    BY <1>t, <2>1, StoreFacts, SavedIfDirty
  <2>3. kv' \in BOOLEAN
    BY <2>1, <2>2
  <2>5. onDisk' \in BOOLEAN
    BY <2>1, <2>2, <2>3
  <2>4. StoreInv'
    BY <1>t, <2>1, <2>2, <2>3, <2>5, StoreSame
  <2> QED
    BY <1>t, <1>e, <2>1, <2>4 DEF TypedInv, DataInv, local
<1>11. ASSUME FactsNotSaved PROVE TypedInv'
  <2>1. /\ session # None /\ session' = session /\ PlanReady /\ PersistFails /\ Failed
        /\ UNCHANGED <<repo, local, edited, doubted>>
    BY <1>11 DEF FactsNotSaved
  <2>2. planned' = TRUE /\ kv' = KV /\ onDisk' = OnDisk /\ dirty' = TRUE /\ saved' \in {saved, Husk}
    BY <2>1 DEF PlanReady, PersistFails
  <2>3. KV \in BOOLEAN /\ OnDisk \in BOOLEAN /\ (KV \/ OnDisk => saved \in {session, Husk})
    BY <1>t, <2>1, StoreFacts
  <2>4. StoreInv'
    BY <1>t, <2>1, <2>2, <2>3, StoreSame
  <2> QED
    BY <1>t, <1>e, <2>1, <2>4 DEF TypedInv, DataInv, local
<1>12. ASSUME LoadPlan PROVE TypedInv'
  <2>1. /\ session # None /\ ~planned /\ PlanReady
        /\ UNCHANGED <<repo, local, session, saved, dirty, cmd, edited, doubted>>
    BY <1>12 DEF LoadPlan
  <2>2. planned' = TRUE /\ kv' = KV /\ onDisk' = OnDisk
    BY <2>1 DEF PlanReady
  <2>3. KV \in BOOLEAN /\ OnDisk \in BOOLEAN /\ saved' \in {session, Husk} /\ dirty' \in BOOLEAN
    BY <1>t, <2>1, StoreFacts DEF StoreInv
  <2>4. StoreInv'
    BY <1>t, <2>1, <2>2, <2>3, StoreSame
  <2> QED
    BY <1>t, <2>1, <2>4 DEF TypedInv, CmdInv, At, Free, DataInv, local, Sending
<1>6. ASSUME DeleteSession PROVE TypedInv'
  <2>1. CmdInv'
    <3>1. CASE Failed
      BY <1>e, <3>1
    <3>2. CASE Goto("unlink")
      BY <1>6, <1>t, <3>2, GotoShape
         DEF DeleteSession, CmdInv, At, Free, Working, Indexing, Removing, Adding, Steps,
             Sending
    <3> QED
      BY <1>6, <3>1, <3>2 DEF DeleteSession
  <2>2. StoreInv'
    <3>1. CASE UNCHANGED server
      BY <1>t, <3>1 DEF StoreInv, server
    <3>2. CASE SessionGone
      BY <3>2 DEF StoreInv, SessionGone
    <3>3. CASE session # None /\ SessionStays
      <4>1. /\ session' = session /\ dirty' = dirty /\ planned' = planned
            /\ (saved' = saved \/ saved' = Husk)
            /\ (onDisk' = onDisk \/ onDisk' = FALSE)
            /\ kv' = onDisk'
        BY <3>3 DEF SessionStays
      <4>2. dirty \in BOOLEAN /\ planned \in BOOLEAN /\ kv \in BOOLEAN /\ onDisk \in BOOLEAN
        BY <1>t DEF StoreInv
      <4>3. onDisk' \in BOOLEAN /\ kv' \in BOOLEAN /\ (kv' \/ onDisk' => onDisk)
        <5>1. CASE onDisk' = onDisk
          BY <4>1, <4>2, <5>1, Zenon
        <5>2. CASE onDisk' = FALSE
          BY <4>1, <4>2, <5>2, Zenon
        <5> QED
          BY <4>1, <5>1, <5>2
      <4>4. CASE saved' = saved
        BY <1>t, <3>3, <4>1, <4>3, <4>4 DEF StoreInv
      <4>5. CASE saved' = Husk
        BY <1>t, <1>h, <3>3, <4>1, <4>3, <4>5 DEF StoreInv
      <4> QED
        BY <4>1, <4>4, <4>5
    <3> QED
      BY <1>6, <3>1, <3>2, <3>3 DEF DeleteSession
  <2> QED
    BY <1>6, <1>t, <2>1, <2>2 DEF DeleteSession, TypedInv, DataInv, local
<1>7. ASSUME ServerRestart PROVE TypedInv'
  <2> DEFINE lost == cmd.lost \/ (~Free /\ session # session')
  <2>1. cmd' = [cmd EXCEPT !.lost = lost]
    BY <1>7 DEF ServerRestart
  <2>2. lost \in BOOLEAN
    BY <1>t DEF Commands
  <2> HIDE DEF lost
  <2>3. /\ cmd' \in Commands /\ cmd'.at = cmd.at /\ cmd'.op = cmd.op /\ cmd'.rest = cmd.rest
        /\ cmd'.pending = cmd.pending /\ cmd'.records = cmd.records /\ cmd'.count = cmd.count
        /\ cmd'.file = cmd.file
    BY <1>t, <2>1, <2>2 DEF Commands
  <2>4. CmdInv'
    BY <1>t, <2>3 DEF CmdInv, At, Free, Sending
  <2>5. /\ session' = IF saved = Husk THEN None ELSE saved
        /\ dirty' = FALSE /\ planned' = FALSE /\ kv' = FALSE /\ onDisk' = FALSE
        /\ saved' = saved
    BY <1>7 DEF ServerRestart
  <2>6. saved \notin {None, Husk} => saved \in Seq(Memories) /\ StartOf(saved, saved)
    BY <1>t, StartOfProperties DEF StoreInv
  <2>7. StoreInv'
    BY <1>n, <1>h, <1>t, <2>5, <2>6 DEF StoreInv
  <2> QED
    BY <1>7, <1>t, <2>4, <2>7 DEF ServerRestart, TypedInv, DataInv, local
<1>8. ASSUME OtherSessionEvicts PROVE TypedInv'
  <2>1. /\ kv' = onDisk
        /\ UNCHANGED <<repo, local, session, saved, dirty, planned, onDisk, cmd, edited, doubted>>
    BY <1>8 DEF OtherSessionEvicts
  <2>2. StoreInv'
    BY <1>t, <2>1 DEF StoreInv
  <2> QED
    BY <1>t, <2>1, <2>2 DEF TypedInv, CmdInv, At, Free, DataInv, local, Sending
<1>9. ASSUME Edit PROVE TypedInv'
  <2>0. PICK f \in Files : \E n \in 0..MaxChunks[f] : repo' = [repo EXCEPT ![f] = n]
    BY <1>9 DEF Edit
  <2>1. PICK n \in 0..MaxChunks[f] : repo' = [repo EXCEPT ![f] = n]
    BY <2>0
  <2>2. MaxChunks[f] \in Nat
    BY FilesAssumption
  <2>3. repo' \in [Files -> Nat] /\ \A g \in Files : repo'[g] <= MaxChunks[g]
    BY <1>t, <2>1, <2>2 DEF DataInv
  <2>4. edited' = edited + 1 /\ UNCHANGED <<local, server, cmd, doubted>>
    BY <1>9 DEF Edit
  <2>5. DataInv' /\ StoreInv' /\ CmdInv'
    BY <1>t, <2>3, <2>4 DEF DataInv, StoreInv, CmdInv, At, Free, local, server, Sending
  <2> QED
    BY <2>5 DEF TypedInv
<1> QED
  BY <1>1, <1>2, <1>3, <1>4, <1>5, <1>6, <1>7, <1>8, <1>9, <1>10, <1>11, <1>12

-----------------------------------------------------------------------------
(* Stages.                                                                 *)
LEMMA StageKept ==
    ASSUME TypedInv, StageInv, [Next]_vars
    PROVE  StageInv'
<1>t. /\ cmd \in Commands /\ CmdInv /\ DataInv /\ StoreInv
  BY DEF TypedInv, CmdInv, Sending, At
<1>n. cmd.records # None
  BY <1>t, NoneAssumption DEF Commands
<1>e. ASSUME Failed PROVE StageInv'
  BY <1>e, CommandShape DEF Failed, StageInv, At, Working, Indexing, Removing, Adding, Ops,
                            Past, Indexed, Cached, Sending
<1>1. ASSUME StartIndex PROVE StageInv'
  BY <1>1, CommandShape DEF StartIndex, StageInv, At, Working, Indexing, Removing, Adding, Ops,
                            local, Past, Indexed, Cached, Sending
<1>2. ASSUME ReadFile PROVE StageInv'
  <2>1. cmd'.at = "file" /\ cmd'.op = cmd.op /\ cmd.at = "file" /\ cmd.pending = <<>>
    BY <1>2, <1>t DEF ReadFile, Commands, At
  <2>2. UNCHANGED <<local, server>>
    BY <1>2 DEF ReadFile
  <2> QED
    BY <2>1, <2>2 DEF StageInv, At, Working, Indexing, Removing, Adding, local, server, Past,
                      Indexed, Cached, Sending
<1>3. ASSUME AllAdded PROVE StageInv'
  <2>1. UNCHANGED <<local, server>> /\ cmd.at = "file" /\ cmd.pending = <<>> /\ (Failed \/ Goto("index"))
    BY <1>3 DEF AllAdded, At
  <2>2. CASE Goto("index")
    <3>1. cmd'.at = "index" /\ cmd'.op = cmd.op
      BY <1>t, <2>2, GotoShape DEF Steps, Working, Indexing, Sending
    <3> QED
      BY <2>1, <3>1 DEF StageInv, At, Working, Indexing, Removing, Adding, local, server, Past,
                        Indexed, Cached, Sending
  <2> QED
    BY <1>e, <2>1, <2>2
<1>4. ASSUME ReadStatus PROVE StageInv'
  <2>1. /\ cmd'.at \in {"chunks", "save"} /\ cmd'.op = cmd.op /\ cmd'.trusted = cmd.trusted
        /\ cmd'.records = cmd.records
    BY <1>4, <1>t, GotoShape DEF ReadStatus, Steps, Working, Indexing, Sending
  <2>2. UNCHANGED <<local, server>> /\ cmd.at = "status"
    BY <1>4 DEF ReadStatus, At
  <2> QED
    BY <2>1, <2>2 DEF StageInv, At, Working, Indexing, Removing, Adding, local, server, Past,
                      Indexed, Cached, Sending
<1>5. ASSUME CheckStatus PROVE StageInv'
  <2>1. /\ \/ cmd.at = "indexed" /\ cmd'.at = "save"
           \/ cmd.at = "check" /\ cmd'.at = "chunks"
        /\ cmd'.op = cmd.op /\ cmd'.trusted = cmd.trusted
    BY <1>5, <1>t, GotoShape DEF CheckStatus, At, Steps, Working, Indexing, Sending
  <2>2. UNCHANGED <<local, server>>
    BY <1>5 DEF CheckStatus
  <2> QED
    BY <2>1, <2>2 DEF StageInv, At, Working, Indexing, Removing, Adding, local, server, Past,
                      Indexed, Cached, Sending
<1>6. ASSUME WriteChunks PROVE StageInv'
  <2>1. cmd'.at = "write_index" /\ cmd'.op = cmd.op /\ cmd'.records = cmd.records
        /\ cmd'.trusted = cmd.trusted
    BY <1>6, <1>t, GotoShape DEF WriteChunks, Steps, Working, Indexing, Sending
  <2>2. UNCHANGED <<index, server>> /\ cmd.at = "chunks" /\ chunks' = cmd.records
    BY <1>6 DEF WriteChunks, At
  <2> QED
    BY <2>1, <2>2 DEF StageInv, At, Working, Indexing, Removing, Adding, server, Past, Indexed,
                      Cached, Sending
<1>7. ASSUME WriteIndex PROVE StageInv'
  <2>1. UNCHANGED <<chunks, server>> /\ cmd.at = "write_index" /\ index' = cmd.count
        /\ cmd.op \in Adding
    BY <1>7, <1>t DEF WriteIndex, At, CmdInv, Sending
  <2>2. CASE Done
    <3>1. cmd'.at = "done" /\ cmd'.op = cmd.op /\ cmd'.trusted = cmd.trusted
      BY <1>t, <2>2, DoneShape
    <3> QED
      BY <2>1, <3>1 DEF StageInv, At, Working, Indexing, Removing, Adding, server, Past,
                        Indexed, Cached, Sending
  <2>3. CASE Goto("config") /\ cmd.op = "add"
    <3>1. cmd'.at = "config" /\ cmd'.op = cmd.op /\ cmd'.records = cmd.records /\ cmd'.count = cmd.count
          /\ cmd'.trusted = cmd.trusted
      BY <1>t, <2>3, GotoShape DEF Steps, Working, Sending
    <3> QED
      BY <2>1, <3>1 DEF StageInv, At, Working, Indexing, Removing, Adding, server, Past,
                        Indexed, Cached, Sending
  <2> QED
    BY <1>7, <2>2, <2>3 DEF WriteIndex
<1>8. ASSUME Resume PROVE StageInv'
  <2>1. PICK at \in {"index", "save", "chunks"} :
          /\ at = "index" <=> ~StatusIndexed
          /\ cmd' = [Idle("resume", at) EXCEPT
                       !.records = ScanRecords, !.count = MemoryCount(ScanRecords),
                       !.trusted = (at = "chunks")]
    BY <1>8 DEF Resume, ResumeAt
  <2>2. session # None /\ UNCHANGED <<local, server>>
    BY <1>8 DEF Resume, ResumeAt
  <2>3. cmd'.at = at /\ cmd'.op = "resume" /\ cmd'.trusted = (at = "chunks")
    BY <2>1 DEF Idle
  <2>4. StatusIndexed => saved \in {session, Husk}
    BY <1>t, <2>2, StoreFacts DEF StatusIndexed, StoreInv
  <2> QED
    BY <2>1, <2>2, <2>3, <2>4 DEF StageInv, At, Working, Indexing, Removing, Adding, local,
                                  server, Past, Indexed, Cached, Sending
<1>9. ASSUME NEW f \in Files, AddFile(f) PROVE StageInv'
  <2>1. PICK at \in Sending :
          cmd' = [Idle("add", at) EXCEPT
                    !.file = f, !.pending = MemoriesOf(f), !.records = chunks, !.count = index]
    BY <1>9 DEF AddFile, Sending
  <2>2. /\ chunks # None /\ index # None
        /\ UNCHANGED <<local, server>>
    BY <1>9 DEF AddFile
  <2>3. cmd'.at = at /\ cmd'.op = "add" /\ cmd'.pending = MemoriesOf(f)
    BY <2>1 DEF Idle
  <2>4. MemoriesOf(f) # <<>>
    BY <1>t, FileOnDisk
  <2> QED
    BY <2>2, <2>3, <2>4 DEF StageInv, At, Working, Indexing, Sending, Removing, Adding, local,
                            server, Past, Indexed, Cached
<1>10. ASSUME WriteConfig PROVE StageInv'
  <2>1. /\ cmd'.at = "done" /\ cmd'.op = cmd.op /\ cmd.op = "add" /\ cmd.at = "config"
        /\ cmd'.trusted = cmd.trusted
    BY <1>10, <1>t, DoneShape DEF WriteConfig, CmdInv, At, Sending
  <2>2. UNCHANGED <<index, chunks, server>>
    BY <1>10 DEF WriteConfig
  <2> QED
    BY <2>1, <2>2 DEF StageInv, At, Working, Indexing, Removing, Adding, server, Past, Indexed,
                      Cached, Sending
<1>11. ASSUME NEW op \in {"reset", "reindex"}, StartReset(op) PROVE StageInv'
  <2>1. cmd'.at = "delete" /\ cmd'.op = op
    BY <1>11, CommandShape DEF StartReset, Removing, Ops
  <2> QED
    BY <2>1 DEF StageInv, At, Working, Indexing, Removing, Adding, Past, Indexed, Cached,
                Sending
<1>12. ASSUME UnlinkIndex PROVE StageInv'
  <2>1. cmd'.at = "unlink_chunks" /\ cmd'.op = cmd.op
    BY <1>12, <1>t, GotoShape DEF UnlinkIndex, Steps, Removing
  <2>2. UNCHANGED server /\ index' = None /\ cmd.at = "unlink"
    BY <1>12 DEF UnlinkIndex, At
  <2> QED
    BY <2>1, <2>2 DEF StageInv, At, Gone, Working, Indexing, Removing, Adding, server, Past,
                      Indexed, Cached, Sending
<1>13. ASSUME UnlinkChunks PROVE StageInv'
  <2>1. UNCHANGED <<index, server>> /\ chunks' = None /\ cmd.at = "unlink_chunks"
    BY <1>13 DEF UnlinkChunks, At
  <2>2. CASE cmd.op = "reset" /\ Done
    <3>1. cmd'.at = "done" /\ cmd'.op = cmd.op
      BY <1>t, <2>2, DoneShape
    <3> QED
      BY <2>1, <2>2, <3>1 DEF StageInv, At, Gone, Working, Indexing, Removing, Adding, server,
                              Past, Indexed, Cached, Sending
  <2>3. CASE Command("build", "create")
    <3>1. cmd'.at = "create" /\ cmd'.op = "build"
      BY <2>3, CommandShape DEF Removing, Ops, Adding
    <3> QED
      BY <2>1, <3>1 DEF StageInv, At, Gone, Working, Indexing, Removing, Adding, server, Past,
                        Indexed, Cached, Sending
  <2> QED
    BY <1>13, <2>2, <2>3 DEF UnlinkChunks
<1>14. ASSUME Interrupted PROVE StageInv'
  BY <1>14, <1>e DEF Interrupted
<1>15. ASSUME CreateSession PROVE StageInv'
  <2>1. /\ cmd.at = "create" /\ cmd.op = "build" /\ UNCHANGED local
    BY <1>15, <1>t DEF CreateSession, At, CmdInv, Sending
  <2>2. CASE cmd' = [cmd EXCEPT !.at = "file", !.rest = ToScan] /\ session' = <<>> /\ Persist
    <3>1. cmd'.at = "file" /\ cmd'.op = cmd.op
      BY <1>t, <2>2 DEF Commands
    <3>2. saved' # Husk
      BY <2>2, NoneAssumption, EmptySeq DEF Persist
    <3> QED
      BY <2>1, <3>1, <3>2 DEF StageInv, At, Working, Indexing, Removing, Adding, local, Past,
                              Indexed, Cached, Sending
  <2> QED
    BY <1>15, <1>e, <2>2 DEF CreateSession
<1>16. ASSUME NextSegment PROVE StageInv'
  <2>1. session # None /\ session' = session /\ cmd.at \in Sending /\ UNCHANGED local
    BY <1>16 DEF NextSegment, At, Sending
  <2>2. CASE Persist /\ Goto("file")
    <3>1. cmd'.at = "file" /\ cmd'.op = cmd.op
      BY <1>t, <2>2, GotoShape DEF Steps, Working, Sending
    <3>2. saved' # Husk
      BY <1>t, <2>1, <2>2, StoreFacts DEF Persist
    <3> QED
      BY <2>1, <3>1, <3>2 DEF StageInv, At, Working, Indexing, Sending, Removing, Adding, local,
                              Past, Indexed, Cached
  <2> QED
    BY <1>16, <1>e, <2>2 DEF NextSegment
<1>17. ASSUME AddMemory PROVE StageInv'
  <2> DEFINE memory == Head(cmd.pending)
             rs == cmd.records \cup IF memory[2] = 0 THEN {} ELSE {memory}
  <2>1. /\ cmd.at = "file" /\ UNCHANGED local
        /\ \/ /\ Persist \/ (dirty' = TRUE /\ saved' = saved)
              /\ cmd' = [cmd EXCEPT !.pending = Tail(@), !.records = rs, !.count = @ + 1]
           \/ Failed
    BY <1>17 DEF AddMemory, At
  <2>2. TypedInv'
    BY <1>17, ServerTyped
  <2> HIDE DEF rs, memory
  <2>3. CASE /\ Persist \/ (dirty' = TRUE /\ saved' = saved)
             /\ cmd' = [cmd EXCEPT !.pending = Tail(@), !.records = rs, !.count = @ + 1]
    <3>1. cmd'.at = "file" /\ cmd'.op = cmd.op
      BY <1>t, <2>1, <2>3 DEF Commands
    <3>2. session' # None => saved' # Husk \/ dirty'
      <4>1. CASE dirty' = TRUE
        BY <4>1
      <4>2. CASE Persist
        <5>1. session' # None => session' \in Seq(Memories)
          BY <2>2 DEF TypedInv, StoreInv
        <5> QED
          BY <4>2, <5>1, NoneAssumption DEF Persist
      <4> QED
        BY <2>3, <4>1, <4>2
    <3> QED
      BY <2>1, <3>1, <3>2 DEF StageInv, At, Working, Indexing, Sending, Removing, Adding, local,
                              Past, Indexed, Cached
  <2> QED
    BY <1>e, <2>1, <2>3
<1>18. ASSUME IndexSession PROVE StageInv'
  <2>1. /\ session # None /\ session' = session /\ SaveIfDirty /\ planned' = TRUE /\ kv' = TRUE
        /\ cmd.at = "index" /\ cmd.op \in Adding /\ UNCHANGED local
    BY <1>18, <1>t DEF IndexSession, CmdInv, At, Indexing, Sending
  <2>2. \/ onDisk' = TRUE /\ cached' = session /\ Goto(AfterIndex(TRUE))
        \/ Goto(AfterIndex(FALSE))
    BY <1>18 DEF IndexSession
  <2>3. saved' \in {session, Husk} /\ (saved # Husk \/ dirty => saved' = session) /\ session # Husk
    BY <1>t, <2>1, SavedIfDirty, StoreFacts
  <2>4. cmd.op # "resume" => saved' # Husk
    BY <2>1, <2>3 DEF StageInv, At, Past, Indexed, Cached, Sending
  <2>5. /\ AfterIndex(TRUE) \in {"save", "indexed", "status"}
        /\ AfterIndex(FALSE) \in {"save", "indexed"}
    BY <2>1 DEF AfterIndex, Adding
  <2>6. \/ /\ onDisk' = TRUE /\ cached' = session /\ cmd'.op = cmd.op
           /\ cmd'.at \in {"save", "indexed", "status"}
        \/ cmd'.at \in {"save", "indexed"} /\ cmd'.op = cmd.op
    BY <1>t, <2>2, <2>5, GotoShape DEF Steps, Working, Indexing, Sending
  <2> QED
    BY <2>1, <2>3, <2>4, <2>6 DEF StageInv, At, Working, Indexing, Sending, Removing, Adding,
                                  local, Past, Indexed, Cached
<1>19. ASSUME SaveSession PROVE StageInv'
  <2>1. /\ session # None /\ session' = session /\ planned' = TRUE /\ kv' = TRUE /\ onDisk' = TRUE
        /\ cached' = session /\ cmd.at = "save" /\ UNCHANGED local
    BY <1>19 DEF SaveSession, At
  <2>2. CASE (SaveIfDirty \/ Persist) /\ Goto("check")
    <3>1. cmd'.at = "check" /\ cmd'.op = cmd.op
      BY <1>t, <2>2, GotoShape DEF Steps, Working, Indexing, Sending
    <3>2. saved' \in {session, Husk} /\ saved' \in {saved, session} /\ session # Husk
      BY <1>t, <2>1, <2>2, SavedIfDirty, StoreFacts DEF Persist
    <3>3. cmd.op # "resume" => saved # Husk
      BY <2>1 DEF StageInv, Past, Indexed, Cached, Sending
    <3> QED
      BY <2>1, <3>1, <3>2, <3>3
         DEF StageInv, At, Working, Indexing, Sending, Removing, Adding, local, Past, Indexed,
             Cached
  <2> QED
    BY <1>19, <1>e, <2>2 DEF SaveSession
<1>25. ASSUME IndexCutOff \/ FactsNotSaved PROVE StageInv'
  BY <1>25, <1>e DEF IndexCutOff, FactsNotSaved
<1>20. ASSUME DeleteSession PROVE StageInv'
  <2>1. UNCHANGED local
    BY <1>20 DEF DeleteSession
  <2>2. CASE Goto("unlink")
    <3>1. cmd'.at = "unlink" /\ cmd'.op = cmd.op
      BY <1>t, <2>2, GotoShape DEF Steps, Removing
    <3>2. Gone'
      <4>1. CASE session = None /\ UNCHANGED server
        BY <1>t, <4>1 DEF StoreInv, Gone, server
      <4>2. CASE SessionGone
        BY <4>2 DEF SessionGone, Gone
      <4>3. CASE Failed
        <5>1. cmd'.at = "error"
          BY <4>3, IdleFields DEF Failed, Command
        <5> QED
          BY <3>1, <5>1
      <4> QED
        BY <1>20, <4>1, <4>2, <4>3 DEF DeleteSession
    <3> QED
      BY <2>1, <3>1, <3>2 DEF StageInv, At, Working, Indexing, Removing, Adding, local, Past,
                              Indexed, Cached, Sending
  <2> QED
    BY <1>20, <1>e, <2>2 DEF DeleteSession
<1>21. ASSUME ServerRestart PROVE StageInv'
  <2>1. /\ cmd'.at = cmd.at /\ cmd'.op = cmd.op /\ cmd'.records = cmd.records /\ cmd'.count = cmd.count
        /\ cmd'.pending = cmd.pending /\ cmd'.trusted = cmd.trusted
        /\ UNCHANGED <<local, saved, cached>>
        /\ session' = IF saved = Husk THEN None ELSE saved
        /\ planned' = FALSE
    BY <1>21, <1>t DEF ServerRestart, Commands
  <2>2. Gone => Gone'
    BY <2>1 DEF Gone
  <2>3. session' # None => saved # Husk /\ saved' # Husk
    BY <2>1
  <2>4. Past(Indexed)' => (saved' # Husk => (session' # None /\ saved' = session'))
                          /\ (cmd'.op # "resume" => saved' # Husk)
    BY <1>t, <2>1 DEF StageInv, StoreInv, At, Past, Indexed, Cached, Sending
  <2>5. Past(Cached)' /\ session' # None /\ ~cmd'.trusted => cached' = session'
    BY <1>t, <2>1 DEF StageInv, StoreInv, At, Cached, Indexed, Past, Sending
  <2> QED
    BY <2>1, <2>2, <2>3, <2>4, <2>5 DEF StageInv, At, local, Past, Indexed, Cached, Sending
<1>22. ASSUME OtherSessionEvicts PROVE StageInv'
  <2>1. /\ kv' = onDisk
        /\ UNCHANGED <<local, session, saved, dirty, planned, onDisk, cached, cmd>>
    BY <1>22 DEF OtherSessionEvicts
  <2> QED
    BY <2>1 DEF StageInv, At, Gone, local, Past, Indexed, Cached, Sending
<1>26. ASSUME LoadPlan PROVE StageInv'
  <2>1. /\ session # None /\ ~planned /\ kv' = KV /\ onDisk' = OnDisk
        /\ UNCHANGED <<local, session, saved, dirty, cached, cmd>>
    BY <1>26 DEF LoadPlan, PlanReady
  <2>2. cached = session => kv' /\ onDisk'
    BY <2>1 DEF KV, OnDisk, Listed
  <2> QED
    BY <2>1, <2>2 DEF StageInv, At, Gone, local, Past, Indexed, Cached, Sending
<1>23. ASSUME Edit PROVE StageInv'
  BY <1>23 DEF Edit, StageInv, At, Gone, local, server, Past, Indexed, Cached, Sending
<1>24. ASSUME UNCHANGED vars PROVE StageInv'
  BY <1>24 DEF vars, StageInv, At, Gone, local, server, Past, Indexed, Cached, Sending
<1> QED
  BY <1>1, <1>2, <1>3, <1>4, <1>5, <1>6, <1>7, <1>8, <1>9, <1>10, <1>11, <1>12, <1>13, <1>14,
     <1>15, <1>16, <1>17, <1>18, <1>19, <1>20, <1>21, <1>22, <1>23, <1>24, <1>25, <1>26 DEF Next


LEMMA InitStage == Init => StageInv
<1>1. Idle("none", "done").at = "done" /\ Idle("none", "done").op = "none"
  BY IdleFields
<1> QED
  BY <1>1 DEF Init, StageInv, At, Working, Indexing, Removing, Adding, Past, Indexed, Cached,
              Sending

Steady == TypedInv /\ StageInv

LEMMA SteadyInductive == Steady /\ [Next]_vars => Steady'
<1> SUFFICES ASSUME Steady, [Next]_vars PROVE Steady'
  OBVIOUS
<1>1. TypedInv /\ StageInv
  BY DEF Steady
<1>2. CASE UNCHANGED vars
  BY <1>1, <1>2
     DEF vars, Steady, TypedInv, CmdInv, DataInv, StoreInv, StageInv, At, Free, Gone, local,
         server, Past, Indexed, Cached, Sending
<1>3. CASE Next
  <2>1. TypedInv'
    BY <1>1, <1>3, ClientTyped, ServerTyped DEF Next
  <2> QED
    BY <1>1, <1>3, <2>1, StageKept DEF Steady
<1> QED
  BY <1>2, <1>3

LEMMA AlwaysSteady == Spec => []Steady
<1>1. Init => Steady
  BY InitTyped, InitStage DEF Steady
<1> QED
  BY <1>1, SteadyInductive, PTL DEF Spec

(* The repository, the client's files, the session and the running command *)
(* are well formed, whatever was cut off: a session in memory always has a *)
(* directory, and there is a KV cache only of a session.                   *)
THEOREM CodeTypeCorrect == Spec => []TypeOK
<1>1. Steady => TypeOK
  <2> SUFFICES ASSUME Steady PROVE TypeOK
    OBVIOUS
  <2>1. CmdInv /\ DataInv /\ StoreInv
    BY DEF Steady, TypedInv
  <2>2. \A f \in Files : repo[f] \in 0..MaxChunks[f]
    BY <2>1, FilesAssumption DEF DataInv
  <2>3. cmd.records \subseteq Ids /\ cmd.count \in Nat
    BY <2>1 DEF CmdInv, Commands, Sending, At
  <2>4. session # None => session \in Seq(Memories) /\ saved # None
    BY <2>1, NoneAssumption DEF StoreInv
  <2>5. saved \notin {None, Husk} => saved \in Seq(Memories)
    BY <2>1 DEF StoreInv
  <2> QED
    BY <2>1, <2>2, <2>3, <2>4, <2>5 DEF TypeOK, DataInv, StoreInv
<1> QED
  BY <1>1, AlwaysSteady, PTL

(* After a reset that succeeded the session is gone from memory and disk,  *)
(* and both local files are gone, until the next command: no restart, late *)
(* eviction or edit brings anything back.                                  *)
THEOREM ResetAlwaysForgets == Spec => []ResetForgets
<1>1. Steady => ResetForgets
  BY DEF Steady, StageInv, ResetForgets, Gone, Past, Indexed, Cached, Sending
<1> QED
  BY <1>1, AlwaysSteady, PTL

-----------------------------------------------------------------------------
(* What is still to be sent of the file that is read.                      *)
Opened == IF cmd.pending # <<>> /\ Head(cmd.pending)[2] > 0 THEN {Head(cmd.pending)[1]} ELSE {}

PendingAt(f, i, n) ==
    /\ cmd.pending = MemoryRun(f, i, n)
    /\ \A r \in cmd.records : r[1] = f => r[2] < i
    /\ i > 1 => f \in Seen
    /\ edited = 0 => n = repo[f]
    /\ cmd.op = "build" => f \in Range(ToScan)
    /\ cmd.op = "add" => f = cmd.file

PendingInv ==
    /\ cmd.at \in Sending /\ cmd.pending # <<>> =>
          \E f \in Files : \E n \in 1..MaxChunks[f] : \E i \in 0..n : PendingAt(f, i, n)
    /\ cmd.at \in Sending /\ cmd.op = "build" => Range(cmd.rest) \subseteq Range(ToScan)

LEMMA PendingFile ==
    ASSUME NEW f \in Files, NEW n \in 1..MaxChunks[f], NEW i \in 0..n, PendingAt(f, i, n)
    PROVE  /\ cmd.pending # <<>> /\ Head(cmd.pending) = <<f, i>>
           /\ Opened = (IF i > 0 THEN {f} ELSE {})
           /\ Tail(cmd.pending) = IF i = n THEN <<>> ELSE MemoryRun(f, i + 1, n)
           /\ Range(cmd.pending) = {<<f, j>> : j \in i..n}
<1>1. n \in Nat /\ n <= MaxChunks[f] /\ MaxChunks[f] \in Nat
  BY FilesAssumption
<1>2. /\ MemoryRun(f, i, n) # <<>> /\ Head(MemoryRun(f, i, n)) = <<f, i>>
      /\ Tail(MemoryRun(f, i, n)) = IF i = n THEN <<>> ELSE MemoryRun(f, i + 1, n)
      /\ Range(MemoryRun(f, i, n)) = {<<f, j>> : j \in i..n}
  BY <1>1, MemoryRunProperties
<1>3. cmd.pending = MemoryRun(f, i, n)
  BY DEF PendingAt
<1>4. Head(cmd.pending) = <<f, i>> /\ cmd.pending # <<>>
  BY <1>2, <1>3
<1>5. Opened = IF i > 0 THEN {f} ELSE {}
  <2>1. Head(cmd.pending)[2] = i /\ Head(cmd.pending)[1] = f
    BY <1>4
  <2> QED
    BY <1>4, <2>1 DEF Opened
<1> QED
  BY <1>2, <1>3, <1>4, <1>5

(* The memory <<f, i>> of n is added. *)
Adds(f, i, n) ==
    /\ At("file") /\ session # None
    /\ session' = Append(session, <<f, i>>) /\ saved' \in {saved, session', Husk}
    /\ cmd' \in Commands /\ cmd'.at = "file" /\ cmd'.op = cmd.op /\ cmd'.rest = cmd.rest
    /\ cmd'.file = cmd.file /\ cmd'.lost = cmd.lost
    /\ cmd'.count = cmd.count + 1
    /\ cmd'.records = IF i = 0 THEN cmd.records ELSE cmd.records \cup {<<f, i>>}
    /\ cmd'.pending = IF i = n THEN <<>> ELSE MemoryRun(f, i + 1, n)
    /\ Seen' = (IF i = 0 THEN Seen ELSE Seen \cup {f})
    /\ i > 0 => <<f, i>> \notin cmd.records
    /\ i = 0 => f \notin Seen
    /\ UNCHANGED <<repo, local, edited, doubted>>

LEMMA MemoryAdded ==
    ASSUME Steady, PendingInv, AddMemory, ~Failed
    PROVE  \E f \in Files : \E n \in 1..MaxChunks[f] : \E i \in 0..n :
              PendingAt(f, i, n) /\ Adds(f, i, n)
<1>t. cmd \in Commands /\ CmdInv /\ DataInv /\ StoreInv
  BY DEF Steady, TypedInv, CmdInv, Sending, At
<1> DEFINE memory == Head(cmd.pending)
           rs == cmd.records \cup IF memory[2] = 0 THEN {} ELSE {memory}
<1>0. /\ At("file") /\ cmd.pending # <<>> /\ session # None
      /\ session' = Append(session, memory)
      /\ \/ /\ Persist \/ (dirty' = TRUE /\ saved' = saved)
            /\ cmd' = [cmd EXCEPT !.pending = Tail(@), !.records = rs, !.count = @ + 1]
         \/ Failed
      /\ UNCHANGED <<repo, local, edited, doubted>>
  BY DEF AddMemory
<1> HIDE DEF memory, rs
<1>1. /\ At("file") /\ cmd.pending # <<>> /\ session # None
      /\ session' = Append(session, memory) /\ saved' \in {saved, session', Husk}
      /\ cmd' = [cmd EXCEPT !.pending = Tail(@), !.records = rs, !.count = @ + 1]
      /\ UNCHANGED <<repo, local, edited, doubted>>
  BY <1>0 DEF Persist
<1>2. PICK f \in Files : \E n \in 1..MaxChunks[f] : \E i \in 0..n : PendingAt(f, i, n)
  BY <1>1 DEF PendingInv, Sending, At
<1>3. PICK n \in 1..MaxChunks[f] : \E i \in 0..n : PendingAt(f, i, n)
  BY <1>2
<1>4. PICK i \in 0..n : PendingAt(f, i, n)
  BY <1>3
<1>5. memory = <<f, i>> /\ Tail(cmd.pending) = IF i = n THEN <<>> ELSE MemoryRun(f, i + 1, n)
  BY <1>4, PendingFile DEF memory
<1>6. rs = IF i = 0 THEN cmd.records ELSE cmd.records \cup {<<f, i>>}
  <2>1. memory[2] = i /\ memory = <<f, i>>
    BY <1>5
  <2> HIDE DEF memory
  <2> QED
    BY <2>1 DEF rs
<1>7. \A r \in cmd.records : r \in Ids /\ r[1] \in Files /\ r[2] \in Nat \ {0}
  BY <1>t, IdShape DEF Commands
<1>8. (i > 0 => <<f, i>> \notin cmd.records) /\ (i = 0 => f \notin Seen)
  BY <1>4, <1>7 DEF PendingAt, Seen
<1>9. TypedInv'
  BY ServerTyped DEF Steady
<1> HIDE DEF memory
<1>10. cmd' \in Commands /\ cmd'.at = "file" /\ cmd'.op = cmd.op /\ cmd'.rest = cmd.rest
       /\ cmd'.file = cmd.file /\ cmd'.lost = cmd.lost
       /\ cmd'.records = rs /\ cmd'.count = cmd.count + 1 /\ cmd'.pending = Tail(cmd.pending)
  BY <1>t, <1>1, <1>9 DEF Commands, At, TypedInv, CmdInv, Sending
<1> HIDE DEF rs
<1>11. Seen' = IF i = 0 THEN Seen ELSE Seen \cup {f}
  <2>1. Seen' = {r[1] : r \in rs}
    BY <1>10 DEF Seen
  <2>2. CASE i = 0
    BY <1>6, <2>1, <2>2 DEF Seen
  <2>3. CASE i # 0
    <3>1. rs = cmd.records \cup {<<f, i>>}
      BY <1>6, <2>3
    <3>2. {r[1] : r \in cmd.records \cup {<<f, i>>}} = {r[1] : r \in cmd.records} \cup {f}
      <4> DEFINE p == <<f, i>>
      <4>1. p[1] = f
        OBVIOUS
      <4> HIDE DEF p
      <4>2. {r[1] : r \in cmd.records \cup {p}} = {r[1] : r \in cmd.records} \cup {f}
        BY <4>1
      <4> QED
        BY <4>2 DEF p
    <3> QED
      BY <2>1, <2>3, <3>1, <3>2 DEF Seen
  <2> QED
    BY <2>2, <2>3
<1>12. Adds(f, i, n)
  BY <1>1, <1>5, <1>6, <1>8, <1>10, <1>11 DEF Adds
<1> QED
  BY <1>4, <1>12


-----------------------------------------------------------------------------
(* What the client counts and records, and what the session holds.  The    *)
(* count is that of the records and of the headers sent.                   *)
CountInv ==
    /\ cmd.at \in Sending /\ (cmd.op = "build" \/ ~doubted) =>
          cmd.count = Cardinality(cmd.records) + Cardinality(Seen \cup Opened)
    /\ cmd.at \in Indexing \cup {"write_index", "config"} /\ (cmd.op # "add" \/ ~doubted) =>
          cmd.count = MemoryCount(cmd.records)
    /\ cmd.op = "add" /\ cmd.at \in Sending =>
          index <= cmd.count /\ (cmd.pending = <<>> => index < cmd.count)
    /\ cmd.op = "add" /\ cmd.at \in Indexing => index < cmd.count

(* Unless the server lost memories, what was recorded was sent.            *)
SentInv ==
    /\ cmd.op = "build" /\ cmd.at \in Sending /\ session # None =>
          Range(session) \subseteq cmd.records \cup Headers(Seen \cup Opened)
    /\ cmd.at \in Working /\ ~cmd.lost => session # None /\ cmd.count = Len(session)
    /\ cmd.at \in Indexing \cup Sending /\ ~cmd.lost /\ ~doubted /\ (cmd.op = "resume" => edited = 0) =>
          cmd.records \subseteq Range(session)

(* A session whose records were not written yet, of files that are as they *)
(* were when it was made, holds nothing twice and nothing else.            *)
FoundMemories == Headers(Found) \cup UNION {ChunksOf(f) : f \in Found}

FreshInv ==
    chunks = None /\ session # None /\ edited = 0 =>
        IsInjective(session) /\ Range(session) \subseteq FoundMemories

(* While the files are as they were when the session was made, the records *)
(* are those of a scan, and of files added since.                          *)
AllChunks == UNION {ChunksOf(f) : f \in Files}

StillToRead(f) ==
    f \in Range(cmd.rest) /\ f \notin Seen /\ (cmd.pending = <<>> \/ Head(cmd.pending)[1] # f)

ScanInv ==
    edited = 0 /\ ~doubted =>
      /\ chunks # None => chunks \subseteq AllChunks /\ \A f \in Found : ChunksOf(f) \subseteq chunks
      /\ cmd.at \in Indexing \cup Sending => cmd.records \subseteq AllChunks
      /\ cmd.at \in Sending /\ cmd.op = "build" =>
            \A f \in Found : StillToRead(f) \/ ChunksOf(f) \subseteq cmd.records \cup Range(cmd.pending)
      /\ cmd.at \in Indexing /\ cmd.op # "add" => \A f \in Found : ChunksOf(f) \subseteq cmd.records
      /\ cmd.op = "resume" /\ cmd.at \in Indexing /\ chunks # None => cmd.records = chunks
      /\ cmd.op = "add" /\ cmd.at \in Indexing \cup Sending => chunks \subseteq cmd.records
      /\ cmd.op = "add" /\ cmd.at \in Sending => ChunksOf(cmd.file) \subseteq cmd.records \cup Range(cmd.pending)
      /\ cmd.op = "add" /\ cmd.at \in Indexing \cup {"write_index", "config"} =>
            ChunksOf(cmd.file) \subseteq cmd.records

(* index.json counts the records, or fewer memories than there are.        *)
IndexInv ==
    /\ chunks # None /\ index # None /\ session # None /\ ~doubted =>
          \/ index = MemoryCount(chunks)
          \/ index < Len(session) /\ (saved # Husk => index < Len(saved))
    /\ At("done") /\ cmd.op \in Adding =>
          /\ chunks # None
          /\ ~cmd.lost /\ session # None => index = Len(session)
          /\ ~cmd.lost /\ ~doubted => index = MemoryCount(chunks)

RecordsInv ==
    /\ PendingInv /\ CountInv /\ SentInv /\ FreshInv /\ ScanInv /\ IndexInv
    /\ LocalRecordsExist

LEMMA AlwaysFields ==
    ASSUME Steady
    PROVE  /\ cmd \in Commands /\ cmd.records \subseteq Ids /\ cmd.count \in Nat
           /\ cmd.at \in Steps /\ cmd.op \in Ops /\ cmd.lost \in BOOLEAN
           /\ cmd.rest \in Seq(Files) /\ cmd.pending \in Seq(Memories)
           /\ CmdInv /\ DataInv /\ StoreInv /\ StageInv
BY DEF Steady, TypedInv, CmdInv, Commands, Sending, At

-----------------------------------------------------------------------------
(* A command ends, or takes away what a client could look up.              *)
Ends ==
    /\ cmd'.at \notin Working /\ (cmd'.at = "done" => cmd'.op \notin Adding)
    /\ UNCHANGED <<repo, edited>>
    /\ \/ UNCHANGED <<include, index, chunks, doubted>>
       \/ session' = None /\ index' = None /\ UNCHANGED <<include, chunks, doubted>>
       \/ session' = None /\ chunks' = None
    /\ \/ session' = None
       \/ session' = session /\ saved' \in {saved, session, Husk}

LEMMA EndsKeeps == Steady /\ RecordsInv /\ Ends => RecordsInv'
<1> SUFFICES ASSUME Steady, RecordsInv, Ends PROVE RecordsInv'
  OBVIOUS
<1>1. /\ cmd'.at \notin {"file", "seal", "index", "status", "indexed", "save", "check", "chunks",
                         "write_index", "config"}
      /\ cmd'.at = "done" => cmd'.op \notin Adding
      /\ UNCHANGED <<repo, edited>>
  BY DEF Ends, Working, Indexing, Sending
<1>2. PendingInv' /\ CountInv' /\ SentInv'
  BY <1>1 DEF PendingInv, CountInv, SentInv, At, Working, Indexing, Sending
<1>3. CASE session' = None /\ chunks' = None
  BY <1>1, <1>2, <1>3 DEF RecordsInv, FreshInv, ScanInv, IndexInv, LocalRecordsExist, At,
                          Indexing, Sending
<1>4. CASE session' = None /\ index' = None /\ UNCHANGED <<include, chunks, doubted>>
  <2>1. ScanInv'
    BY <1>1, <1>4 DEF RecordsInv, ScanInv, At, Indexing, ChunksOf, AllChunks, Found, ToScan,
                      Sending
  <2> QED
    BY <1>1, <1>2, <1>4, <2>1 DEF RecordsInv, FreshInv, IndexInv, LocalRecordsExist, At
<1>5. CASE UNCHANGED <<include, index, chunks, doubted>>
  <2>1. ScanInv'
    BY <1>1, <1>5 DEF RecordsInv, ScanInv, At, Indexing, ChunksOf, AllChunks, Found, ToScan,
                      Sending
  <2>2. CASE session' = None
    BY <1>1, <1>2, <1>5, <2>1, <2>2 DEF RecordsInv, FreshInv, IndexInv, LocalRecordsExist, At
  <2>3. CASE session' = session /\ saved' \in {saved, session, Husk}
    <3>1. FreshInv'
      BY <1>1, <1>5, <2>3 DEF RecordsInv, FreshInv, FoundMemories, ChunksOf, Found, ToScan
    <3>2. IndexInv'
      BY <1>1, <1>5, <2>3 DEF RecordsInv, IndexInv, At
    <3>3. LocalRecordsExist'
      BY <1>1, <1>5, <2>3 DEF RecordsInv, LocalRecordsExist
    <3> QED
      BY <1>2, <2>1, <3>1, <3>2, <3>3 DEF RecordsInv
  <2> QED
    BY <2>2, <2>3 DEF Ends
<1> QED
  BY <1>3, <1>4, <1>5 DEF Ends

LEMMA EndSteps ==
    ASSUME Steady,
           \/ StartIndex \/ (\E op \in {"reset", "reindex"} : StartReset(op)) \/ DeleteSession
           \/ UnlinkIndex \/ UnlinkChunks \/ Interrupted \/ IndexCutOff \/ FactsNotSaved
           \/ (NextSegment \/ SaveSession \/ AllAdded) /\ Failed
    PROVE  Ends
<1>t. /\ cmd \in Commands /\ CmdInv /\ StoreInv /\ StageInv
  BY AlwaysFields
<1>e. ASSUME Failed PROVE cmd'.at = "error"
  BY <1>e, IdleFields DEF Failed, Command
<1>f. ASSUME Failed, UNCHANGED <<repo, local, edited, doubted>>,
             session' = session, saved' \in {saved, session, Husk}
      PROVE  Ends
  BY <1>f, <1>e DEF Ends, Working, Indexing, Sending, local
<1>1. ASSUME StartIndex PROVE Ends
  BY <1>1, IdleFields DEF StartIndex, Command, Ends, Working, Indexing, Sending, local, server
<1>2. ASSUME NEW op \in {"reset", "reindex"}, StartReset(op) PROVE Ends
  BY <1>2, IdleFields DEF StartReset, Command, Ends, Working, Indexing, Sending, local, server
<1>3. ASSUME DeleteSession PROVE Ends
  <2>1. cmd'.at \in {"unlink", "error"}
    BY <1>3, <1>t, <1>e, GotoShape DEF DeleteSession, Steps, Removing
  <2>2. session' = None \/ (session' = session /\ saved' \in {saved, Husk})
    BY <1>3 DEF DeleteSession, SessionGone, SessionStays, server
  <2> QED
    BY <1>3, <2>1, <2>2 DEF DeleteSession, Ends, Working, Indexing, Sending, local
<1>4. ASSUME UnlinkIndex PROVE Ends
  <2>1. cmd'.at = "unlink_chunks" /\ session = None
    BY <1>4, <1>t, GotoShape DEF UnlinkIndex, Steps, Removing, StageInv, Gone, At
  <2> QED
    BY <1>4, <2>1 DEF UnlinkIndex, Ends, Working, Indexing, Sending, server
<1>5. ASSUME UnlinkChunks PROVE Ends
  <2>1. session = None /\ chunks' = None /\ UNCHANGED <<repo, server, edited>>
    BY <1>5, <1>t DEF UnlinkChunks, StageInv, Gone, At
  <2>2. cmd'.at = "create" \/ (cmd'.at = "done" /\ cmd'.op = "reset")
    BY <1>5, <1>t, DoneShape, IdleFields DEF UnlinkChunks, Command
  <2> QED
    BY <2>1, <2>2 DEF Ends, Working, Indexing, Sending, Adding, server
<1>6. ASSUME Interrupted PROVE Ends
  BY <1>6, <1>f DEF Interrupted, server
<1>7. ASSUME NextSegment, Failed PROVE Ends
  BY <1>7, <1>f DEF NextSegment, Persist, PersistFails
<1>8. ASSUME AllAdded, Failed PROVE Ends
  BY <1>8, <1>f DEF AllAdded, server
<1>9. ASSUME SaveSession, Failed PROVE Ends
  <2>1. session' = session /\ session # None
    BY <1>9 DEF SaveSession
  <2>2. saved' \in {saved, session, Husk}
    BY <1>9, <1>t, <2>1, SavedIfDirty DEF SaveSession, Persist
  <2> QED
    BY <1>9, <1>f, <2>1, <2>2 DEF SaveSession
<1>10. ASSUME IndexCutOff PROVE Ends
  <2>1. saved' \in {saved, session, Husk}
    BY <1>10, <1>t, SavedIfDirty DEF IndexCutOff
  <2> QED
    BY <1>10, <1>f, <2>1 DEF IndexCutOff
<1>11. ASSUME FactsNotSaved PROVE Ends
  BY <1>11, <1>f DEF FactsNotSaved, PersistFails
<1> QED
  BY <1>1, <1>2, <1>3, <1>4, <1>5, <1>6, <1>7, <1>8, <1>9, <1>10, <1>11


(* A step within the server's work, or none: the files and the session     *)
(* stay, and at most the directory of the session catches up.              *)
Moves ==
    /\ UNCHANGED <<repo, local, session, edited, doubted>>
    /\ saved' = saved \/ (session # None /\ saved' = session)
    /\ \/ cmd' = cmd
       \/ /\ cmd.at \in Indexing /\ cmd'.at \in Indexing
          /\ cmd'.op = cmd.op /\ cmd'.records = cmd.records /\ cmd'.count = cmd.count
          /\ cmd'.lost = cmd.lost /\ cmd'.file = cmd.file
       \/ /\ cmd.at \in Sending /\ cmd'.at \in Sending
          /\ cmd'.op = cmd.op /\ cmd'.records = cmd.records /\ cmd'.count = cmd.count
          /\ cmd'.lost = cmd.lost /\ cmd'.file = cmd.file
          /\ cmd'.rest = cmd.rest /\ cmd'.pending = cmd.pending

LEMMA MovesKeeps == Steady /\ RecordsInv /\ Moves => RecordsInv'
<1> SUFFICES ASSUME Steady, RecordsInv, Moves PROVE RecordsInv'
  OBVIOUS
<1>1. /\ UNCHANGED <<repo, include, index, chunks, session, edited, doubted>>
      /\ saved' = saved \/ (session # None /\ saved' = session)
  BY DEF Moves, local
<1>2. ToScan' = ToScan /\ Found' = Found /\ FoundMemories' = FoundMemories /\ AllChunks' = AllChunks
      /\ \A f : ChunksOf(f)' = ChunksOf(f)
  BY <1>1 DEF ToScan, Found, FoundMemories, AllChunks, ChunksOf
<1>3. /\ FreshInv'
      /\ LocalRecordsExist'
  BY <1>1, <1>2 DEF RecordsInv, FreshInv, LocalRecordsExist
<1>4. (chunks # None /\ index # None /\ session # None /\ ~doubted =>
          \/ index = MemoryCount(chunks)
          \/ index < Len(session) /\ (saved # Husk => index < Len(saved)))'
  BY <1>1 DEF RecordsInv, IndexInv
<1>5. CASE cmd' = cmd
  <2>1. PendingInv'
    BY <1>1, <1>2, <1>5 DEF RecordsInv, PendingInv, PendingAt, At, Seen, Sending
  <2>2. CountInv' /\ SentInv'
    BY <1>1, <1>5 DEF RecordsInv, CountInv, SentInv, At, Seen, Opened, Sending
  <2>3. ScanInv'
    BY <1>1, <1>2, <1>5 DEF RecordsInv, ScanInv, At, StillToRead, Seen, Sending
  <2>4. IndexInv'
    BY <1>1, <1>4, <1>5 DEF RecordsInv, IndexInv, At
  <2> QED
    BY <1>3, <2>1, <2>2, <2>3, <2>4 DEF RecordsInv
<1>6. CASE /\ cmd.at \in Indexing /\ cmd'.at \in Indexing
           /\ cmd'.op = cmd.op /\ cmd'.records = cmd.records /\ cmd'.count = cmd.count
           /\ cmd'.lost = cmd.lost /\ cmd'.file = cmd.file
  <2>1. PendingInv'
    BY <1>6 DEF PendingInv, At, Indexing, Sending
  <2>2. CountInv' /\ SentInv'
    BY <1>1, <1>6 DEF RecordsInv, CountInv, SentInv, At, Indexing, Working, Sending
  <2>3. ScanInv'
    BY <1>1, <1>2, <1>6 DEF RecordsInv, ScanInv, At, Indexing, Sending
  <2>4. IndexInv'
    BY <1>1, <1>4, <1>6 DEF RecordsInv, IndexInv, At, Indexing, Sending
  <2> QED
    BY <1>3, <2>1, <2>2, <2>3, <2>4 DEF RecordsInv
<1>7. CASE /\ cmd.at \in Sending /\ cmd'.at \in Sending
           /\ cmd'.op = cmd.op /\ cmd'.records = cmd.records /\ cmd'.count = cmd.count
           /\ cmd'.lost = cmd.lost /\ cmd'.file = cmd.file
           /\ cmd'.rest = cmd.rest /\ cmd'.pending = cmd.pending
  <2>0. Seen' = Seen /\ Opened' = Opened
    BY <1>7 DEF Seen, Opened
  <2>1. PendingInv'
    BY <1>1, <1>2, <1>7, <2>0 DEF RecordsInv, PendingInv, PendingAt
  <2>2. CountInv' /\ SentInv'
    BY <1>1, <1>7, <2>0 DEF RecordsInv, CountInv, SentInv, At, Indexing, Sending, Working
  <2>3. ScanInv'
    BY <1>1, <1>2, <1>7, <2>0 DEF RecordsInv, ScanInv, At, Indexing, Sending, StillToRead
  <2>4. IndexInv'
    BY <1>1, <1>4, <1>7 DEF RecordsInv, IndexInv, At, Sending
  <2> QED
    BY <1>3, <2>1, <2>2, <2>3, <2>4 DEF RecordsInv
<1> QED
  BY <1>5, <1>6, <1>7 DEF Moves

LEMMA MoveSteps ==
    ASSUME Steady,
           \/ (NextSegment \/ SaveSession) /\ ~Failed
           \/ IndexSession \/ ReadStatus \/ CheckStatus
           \/ LoadPlan \/ OtherSessionEvicts \/ UNCHANGED vars
    PROVE  Moves
<1>t. cmd \in Commands /\ CmdInv /\ StoreInv
  BY AlwaysFields
<1>g. ASSUME NEW at \in Indexing, cmd.at \in Indexing, Goto(at)
      PROVE  /\ cmd.at \in Indexing /\ cmd'.at \in Indexing
             /\ cmd'.op = cmd.op /\ cmd'.records = cmd.records /\ cmd'.count = cmd.count
             /\ cmd'.lost = cmd.lost /\ cmd'.file = cmd.file
  BY <1>t, <1>g, GotoShape DEF Steps, Working
<1>1. CASE NextSegment /\ ~Failed
  <2>1. cmd.at \in Sending /\ Goto("file") /\ Persist
    BY <1>1 DEF NextSegment, At, Sending
  <2>2. /\ cmd'.at \in Sending /\ cmd'.op = cmd.op /\ cmd'.records = cmd.records
        /\ cmd'.count = cmd.count /\ cmd'.lost = cmd.lost /\ cmd'.file = cmd.file
        /\ cmd'.rest = cmd.rest /\ cmd'.pending = cmd.pending
    BY <1>t, <2>1, GotoShape DEF Steps, Working, Sending
  <2> QED
    BY <1>1, <2>1, <2>2 DEF NextSegment, Moves, Persist
<1>2. CASE IndexSession
  <2>1. /\ UNCHANGED <<repo, local, session, edited, doubted>> /\ session # None
        /\ SaveIfDirty /\ cmd.at = "index"
    BY <1>2 DEF IndexSession, At
  <2>2. saved' \in {saved, session}
    BY <1>t, <2>1, SavedIfDirty
  <2>3. AfterIndex(TRUE) \in Indexing /\ AfterIndex(FALSE) \in Indexing
    BY <1>t, <2>1 DEF AfterIndex, CmdInv, Adding, Indexing
  <2>4. Goto(AfterIndex(TRUE)) \/ Goto(AfterIndex(FALSE))
    BY <1>2 DEF IndexSession
  <2>5. /\ cmd.at \in Indexing /\ cmd'.at \in Indexing
        /\ cmd'.op = cmd.op /\ cmd'.records = cmd.records /\ cmd'.count = cmd.count
        /\ cmd'.lost = cmd.lost /\ cmd'.file = cmd.file
    BY <1>g, <2>1, <2>3, <2>4 DEF Indexing
  <2> QED
    BY <2>1, <2>2, <2>5 DEF Moves
<1>3. CASE SaveSession /\ ~Failed
  <2>1. /\ UNCHANGED <<repo, local, session, edited, doubted>> /\ session # None
        /\ SaveIfDirty \/ Persist
        /\ cmd.at = "save" /\ Goto("check")
    BY <1>3 DEF SaveSession, At
  <2>2. saved' \in {saved, session}
    BY <1>t, <2>1, SavedIfDirty DEF Persist
  <2> QED
    BY <1>g, <2>1, <2>2 DEF Moves, Indexing
<1>4. CASE ReadStatus
  BY <1>4, <1>g DEF ReadStatus, Moves, At, Indexing, server
<1>5. CASE CheckStatus
  BY <1>5, <1>g DEF CheckStatus, Moves, At, Indexing, server
<1>6. CASE OtherSessionEvicts
  BY <1>6 DEF OtherSessionEvicts, Moves
<1>7. CASE UNCHANGED vars
  BY <1>7 DEF vars, server, Moves
<1>8. CASE LoadPlan
  BY <1>8 DEF LoadPlan, Moves
<1> QED
  BY <1>1, <1>2, <1>3, <1>4, <1>5, <1>6, <1>7, <1>8

-----------------------------------------------------------------------------
(* The steps of a command that works.                                      *)
SameFiles == UNCHANGED <<repo, include, chunks>>

LEMMA SameScan ==
    ASSUME SameFiles
    PROVE  /\ ToScan' = ToScan /\ Found' = Found /\ FoundMemories' = FoundMemories
           /\ AllChunks' = AllChunks /\ \A f : ChunksOf(f)' = ChunksOf(f)
           /\ ScanRecords' = ScanRecords
BY DEF SameFiles, ToScan, Found, FoundMemories, AllChunks, ChunksOf, ScanRecords, Preserved

LEMMA EmptySession ==
    ASSUME session' = <<>>
    PROVE  session' # None /\ Len(session') = 0 /\ Range(session') = {} /\ IsInjective(session')
<1>1. <<>> \in Seq(Memories) /\ Len(<<>>) = 0
  BY EmptySeq
<1>2. DOMAIN <<>> = {}
  BY <1>1, LenProperties
<1> QED
  BY <1>1, <1>2, NoneAssumption DEF Range, IsInjective

LEMMA CreateFailsKeeps ==
    ASSUME Steady, RecordsInv, CreateSession, Failed
    PROVE  RecordsInv'
<1>t. StageInv
  BY AlwaysFields
<1>1. At("create") /\ UNCHANGED <<repo, local, doubted>> /\ cmd'.at = "error"
  BY IdleFields DEF CreateSession, Failed, Command
<1>2. CASE session' = <<>> /\ edited' = 0
  <2>1. chunks' = None
    BY <1>1, <1>t DEF StageInv, Past, Indexed, Cached, Sending, local
  <2>2. PendingInv' /\ CountInv' /\ SentInv'
    BY <1>1 DEF PendingInv, CountInv, SentInv, At, Working, Indexing, Sending
  <2>3. FreshInv'
    BY <1>2, EmptySession DEF FreshInv
  <2>4. ScanInv' /\ IndexInv' /\ LocalRecordsExist'
    BY <1>1, <2>1 DEF ScanInv, IndexInv, LocalRecordsExist, At, Indexing, Sending
  <2> QED
    BY <2>2, <2>3, <2>4 DEF RecordsInv
<1>3. CASE saved' = Husk /\ UNCHANGED <<session, edited>>
  <2>1. Ends
    BY <1>1, <1>3 DEF Ends, Working, Indexing, Sending, local
  <2> QED
    BY <2>1, EndsKeeps
<1> QED
  BY <1>2, <1>3 DEF CreateSession

LEMMA CreateKeeps ==
    ASSUME Steady, RecordsInv, CreateSession, ~Failed
    PROVE  RecordsInv'
<1>t. cmd \in Commands /\ CmdInv /\ DataInv /\ StageInv
  BY AlwaysFields
<1>1. /\ At("create") /\ session' = <<>> /\ edited' = 0
      /\ cmd' = [cmd EXCEPT !.at = "file", !.rest = ToScan]
      /\ UNCHANGED <<repo, local, doubted>>
  BY DEF CreateSession
<1>2. chunks' = None
  BY <1>1, <1>t DEF StageInv, local, Past, Indexed, Cached, Sending
<1>3. /\ cmd'.at = "file" /\ cmd'.op = "build" /\ cmd'.pending = <<>> /\ cmd'.records = {}
      /\ cmd'.count = 0 /\ cmd'.rest = ToScan
  BY <1>1, <1>t DEF CmdInv, Commands, Sending, At
<1>4. ToScan' = ToScan /\ Found' = Found
  BY <1>1 DEF ToScan, Found, local
<1>5. Seen' = {} /\ Opened' = {}
  BY <1>3 DEF Seen, Opened
<1>6. session' # None /\ Len(session') = 0 /\ Range(session') = {} /\ IsInjective(session')
  BY <1>1, EmptySession
<1>7. PendingInv'
  BY <1>3, <1>4 DEF PendingInv, At, Sending
<1>8. CountInv'
  <2>1. Cardinality({}) = 0 /\ {} \cup {} = {}
    BY FS_EmptySet
  <2> QED
    BY <1>3, <1>5, <2>1 DEF CountInv, At, Indexing, Sending
<1>9. SentInv'
  BY <1>3, <1>6 DEF SentInv, At, Indexing, Sending
<1>10. FreshInv'
  BY <1>6 DEF FreshInv
<1>11. ScanInv'
  <2>1. \A f \in Found : StillToRead(f)'
    BY <1>3, <1>4, <1>5, <1>t, ScanTyped DEF StillToRead, DataInv
  <2> QED
    BY <1>2, <1>3, <1>4, <2>1 DEF ScanInv, At, Indexing, Sending
<1>12. IndexInv' /\ LocalRecordsExist'
  BY <1>2, <1>3 DEF IndexInv, LocalRecordsExist, At
<1> QED
  BY <1>7, <1>8, <1>9, <1>10, <1>11, <1>12 DEF RecordsInv

LEMMA ReadKeeps ==
    ASSUME Steady, RecordsInv, ReadFile
    PROVE  RecordsInv'
<1>t. cmd \in Commands /\ CmdInv /\ DataInv /\ StageInv
  BY AlwaysFields
<1>0. At("file") /\ cmd.rest # <<>> /\ Head(cmd.rest) \in Files
  BY <1>t, HeadAndTail DEF ReadFile, Commands
<1> PICK f \in Files : f = Head(cmd.rest)
  BY <1>0
<1> DEFINE next == IF repo[f] = 0 \/ f \in Seen THEN <<>> ELSE MemoriesOf(f)
<1>1. /\ At("file") /\ cmd.pending = <<>> /\ cmd.rest # <<>>
      /\ cmd' = [cmd EXCEPT !.rest = Tail(@), !.pending = next]
      /\ UNCHANGED <<repo, local, server, edited, doubted>>
  BY DEF ReadFile
<1>2. f \in Files /\ Tail(cmd.rest) \in Seq(Files) /\ Range(cmd.rest) = {f} \cup Range(Tail(cmd.rest))
  BY <1>t, <1>1, HeadAndTail DEF Commands
<1>3. next \in Seq(Memories)
  BY <1>t, <1>2, FileOnDisk, EmptySeq
<1>4. cmd.op = "build"
  BY <1>t, <1>1 DEF CmdInv, Sending, At
<1>5. \/ next = <<>> /\ (repo[f] = 0 \/ f \in Seen)
      \/ /\ repo[f] \in 1..MaxChunks[f] /\ f \notin Seen
         /\ next = MemoryRun(f, 0, repo[f]) /\ next # <<>> /\ Head(next) = <<f, 0>>
         /\ Range(next) = {<<f, j>> : j \in 0..repo[f]}
  <2>1. CASE repo[f] = 0 \/ f \in Seen
    BY <2>1
  <2>2. CASE ~(repo[f] = 0 \/ f \in Seen)
    <3>1. repo[f] \in 1..MaxChunks[f] /\ repo[f] \in Nat /\ 0 \in 0..repo[f] /\ repo[f] <= MaxChunks[f]
      BY <1>t, <1>2, <2>2, FileOnDisk, FilesAssumption
    <3>2. next = MemoriesOf(f) /\ MemoriesOf(f) = MemoryRun(f, 0, repo[f])
      BY <1>t, <1>2, <2>2, FileOnDisk
    <3> DEFINE n == repo[f]
    <3>3. n \in Nat /\ 0 \in 0..n /\ n <= MaxChunks[f] /\ next = MemoryRun(f, 0, n)
      BY <3>1, <3>2
    <3> HIDE DEF next, n
    <3>4. /\ MemoryRun(f, 0, n) # <<>> /\ Head(MemoryRun(f, 0, n)) = <<f, 0>>
          /\ Range(MemoryRun(f, 0, n)) = {<<f, j>> : j \in 0..n}
      BY <3>3, MemoryRunProperties
    <3>5. next # <<>> /\ Head(next) = <<f, 0>> /\ Range(next) = {<<f, j>> : j \in 0..n}
      BY <3>3, <3>4, Zenon
    <3>6. Range(next) = {<<f, j>> : j \in 0..repo[f]} /\ next = MemoryRun(f, 0, repo[f])
      BY <3>3, <3>5, Zenon DEF n
    <3> QED
      BY <2>2, <3>1, <3>5, <3>6, Zenon
  <2> QED
    BY <2>1, <2>2
<1> HIDE DEF next
<1>6. /\ cmd'.at = "file" /\ cmd'.op = "build" /\ cmd'.pending = next /\ cmd'.rest = Tail(cmd.rest)
      /\ cmd'.records = cmd.records /\ cmd'.count = cmd.count /\ cmd'.lost = cmd.lost
  BY <1>t, <1>1, <1>2, <1>3, <1>4 DEF Commands, At
<1>7. Seen' = Seen /\ Opened = {} /\ Opened' = {}
  <2>1. Opened'= IF next # <<>> /\ Head(next)[2] > 0 THEN {Head(next)[1]} ELSE {}
    BY <1>6 DEF Opened
  <2>2. next # <<>> => Head(next)[2] = 0
    BY <1>5
  <2> QED
    BY <1>1, <1>6, <2>1, <2>2 DEF Seen, Opened
<1>8. /\ ToScan' = ToScan /\ Found' = Found /\ FoundMemories' = FoundMemories
      /\ AllChunks' = AllChunks /\ \A g : ChunksOf(g)' = ChunksOf(g)
      /\ UNCHANGED <<repo, include, index, chunks, session, saved, edited, doubted>>
  BY <1>1, SameScan DEF SameFiles, local, server
<1>9. PendingInv'
  <2>1. Range(cmd'.rest) \subseteq Range(ToScan)
    BY <1>1, <1>2, <1>4, <1>6 DEF RecordsInv, PendingInv, Sending, At
  <2>3. ASSUME next # <<>>
        PROVE  \E g \in Files : \E n \in 1..MaxChunks[g] : \E i \in 0..n : PendingAt(g, i, n)'
    <3>1. PICK n \in 1..MaxChunks[f] : n = repo[f]
      BY <1>5, <2>3
    <3>2. \A r \in cmd.records : r[1] # f
      BY <1>5, <2>3 DEF Seen
    <3>3. f \in Range(ToScan)
      BY <1>1, <1>2, <1>4 DEF RecordsInv, PendingInv, Sending, At
    <3>4. PendingAt(f, 0, n)'
      BY <1>5, <1>6, <1>8, <2>3, <3>1, <3>2, <3>3 DEF PendingAt
    <3>5. 0 \in 0..n
      BY <3>1
    <3> QED
      BY <3>4, <3>5
  <2> QED
    BY <1>6, <1>8, <2>1, <2>3 DEF PendingInv, At, Sending
<1>10. CountInv' /\ SentInv'
  BY <1>1, <1>4, <1>6, <1>7, <1>8 DEF RecordsInv, CountInv, SentInv, At, Indexing, Working,
                                      Sending
<1>11. FreshInv' /\ LocalRecordsExist'
  BY <1>8 DEF RecordsInv, FreshInv, LocalRecordsExist
<1>12. IndexInv'
  BY <1>6, <1>8 DEF RecordsInv, IndexInv, At
<1>13. ScanInv'
  <2>1. ASSUME edited = 0, ~doubted, NEW g \in Found
        PROVE  StillToRead(g)' \/ ChunksOf(g) \subseteq cmd.records \cup Range(next)
    <3>1. StillToRead(g) \/ ChunksOf(g) \subseteq cmd.records \cup Range(cmd.pending)
      BY <1>1, <1>4, <2>1 DEF RecordsInv, ScanInv, Sending, At
    <3>2. CASE ChunksOf(g) \subseteq cmd.records \cup Range(cmd.pending)
      <4>1. Range(cmd.pending) = {}
        BY <1>1, EmptySeq DEF Range
      <4> QED
        BY <3>2, <4>1
    <3>3. CASE StillToRead(g) /\ g # f
      <4>1. g \in Range(Tail(cmd.rest)) /\ g \notin Seen
        BY <1>2, <3>3 DEF StillToRead
      <4>2. next = <<>> \/ Head(next)[1] # g
        BY <1>5, <3>3
      <4> QED
        BY <1>6, <1>7, <4>1, <4>2 DEF StillToRead
    <3>4. CASE StillToRead(g) /\ g = f
      <4>1. repo[f] # 0 /\ f \notin Seen
        BY <1>t, <1>2, <3>4, ScanTyped, FileOnDisk DEF StillToRead, DataInv
      <4>2. Range(next) = {<<f, j>> : j \in 0..repo[f]}
        BY <1>5, <4>1
      <4>3. 1..repo[f] \subseteq 0..repo[f]
        BY <1>t, <1>2, FileOnDisk
      <4> QED
        BY <3>4, <4>2, <4>3 DEF ChunksOf
    <3> QED
      BY <3>1, <3>2, <3>3, <3>4
  <2> QED
    BY <1>1, <1>4, <1>6, <1>8, <2>1 DEF RecordsInv, ScanInv, At, Indexing, Sending
<1> QED
  BY <1>9, <1>10, <1>11, <1>12, <1>13 DEF RecordsInv

(* The session that a memory is added to, whether the request succeeds.    *)
LEMMA AddedSession ==
    ASSUME Steady, RecordsInv, At("file"), session # None,
           NEW f \in Files, NEW n \in 1..MaxChunks[f], NEW i \in 0..n, PendingAt(f, i, n),
           session' = Append(session, <<f, i>>), saved' \in {saved, session', Husk},
           UNCHANGED <<repo, include, index, chunks, edited, doubted>>
    PROVE  /\ FreshInv' /\ LocalRecordsExist'
           /\ chunks # None /\ index # None /\ ~doubted /\ index # MemoryCount(chunks) =>
                 index < Len(session') /\ (saved' # Husk => index < Len(saved'))
<1>t. /\ cmd \in Commands /\ CmdInv /\ DataInv /\ StoreInv /\ StageInv
      /\ cmd.records \subseteq Ids
  BY AlwaysFields
<1>n. n \in Nat \ {0} /\ i \in Nat /\ i <= n /\ n <= MaxChunks[f] /\ MaxChunks[f] \in Nat
  BY FilesAssumption
<1>5. Opened = (IF i > 0 THEN {f} ELSE {})
  BY PendingFile
<1>6. (i > 0 => <<f, i>> \notin cmd.records) /\ (i = 0 => f \notin Seen)
  <2>1. \A r \in cmd.records : r \in Ids /\ r[1] \in Files /\ r[2] \in Nat \ {0}
    BY <1>t, IdShape
  <2> QED
    BY <1>n, <2>1 DEF PendingAt, Seen
<1>8. ToScan' = ToScan /\ Found' = Found /\ FoundMemories' = FoundMemories
  BY SameScan DEF SameFiles
<1>9. session \in Seq(Memories) /\ <<f, i>> \in Memories /\ Len(session) \in Nat
  BY <1>n, <1>t, IdShape, LenProperties DEF StoreInv
<1>10. /\ session' \in Seq(Memories) /\ Len(session') = Len(session) + 1
       /\ Range(session') = Range(session) \cup {<<f, i>>} /\ session' # None
  <2> DEFINE p == <<f, i>>
  <2>1. p \in Memories /\ session' = Append(session, p)
    BY <1>9
  <2> HIDE DEF p
  <2>0. \A s \in Seq(Memories) : /\ Append(s, p) \in Seq(Memories) /\ Len(Append(s, p)) = Len(s) + 1
                                 /\ Range(Append(s, p)) = Range(s) \cup {p}
    BY <2>1, RangeOfAppend
  <2>2. /\ session' \in Seq(Memories) /\ Len(session') = Len(session) + 1
        /\ Range(session') = Range(session) \cup {p}
    BY <1>9, <2>0, <2>1, Zenon
  <2>3. session' # None
    BY <2>2, NoneAssumption
  <2> QED
    BY <2>2, <2>3 DEF p
<1>18. FreshInv'
  <2>1. SUFFICES ASSUME chunks = None, edited = 0
        PROVE  IsInjective(session') /\ Range(session') \subseteq FoundMemories
    BY <1>8 DEF FreshInv
  <2>2. IsInjective(session) /\ Range(session) \subseteq FoundMemories
    BY <2>1 DEF RecordsInv, FreshInv
  <2>3. cmd.op = "build"
    BY <1>t, <2>1 DEF CmdInv, StageInv, At, Past, Indexed, Cached, Sending
  <2>4. Range(session) \subseteq cmd.records \cup Headers(Seen \cup Opened)
    BY <2>3 DEF RecordsInv, SentInv, Sending, At
  <2>5. <<f, i>> \notin Range(session)
    <3>1. CASE i = 0
      <4>1. <<f, i>> \notin cmd.records
        BY <1>t, <3>1, IdShape
      <4>2. f \notin Seen \cup Opened
        BY <1>5, <1>6, <3>1
      <4>3. <<f, i>> \notin Headers(Seen \cup Opened)
        BY <4>2 DEF Headers, Header
      <4> QED
        BY <2>4, <4>1, <4>3
    <3>2. CASE i > 0
      <4>1. <<f, i>> \notin Headers(Seen \cup Opened)
        BY <1>n, <3>2 DEF Headers, Header
      <4> QED
        BY <1>6, <2>4, <3>2, <4>1
    <3> QED
      BY <1>n, <3>1, <3>2
  <2>6. f \in Range(ToScan) /\ n = repo[f]
    BY <2>1, <2>3 DEF PendingAt
  <2>7. f \in Found
    BY <1>n, <1>t, <2>6, ScanTyped DEF DataInv
  <2>8. <<f, i>> \in FoundMemories
    <3>1. CASE i = 0
      BY <2>7, <3>1 DEF FoundMemories, Headers, Header
    <3>2. CASE i > 0
      <4>1. <<f, i>> \in ChunksOf(f)
        BY <1>n, <2>6, <3>2 DEF ChunksOf
      <4> QED
        BY <2>7, <4>1 DEF FoundMemories
    <3> QED
      BY <1>n, <3>1, <3>2
  <2>9. IsInjective(session')
    BY <1>9, <2>2, <2>5, InjectiveAppend
  <2> QED
    BY <1>10, <2>2, <2>8, <2>9
<1>20. ASSUME chunks # None, index # None, ~doubted, index # MemoryCount(chunks)
       PROVE  index < Len(session') /\ (saved' # Husk => index < Len(saved'))
  <2>1. index < Len(session) /\ (saved # Husk => index < Len(saved))
    BY <1>20 DEF RecordsInv, IndexInv
  <2>2. index \in Nat
    BY <1>t, <1>20 DEF DataInv
  <2>3. index < Len(session')
    BY <1>9, <1>10, <2>1, <2>2
  <2> QED
    BY <2>1, <2>3
<1>21. LocalRecordsExist'
  BY <1>10 DEF RecordsInv, LocalRecordsExist
<1> QED
  BY <1>18, <1>20, <1>21

LEMMA AddKeeps ==
    ASSUME Steady, RecordsInv, AddMemory, ~Failed
    PROVE  RecordsInv'
<1>t. /\ cmd \in Commands /\ CmdInv /\ DataInv /\ StoreInv /\ StageInv
      /\ cmd.records \subseteq Ids /\ cmd.count \in Nat
  BY AlwaysFields
<1>1. \E f \in Files : \E n \in 1..MaxChunks[f] : \E i \in 0..n :
              PendingAt(f, i, n) /\ Adds(f, i, n)
  BY MemoryAdded DEF RecordsInv
<1>2. PICK f \in Files : \E n \in 1..MaxChunks[f] : \E i \in 0..n :
              PendingAt(f, i, n) /\ Adds(f, i, n)
  BY <1>1
<1>3. PICK n \in 1..MaxChunks[f] : \E i \in 0..n : PendingAt(f, i, n) /\ Adds(f, i, n)
  BY <1>2
<1>4. PICK i \in 0..n : PendingAt(f, i, n) /\ Adds(f, i, n)
  BY <1>3
<1>n. n \in Nat \ {0} /\ i \in Nat /\ i <= n /\ n <= MaxChunks[f] /\ MaxChunks[f] \in Nat
  BY FilesAssumption
<1>5. /\ Opened = (IF i > 0 THEN {f} ELSE {})
      /\ cmd.pending # <<>> /\ Head(cmd.pending) = <<f, i>>
      /\ Range(cmd.pending) = {<<f, j>> : j \in i..n}
  BY <1>4, PendingFile
<1>6. /\ At("file") /\ session # None /\ cmd'.at = "file" /\ cmd'.op = cmd.op
      /\ cmd'.rest = cmd.rest /\ cmd'.file = cmd.file /\ cmd'.lost = cmd.lost
      /\ cmd'.count = cmd.count + 1
      /\ i = 0 => cmd'.records = cmd.records
      /\ i > 0 => cmd'.records = cmd.records \cup {<<f, i>>}
      /\ i = n => cmd'.pending = <<>>
      /\ i # n => cmd'.pending = MemoryRun(f, i + 1, n)
      /\ i = 0 => Seen' = Seen
      /\ i > 0 => Seen' = Seen \cup {f}
      /\ i > 0 => <<f, i>> \notin cmd.records
      /\ i = 0 => f \notin Seen
  BY <1>4, <1>n DEF Adds
<1>7. /\ session' = Append(session, <<f, i>>) /\ saved' \in {saved, session', Husk}
      /\ UNCHANGED <<repo, include, index, chunks, edited, doubted>>
  BY <1>4 DEF Adds, local
<1>8. /\ ToScan' = ToScan /\ Found' = Found /\ FoundMemories' = FoundMemories
      /\ AllChunks' = AllChunks /\ \A g : ChunksOf(g)' = ChunksOf(g)
  BY <1>7, SameScan DEF SameFiles
<1>9. session \in Seq(Memories) /\ <<f, i>> \in Memories /\ Len(session) \in Nat
  BY <1>n, <1>t, <1>6, IdShape, LenProperties DEF StoreInv
<1>10. /\ session' \in Seq(Memories) /\ Len(session') = Len(session) + 1
       /\ Range(session') = Range(session) \cup {<<f, i>>} /\ session' # None
  <2> DEFINE p == <<f, i>>
  <2>1. p \in Memories /\ session' = Append(session, p)
    BY <1>7, <1>9
  <2> HIDE DEF p
  <2>2. /\ session' \in Seq(Memories) /\ Len(session') = Len(session) + 1
        /\ Range(session') = Range(session) \cup {p}
    BY <1>9, <2>1, RangeOfAppend
  <2>3. session' # None
    BY <2>2, NoneAssumption
  <2> QED
    BY <2>2, <2>3 DEF p
<1>11. /\ i = n => Range(cmd'.pending) = {}
       /\ i # n => /\ cmd'.pending # <<>> /\ Head(cmd'.pending) = <<f, i + 1>>
                   /\ Range(cmd'.pending) = {<<f, j>> : j \in (i + 1)..n}
  <2>1. CASE i = n
    BY <1>6, <2>1, EmptySeq DEF Range
  <2>2. CASE i # n
    <3>1. i + 1 \in 0..n
      BY <1>n, <2>2
    <3>2. /\ MemoryRun(f, i + 1, n) # <<>> /\ Head(MemoryRun(f, i + 1, n)) = <<f, i + 1>>
          /\ Range(MemoryRun(f, i + 1, n)) = {<<f, j>> : j \in (i + 1)..n}
      BY <1>n, <3>1, MemoryRunProperties
    <3> QED
      BY <1>6, <2>2, <3>2
  <2> QED
    BY <2>1, <2>2
<1>12. /\ Opened' = IF i # n THEN {f} ELSE {}
       /\ i = 0 => i # n
  <2>1. CASE i = n
    BY <1>6, <1>n, <2>1 DEF Opened
  <2>2. CASE i # n
    <3>1. cmd'.pending # <<>> /\ Head(cmd'.pending)[2] = i + 1 /\ Head(cmd'.pending)[1] = f
      BY <1>11, <2>2
    <3>2. i + 1 > 0
      BY <1>n
    <3> QED
      BY <2>2, <3>1, <3>2 DEF Opened
  <2> QED
    BY <2>1, <2>2
<1>13. Seen \cup Opened \subseteq Seen' \cup Opened' /\ f \in Seen' \cup Opened'
  BY <1>5, <1>6, <1>12, <1>n
<1>14. Range(cmd.pending) \subseteq {<<f, i>>} \cup Range(cmd'.pending)
  BY <1>5, <1>11, <1>n
<1>15. PendingInv'
  <2>1. Range(cmd'.rest) \subseteq Range(ToScan)' \/ cmd.op # "build"
    BY <1>6, <1>8 DEF RecordsInv, PendingInv, Sending, At
  <2>2. ASSUME i # n
        PROVE  \E g \in Files : \E m \in 1..MaxChunks[g] : \E j \in 0..m : PendingAt(g, j, m)'
    <3>1. PICK j \in 0..n : j = i + 1
      BY <1>n, <2>2
    <3>2. \A r \in cmd'.records : r[1] = f => r[2] < j
      <4>1. \A r \in cmd.records : r[1] = f => r[2] < i /\ r[2] \in Nat
        BY <1>4, <1>t, IdShape DEF PendingAt
      <4>2. \A r \in cmd.records : r[1] = f => r[2] < j
        BY <1>n, <3>1, <4>1
      <4>3. i < j
        BY <1>n, <3>1
      <4>4. CASE i = 0
        BY <1>6, <4>2, <4>4
      <4>5. CASE i > 0
        BY <1>6, <4>2, <4>3, <4>5
      <4> QED
        BY <1>n, <4>4, <4>5
    <3>3. j > 1 => f \in Seen'
      BY <1>6, <1>n, <3>1
    <3>4. PendingAt(f, j, n)'
      BY <1>4, <1>6, <1>7, <1>8, <2>2, <3>1, <3>2, <3>3 DEF PendingAt
    <3> QED
      BY <3>4
  <2> QED
    BY <1>6, <2>1, <2>2 DEF PendingInv, At, Sending
<1>16. CountInv'
  <2> DEFINE files == Seen \cup Opened
  <2>1. /\ IsFiniteSet(cmd.records) /\ IsFiniteSet(Seen) /\ Cardinality(cmd.records) \in Nat
        /\ Cardinality(Seen) \in Nat
    BY <1>t, RecordsAreFinite DEF FilesOf, Seen
  <2>2. /\ IsFiniteSet(files) /\ Cardinality(files) \in Nat
        /\ i = 0 => files = Seen
    <3>1. IsFiniteSet(Opened)
      BY <1>5, FS_EmptySet, FS_Singleton
    <3>2. i = 0 => Opened = {}
      BY <1>5
    <3> QED
      BY <2>1, <3>1, <3>2, FS_Union, FS_CardinalityType
  <2>3. Cardinality(cmd'.records) + Cardinality(Seen' \cup Opened')
        = Cardinality(cmd.records) + Cardinality(files) + 1
    <3>1. CASE i = 0
      <4>1. Seen' \cup Opened' = Seen \cup {f} /\ f \notin Seen
        BY <1>6, <1>12, <3>1
      <4>2. Cardinality(Seen \cup {f}) = Cardinality(Seen) + 1
        BY <2>1, <4>1, FS_AddElement
      <4>3. Cardinality(cmd'.records) = Cardinality(cmd.records)
        BY <1>6, <3>1
      <4>4. Cardinality(files) = Cardinality(Seen)
        BY <2>2, <3>1
      <4>5. Cardinality(Seen' \cup Opened') = Cardinality(Seen) + 1
        BY <4>1, <4>2
      <4> HIDE DEF files
      <4> QED
        BY <2>1, <4>3, <4>4, <4>5
    <3>2. CASE i > 0
      <4>1. Seen' \cup Opened' = files
        BY <1>5, <1>6, <1>12, <3>2
      <4>2. Cardinality(cmd.records \cup {<<f, i>>}) = Cardinality(cmd.records) + 1
        BY <1>6, <2>1, <3>2, FS_AddElement
      <4>3. Cardinality(cmd'.records) = Cardinality(cmd.records) + 1
        BY <1>6, <3>2, <4>2
      <4>4. Cardinality(Seen' \cup Opened') = Cardinality(files)
        BY <4>1
      <4> HIDE DEF files
      <4> QED
        BY <2>1, <2>2, <4>3, <4>4
    <3> QED
      BY <1>n, <3>1, <3>2
  <2>4. cmd.op = "build" \/ ~doubted => cmd.count = Cardinality(cmd.records) + Cardinality(files)
    BY <1>6 DEF RecordsInv, CountInv, Sending, At
  <2>5. cmd'.op = "build" \/ ~doubted
        => cmd'.count = Cardinality(cmd'.records) + Cardinality(Seen' \cup Opened')
    <3> HIDE DEF files
    <3> QED
      BY <1>6, <2>1, <2>2, <2>3, <2>4
  <2>6. cmd.op = "add" => index <= cmd'.count /\ index < cmd'.count
    <3>1. SUFFICES ASSUME cmd.op = "add" PROVE index <= cmd.count + 1 /\ index < cmd.count + 1
      BY <1>6
    <3>2. index <= cmd.count
      BY <1>6, <3>1 DEF RecordsInv, CountInv, Sending, At
    <3>3. index \in Nat
      BY <1>t, <1>6, <3>1 DEF StageInv, DataInv, At, Past, Indexed, Cached, Sending
    <3> QED
      BY <1>t, <3>2, <3>3
  <2> QED
    BY <1>6, <1>7, <2>5, <2>6 DEF CountInv, At, Indexing, Sending
<1>17. SentInv'
  <2>1. cmd.records \subseteq cmd'.records /\ (i > 0 => <<f, i>> \in cmd'.records)
        /\ cmd'.records \subseteq cmd.records \cup {<<f, i>>}
    BY <1>6, <1>n
  <2>2. cmd.op = "build" => Range(session') \subseteq cmd'.records \cup Headers(Seen' \cup Opened')
    <3>1. SUFFICES ASSUME cmd.op = "build"
          PROVE  Range(session') \subseteq cmd'.records \cup Headers(Seen' \cup Opened')
      OBVIOUS
    <3>2. Range(session) \subseteq cmd.records \cup Headers(Seen \cup Opened)
      BY <1>6, <3>1 DEF RecordsInv, SentInv, Sending, At
    <3>3. Headers(Seen \cup Opened) \subseteq Headers(Seen' \cup Opened')
      BY <1>13 DEF Headers
    <3>4. <<f, i>> \in cmd'.records \cup Headers(Seen' \cup Opened')
      <4>1. i = 0 => <<f, i>> \in Headers(Seen' \cup Opened')
        BY <1>13 DEF Headers, Header
      <4> QED
        BY <1>n, <2>1, <4>1
    <3> QED
      BY <1>10, <2>1, <3>2, <3>3, <3>4
  <2>3. ~cmd.lost => cmd'.count = Len(session')
    <3>1. ~cmd.lost => cmd.count = Len(session)
      BY <1>6 DEF RecordsInv, SentInv, Working, At, Sending
    <3> QED
      BY <1>6, <1>10, <3>1
  <2>4. ~cmd.lost /\ ~doubted /\ (cmd.op = "resume" => edited = 0) => cmd'.records \subseteq Range(session')
    <3>1. ~cmd.lost /\ ~doubted /\ (cmd.op = "resume" => edited = 0) => cmd.records \subseteq Range(session)
      BY <1>6 DEF RecordsInv, SentInv, At, Sending
    <3> QED
      BY <1>10, <2>1, <3>1
  <2> QED
    BY <1>6, <1>7, <1>10, <2>2, <2>3, <2>4 DEF SentInv, At, Indexing, Working, Sending
<1>18. /\ FreshInv' /\ LocalRecordsExist'
       /\ chunks # None /\ index # None /\ ~doubted /\ index # MemoryCount(chunks) =>
             index < Len(session') /\ (saved' # Husk => index < Len(saved'))
  BY <1>4, <1>6, <1>7, AddedSession
<1>19. ScanInv'
  <2>1. SUFFICES ASSUME edited = 0, ~doubted PROVE ScanInv'
    BY <1>7 DEF ScanInv, Sending, At
  <2>2. n = repo[f]
    BY <1>4, <2>1 DEF PendingAt
  <2>3. i > 0 => <<f, i>> \in AllChunks
    <3>1. i > 0 => <<f, i>> \in ChunksOf(f)
      BY <1>n, <2>2 DEF ChunksOf
    <3> QED
      BY <3>1 DEF AllChunks
  <2>4. cmd'.records \subseteq AllChunks
    <3>1. cmd.records \subseteq AllChunks
      BY <1>6, <2>1 DEF RecordsInv, ScanInv, At, Sending
    <3> QED
      BY <1>6, <1>n, <2>3, <3>1
  <2>5. cmd.records \subseteq cmd'.records /\ (i > 0 => <<f, i>> \in cmd'.records)
    BY <1>6, <1>n
  <2>6. ASSUME NEW g, ChunksOf(g) \subseteq cmd.records \cup Range(cmd.pending)
        PROVE  ChunksOf(g) \subseteq cmd'.records \cup Range(cmd'.pending)
    <3>1. \A r \in ChunksOf(g) : r # <<f, 0>>
      BY DEF ChunksOf
    <3>2. CASE i = 0
      BY <1>14, <2>5, <2>6, <3>1, <3>2
    <3>3. CASE i > 0
      BY <1>14, <2>5, <2>6, <3>3
    <3> QED
      BY <1>n, <3>2, <3>3
  <2>7. ASSUME NEW g, StillToRead(g) PROVE StillToRead(g)'
    <3>1. g \in Range(cmd.rest) /\ g \notin Seen /\ g # f
      BY <1>5, <2>7 DEF StillToRead
    <3>2. g \notin Seen'
      BY <1>6, <1>n, <3>1
    <3>3. cmd'.pending = <<>> \/ Head(cmd'.pending)[1] # g
      BY <1>6, <1>11, <3>1
    <3> QED
      BY <1>6, <3>1, <3>2, <3>3 DEF StillToRead
  <2>8. /\ cmd.op = "build" =>
             \A g \in Found : StillToRead(g) \/ ChunksOf(g) \subseteq cmd.records \cup Range(cmd.pending)
        /\ cmd.op = "add" => /\ ChunksOf(cmd.file) \subseteq cmd.records \cup Range(cmd.pending)
                             /\ chunks \subseteq cmd.records
        /\ chunks # None => chunks \subseteq AllChunks /\ \A g \in Found : ChunksOf(g) \subseteq chunks
    BY <1>6, <2>1 DEF RecordsInv, ScanInv, At, Sending
  <2>9. cmd.op = "build" =>
             \A g \in Found : StillToRead(g)' \/ ChunksOf(g) \subseteq cmd'.records \cup Range(cmd'.pending)
    BY <2>6, <2>7, <2>8
  <2>10. cmd.op = "add" => /\ ChunksOf(cmd.file) \subseteq cmd'.records \cup Range(cmd'.pending)
                           /\ chunks \subseteq cmd'.records
    BY <2>5, <2>6, <2>8
  <2> QED
    BY <1>6, <1>7, <1>8, <2>4, <2>8, <2>9, <2>10 DEF ScanInv, At, Indexing, Sending
<1>20. IndexInv'
  BY <1>6, <1>7, <1>10, <1>18 DEF IndexInv, At
<1> QED
  BY <1>15, <1>16, <1>17, <1>18, <1>19, <1>20 DEF RecordsInv

LEMMA AddFailsKeeps ==
    ASSUME Steady, RecordsInv, AddMemory, Failed
    PROVE  RecordsInv'
<1>1. /\ At("file") /\ cmd.pending # <<>> /\ session # None
      /\ session' = Append(session, Head(cmd.pending)) /\ saved' \in {saved, session', Husk}
      /\ UNCHANGED <<repo, include, index, chunks, edited, doubted>>
  BY DEF AddMemory, Persist, PersistFails, local
<1>2. cmd'.at = "error"
  BY IdleFields DEF Failed, Command
<1>3. PICK f \in Files : \E n \in 1..MaxChunks[f] : \E i \in 0..n : PendingAt(f, i, n)
  BY <1>1 DEF RecordsInv, PendingInv, At, Sending
<1>4. PICK n \in 1..MaxChunks[f] : \E i \in 0..n : PendingAt(f, i, n)
  BY <1>3
<1>5. PICK i \in 0..n : PendingAt(f, i, n)
  BY <1>4
<1>6. session' = Append(session, <<f, i>>)
  BY <1>1, <1>5, PendingFile
<1>7. /\ FreshInv' /\ LocalRecordsExist'
      /\ chunks # None /\ index # None /\ ~doubted /\ index # MemoryCount(chunks) =>
            index < Len(session') /\ (saved' # Husk => index < Len(saved'))
  BY <1>1, <1>5, <1>6, AddedSession
<1>8. PendingInv' /\ CountInv' /\ SentInv'
  BY <1>2 DEF PendingInv, CountInv, SentInv, At, Working, Indexing, Sending
<1>9. ScanInv'
  <2>1. Found' = Found /\ AllChunks' = AllChunks /\ \A g : ChunksOf(g)' = ChunksOf(g)
    BY <1>1, SameScan DEF SameFiles
  <2> QED
    BY <1>1, <1>2, <2>1 DEF RecordsInv, ScanInv, At, Indexing, Sending
<1>10. IndexInv'
  BY <1>1, <1>2, <1>7 DEF IndexInv, At
<1> QED
  BY <1>7, <1>8, <1>9, <1>10 DEF RecordsInv

LEMMA AllAddedKeeps ==
    ASSUME Steady, RecordsInv, AllAdded, ~Failed
    PROVE  RecordsInv'
<1>t. cmd \in Commands /\ CmdInv /\ DataInv /\ StageInv /\ cmd.records \subseteq Ids
  BY AlwaysFields
<1>1. /\ At("file") /\ cmd.pending = <<>> /\ cmd.rest = <<>> /\ Goto("index")
      /\ UNCHANGED <<repo, include, index, chunks, session, saved, edited, doubted>>
  BY DEF AllAdded, local, server
<1>2. /\ cmd'.at = "index" /\ cmd'.op = cmd.op /\ cmd'.records = cmd.records /\ cmd'.count = cmd.count
      /\ cmd'.file = cmd.file /\ cmd'.lost = cmd.lost /\ cmd.op \in {"build", "add"}
  BY <1>1, <1>t, GotoShape DEF CmdInv, Steps, Working, Indexing, Sending, At
<1>3. /\ ToScan' = ToScan /\ Found' = Found /\ FoundMemories' = FoundMemories
      /\ AllChunks' = AllChunks /\ \A g : ChunksOf(g)' = ChunksOf(g)
  BY <1>1, SameScan DEF SameFiles
<1>4. Range(cmd.pending) = {} /\ Range(cmd.rest) = {} /\ Opened = {}
  BY <1>1, EmptySeq DEF Range, Opened
<1>5. PendingInv'
  BY <1>2 DEF PendingInv, At, Sending
<1>6. CountInv'
  <2>1. MemoryCount(cmd.records) = Cardinality(Seen) + Cardinality(cmd.records)
    BY <1>t, RecordsAreFinite DEF FilesOf, Seen
  <2>2. cmd.op = "build" \/ ~doubted => cmd.count = Cardinality(cmd.records) + Cardinality(Seen)
    BY <1>1, <1>4 DEF RecordsInv, CountInv, Sending, At
  <2>3. Cardinality(cmd.records) \in Nat /\ Cardinality(Seen) \in Nat
    BY <1>t, RecordsAreFinite DEF FilesOf, Seen
  <2>4. cmd.op # "add" \/ ~doubted => cmd.count = MemoryCount(cmd.records)
    BY <1>2, <2>1, <2>2, <2>3
  <2>5. cmd.op = "add" => index < cmd.count
    BY <1>1 DEF RecordsInv, CountInv, Sending, At
  <2>6. cmd'.op # "add" \/ ~doubted' => cmd'.count = MemoryCount(cmd'.records)
    BY <1>1, <1>2, <2>4
  <2> QED
    BY <1>1, <1>2, <2>5, <2>6 DEF CountInv, At, Sending
<1>7. SentInv'
  BY <1>1, <1>2 DEF RecordsInv, SentInv, At, Working, Indexing, Sending
<1>8. FreshInv' /\ LocalRecordsExist'
  BY <1>1, <1>3 DEF RecordsInv, FreshInv, LocalRecordsExist
<1>9. IndexInv'
  BY <1>1, <1>2 DEF RecordsInv, IndexInv, At
<1>10. ScanInv'
  <2>1. ASSUME edited = 0, ~doubted, cmd.op # "add", NEW f \in Found
        PROVE  ChunksOf(f) \subseteq cmd.records
    <3>1. StillToRead(f) \/ ChunksOf(f) \subseteq cmd.records \cup Range(cmd.pending)
      BY <1>1, <1>2, <2>1 DEF RecordsInv, ScanInv, Sending, At
    <3>2. ~StillToRead(f)
      BY <1>4 DEF StillToRead
    <3> QED
      BY <1>4, <3>1, <3>2
  <2>2. edited = 0 /\ ~doubted /\ cmd.op = "add" => ChunksOf(cmd.file) \subseteq cmd.records
    BY <1>1, <1>4 DEF RecordsInv, ScanInv, Sending, At
  <2> QED
    BY <1>1, <1>2, <1>3, <2>1, <2>2 DEF RecordsInv, ScanInv, At, Indexing, Sending
<1> QED
  BY <1>5, <1>6, <1>7, <1>8, <1>9, <1>10 DEF RecordsInv

LEMMA WriteChunksKeeps ==
    ASSUME Steady, RecordsInv, WriteChunks
    PROVE  RecordsInv'
<1>t. cmd \in Commands /\ CmdInv /\ DataInv /\ StageInv /\ cmd.records \subseteq Ids
  BY AlwaysFields
<1>1. /\ At("chunks") /\ chunks' = cmd.records /\ Goto("write_index")
      /\ doubted' = (doubted \/ cmd.lost \/ (cmd.op = "resume" /\ edited > 0))
      /\ UNCHANGED <<repo, include, index, session, saved, edited>>
  BY DEF WriteChunks, server
<1>2. /\ cmd'.at = "write_index" /\ cmd'.op = cmd.op /\ cmd'.records = cmd.records
      /\ cmd'.count = cmd.count /\ cmd'.file = cmd.file /\ cmd'.lost = cmd.lost /\ cmd.op \in Adding
  BY <1>1, <1>t, GotoShape DEF CmdInv, At, Steps, Working, Indexing, Sending
<1>3. ToScan' = ToScan /\ Found' = Found /\ AllChunks' = AllChunks /\ \A g : ChunksOf(g)' = ChunksOf(g)
  BY <1>1 DEF ToScan, Found, AllChunks, ChunksOf
<1>0. chunks' # None
  BY <1>1, <1>t, NoneAssumption
<1>4. chunks' # None /\ (saved # Husk => session # None /\ saved = session)
  <2>1. Past(Indexed)
    BY <1>1 DEF At, Past, Indexed
  <2> QED
    BY <1>0, <1>t, <2>1 DEF StageInv
<1>5. ~doubted' => ~doubted /\ ~cmd.lost /\ (cmd.op = "resume" => edited = 0)
  <2>1. edited = 0 \/ edited > 0
    BY <1>t DEF DataInv
  <2> QED
    BY <1>1, <2>1, Zenon
<1>6. PendingInv'
  BY <1>2 DEF PendingInv, At, Sending
<1>7. CountInv'
  BY <1>1, <1>2, <1>5 DEF RecordsInv, CountInv, At, Indexing, Sending
<1>8. SentInv'
  BY <1>1, <1>2 DEF RecordsInv, SentInv, At, Working, Indexing, Sending
<1>9. FreshInv'
  BY <1>4 DEF FreshInv
<1>10. LocalRecordsExist'
  <2>1. ~doubted' => cmd.records \subseteq Range(session)
    BY <1>1, <1>5 DEF RecordsInv, SentInv, At, Indexing, Sending
  <2> QED
    BY <1>1, <1>4, <2>1 DEF LocalRecordsExist
<1>11. ScanInv'
  <2>1. SUFFICES ASSUME edited = 0, ~doubted' PROVE ScanInv'
    BY <1>1 DEF ScanInv, Sending, At
  <2>2. /\ cmd.records \subseteq AllChunks
        /\ cmd.op # "add" => \A f \in Found : ChunksOf(f) \subseteq cmd.records
        /\ cmd.op = "add" => chunks \subseteq cmd.records /\ ChunksOf(cmd.file) \subseteq cmd.records
        /\ chunks # None => \A f \in Found : ChunksOf(f) \subseteq chunks
    BY <1>1, <1>5, <2>1 DEF RecordsInv, ScanInv, At, Indexing, Sending
  <2>3. cmd.op = "add" => chunks # None
    BY <1>1, <1>t DEF StageInv, At, Indexing, Past, Indexed, Cached, Sending
  <2>4. \A f \in Found : ChunksOf(f) \subseteq cmd.records
    BY <2>2, <2>3
  <2> QED
    BY <1>1, <1>2, <1>3, <2>2, <2>4 DEF ScanInv, At, Indexing, Sending
<1>12. IndexInv'
  <2>1. ASSUME index # None, session # None, ~doubted'
        PROVE  index = MemoryCount(cmd.records) \/ index < Len(session)
    <3>1. chunks # None
      BY <1>t, <2>1 DEF DataInv
    <3>2. CASE cmd.op = "build"
      BY <1>1, <1>t, <3>1, <3>2 DEF StageInv, At, Indexing, Past, Indexed, Cached, Sending
    <3>3. CASE cmd.op = "add"
      <4>1. index < cmd.count /\ cmd.count = Len(session)
        BY <1>1, <1>5, <2>1, <3>3 DEF RecordsInv, CountInv, SentInv, At, Indexing, Working,
                                      Sending
      <4> QED
        BY <4>1
    <3>4. CASE cmd.op = "resume"
      <4>1. cmd.records = chunks
        BY <1>1, <1>5, <2>1, <3>1, <3>4 DEF RecordsInv, ScanInv, At, Indexing, Sending
      <4>2. index = MemoryCount(chunks) \/ index < Len(session)
        BY <1>4, <1>5, <2>1, <3>1 DEF RecordsInv, IndexInv
      <4> QED
        BY <4>1, <4>2
    <3> QED
      BY <1>2, <3>2, <3>3, <3>4 DEF Adding
  <2> QED
    BY <1>1, <1>2, <1>4, <2>1 DEF IndexInv, At
<1> QED
  BY <1>6, <1>7, <1>8, <1>9, <1>10, <1>11, <1>12 DEF RecordsInv

LEMMA WriteIndexKeeps ==
    ASSUME Steady, RecordsInv, WriteIndex
    PROVE  RecordsInv'
<1>t. cmd \in Commands /\ CmdInv /\ DataInv /\ StageInv /\ cmd.records \subseteq Ids
  BY AlwaysFields
<1>1. /\ At("write_index") /\ index' = cmd.count
      /\ UNCHANGED <<repo, include, chunks, session, saved, edited, doubted>>
  BY DEF WriteIndex, server
<1>2. ToScan' = ToScan /\ Found' = Found /\ FoundMemories' = FoundMemories
      /\ AllChunks' = AllChunks /\ \A g : ChunksOf(g)' = ChunksOf(g)
  BY <1>1, SameScan DEF SameFiles
<1>3. chunks = cmd.records /\ chunks # None /\ cmd.op \in Adding
  BY <1>1, <1>t, NoneAssumption DEF StageInv, CmdInv, At, Past, Indexed, Cached, Sending
<1>4. /\ cmd'.op = cmd.op /\ cmd'.lost = cmd.lost
      /\ \/ cmd'.at = "done"
         \/ /\ cmd'.at = "config" /\ cmd.op = "add" /\ cmd'.records = cmd.records
            /\ cmd'.count = cmd.count /\ cmd'.file = cmd.file
  <2>1. CASE Done
    BY <1>t, <2>1, DoneShape
  <2>2. CASE cmd.op = "add" /\ Goto("config")
    BY <1>t, <2>2, GotoShape DEF Steps, Working, Sending
  <2> QED
    BY <2>1, <2>2 DEF WriteIndex
<1>5. /\ cmd.op # "add" \/ ~doubted => cmd.count = MemoryCount(cmd.records)
      /\ ~cmd.lost => session # None /\ cmd.count = Len(session)
  BY <1>1 DEF RecordsInv, CountInv, SentInv, At, Working, Sending
<1>6. PendingInv'
  BY <1>4 DEF PendingInv, At, Sending
<1>7. CountInv' /\ SentInv'
  BY <1>1, <1>3, <1>4, <1>5 DEF CountInv, SentInv, At, Indexing, Working, Sending
<1>8. FreshInv' /\ LocalRecordsExist'
  BY <1>1, <1>2 DEF RecordsInv, FreshInv, LocalRecordsExist
<1>9. ScanInv'
  BY <1>1, <1>2, <1>4 DEF RecordsInv, ScanInv, At, Indexing, Sending
<1>10. IndexInv'
  <2>1. ~doubted => cmd.count = MemoryCount(chunks)
    BY <1>3, <1>5
  <2> QED
    BY <1>1, <1>3, <1>4, <1>5, <2>1 DEF IndexInv, At
<1> QED
  BY <1>6, <1>7, <1>8, <1>9, <1>10 DEF RecordsInv

(* A session that was made of the files as they are holds the records of a *)
(* scan when it holds as many memories as the scan counts.                 *)
LEMMA ScanInSession ==
    ASSUME Steady, RecordsInv, session # None, edited = 0, ~doubted,
           Len(session) = MemoryCount(ScanRecords)
    PROVE  /\ ScanRecords \subseteq Range(session) /\ ScanRecords \subseteq AllChunks
           /\ \A f \in Found : ChunksOf(f) \subseteq ScanRecords
           /\ chunks # None => ScanRecords = chunks
<1>t. DataInv /\ StoreInv
  BY AlwaysFields
<1>1. Found \subseteq Files /\ \A f \in Found : repo[f] > 0
  BY <1>t, ScanTyped DEF DataInv
<1>2. \A f \in Found : ChunksOf(f) \subseteq ScanRecords
  BY DEF ScanRecords
<1>3. CASE chunks = None
  <2>1. ScanRecords = UNION {ChunksOf(f) : f \in Found}
    BY <1>3 DEF ScanRecords, Preserved
  <2>2. ScanRecords \subseteq AllChunks
    BY <1>1, <2>1 DEF AllChunks
  <2>3. FilesOf(ScanRecords) = Found
    <3>1. ASSUME NEW r \in ScanRecords PROVE r[1] \in Found
      <4>1. PICK f \in Found : r \in ChunksOf(f)
        BY <2>1
      <4> QED
        BY <4>1 DEF ChunksOf
    <3>2. ASSUME NEW f \in Found PROVE \E r \in ScanRecords : r[1] = f
      <4>1. repo[f] \in Nat /\ repo[f] > 0
        BY <1>t, <1>1, FileOnDisk
      <4>2. <<f, 1>> \in ChunksOf(f)
        BY <4>1 DEF ChunksOf
      <4> QED
        BY <1>2, <4>2
    <3> QED
      BY <3>1, <3>2 DEF FilesOf
  <2>4. FoundMemories = ScanRecords \cup Headers(FilesOf(ScanRecords))
    BY <2>1, <2>3 DEF FoundMemories
  <2>5. ScanRecords \in SUBSET Ids
    BY <1>t, ScannedRecords
  <2>6. IsFiniteSet(FoundMemories) /\ Cardinality(FoundMemories) = Len(session)
    BY <2>4, <2>5, CountWithHeaders
  <2>7. IsInjective(session) /\ Range(session) \subseteq FoundMemories
    BY <1>3 DEF RecordsInv, FreshInv
  <2>8. session \in Seq(FoundMemories)
    <3>1. session \in Seq(Memories)
      BY <1>t DEF StoreInv
    <3>2. Len(session) \in Nat /\ session \in [1..Len(session) -> Memories]
      BY <3>1, LenProperties
    <3>3. \A i \in 1..Len(session) : session[i] \in FoundMemories
      BY <2>7, <3>2 DEF Range
    <3> QED
      BY <3>2, <3>3, SeqDef
  <2>9. Range(session) = FoundMemories
    BY <2>6, <2>7, <2>8, HoldsAll
  <2> QED
    BY <1>2, <1>3, <2>2, <2>4, <2>9
<1>4. CASE chunks # None
  <2>1. chunks \subseteq AllChunks /\ \A f \in Found : ChunksOf(f) \subseteq chunks
    BY <1>4 DEF RecordsInv, ScanInv, Sending, At
  <2>2. chunks \subseteq Range(session)
    BY <1>4 DEF RecordsInv, LocalRecordsExist
  <2>3. ScanRecords \subseteq chunks
    BY <1>4, <2>1 DEF ScanRecords, Preserved
  <2>4. ASSUME NEW r \in chunks PROVE r \in ScanRecords
    <3>1. PICK f \in Files : r \in ChunksOf(f)
      BY <2>1 DEF AllChunks
    <3>2. r[1] = f
      BY <3>1 DEF ChunksOf
    <3>3. CASE f \in Found
      BY <1>2, <3>1, <3>3
    <3>4. CASE f \notin Found
      BY <1>4, <3>2, <3>4 DEF ScanRecords, Preserved
    <3> QED
      BY <3>3, <3>4
  <2> QED
    BY <1>2, <1>4, <2>1, <2>2, <2>3, <2>4
<1> QED
  BY <1>3, <1>4

LEMMA ResumeKeeps ==
    ASSUME Steady, RecordsInv, Resume
    PROVE  RecordsInv'
<1>t. DataInv
  BY AlwaysFields
<1> DEFINE n == MemoryCount(ScanRecords)
<1>1. /\ session # None /\ Len(session) = n
      /\ UNCHANGED <<repo, include, index, chunks, session, saved, edited, doubted>>
  BY DEF Resume, ResumeAt, local, server
<1>2. PICK at \in {"index", "save", "chunks"} :
        cmd' = [Idle("resume", at) EXCEPT !.records = ScanRecords, !.count = n,
                                          !.trusted = (at = "chunks")]
  BY DEF Resume, ResumeAt
<1> HIDE DEF n
<1>3. /\ cmd'.at \in Indexing /\ cmd'.op = "resume" /\ cmd'.records = ScanRecords
      /\ cmd'.count = n /\ cmd'.lost = FALSE
  <2> DEFINE i == Idle("resume", at)
  <2>1. i \in Commands /\ i.at = at /\ i.op = "resume" /\ i.lost = FALSE
    BY IdleTyped, IdleFields DEF Ops, Adding, Steps, Working, Indexing, Sending
  <2>2. cmd' = [i EXCEPT !.records = ScanRecords, !.count = n, !.trusted = (at = "chunks")]
    BY <1>2
  <2> HIDE DEF i
  <2> QED
    BY <2>1, <2>2 DEF Commands, Indexing
<1>4. ToScan' = ToScan /\ Found' = Found /\ FoundMemories' = FoundMemories
      /\ AllChunks' = AllChunks /\ \A g : ChunksOf(g)' = ChunksOf(g)
  BY <1>1, SameScan DEF SameFiles
<1>5. edited = 0 /\ ~doubted =>
      /\ ScanRecords \subseteq Range(session) /\ ScanRecords \subseteq AllChunks
      /\ \A f \in Found : ChunksOf(f) \subseteq ScanRecords
      /\ chunks # None => ScanRecords = chunks
  BY <1>1, ScanInSession DEF n
<1>6. PendingInv'
  BY <1>3 DEF PendingInv, At, Indexing, Sending
<1>7. CountInv'
  BY <1>3 DEF CountInv, At, n, Indexing, Sending
<1>8. SentInv'
  BY <1>1, <1>3, <1>5 DEF SentInv, At, Indexing, Sending
<1>9. FreshInv' /\ LocalRecordsExist'
  BY <1>1, <1>4 DEF RecordsInv, FreshInv, LocalRecordsExist
<1>10. ScanInv'
  BY <1>1, <1>3, <1>4, <1>5 DEF RecordsInv, ScanInv, At, Indexing, Sending
<1>11. IndexInv'
  BY <1>1, <1>3 DEF RecordsInv, IndexInv, At, Indexing
<1> QED
  BY <1>6, <1>7, <1>8, <1>9, <1>10, <1>11 DEF RecordsInv

LEMMA AddFileKeeps ==
    ASSUME Steady, RecordsInv, NEW f \in Files, AddFile(f)
    PROVE  RecordsInv'
<1>t. DataInv /\ StoreInv
  BY AlwaysFields
<1>1. /\ index # None /\ chunks # None /\ repo[f] > 0 /\ \A r \in chunks : r[1] # f
      /\ session # None /\ Len(session) = index
      /\ UNCHANGED <<repo, include, index, chunks, session, saved, edited, doubted>>
  BY DEF AddFile, StatusIndexed, local, server
<1>0. PICK at \in Sending :
        cmd' = [Idle("add", at) EXCEPT
                  !.file = f, !.pending = MemoriesOf(f), !.records = chunks, !.count = index]
  BY DEF AddFile, Sending
<1>2. index \in Nat /\ chunks \subseteq Ids
  BY <1>t, <1>1 DEF DataInv
<1>3. /\ repo[f] \in Nat /\ repo[f] <= MaxChunks[f] /\ MemoriesOf(f) = MemoryRun(f, 0, repo[f])
      /\ MaxChunks[f] \in Nat /\ 0 \in 0..repo[f]
      /\ MemoriesOf(f) \in Seq(Memories)
  BY <1>t, <1>1, FileOnDisk, FilesAssumption
<1>4. /\ cmd'.at \in Sending /\ cmd'.op = "add" /\ cmd'.records = chunks /\ cmd'.count = index
      /\ cmd'.file = f /\ cmd'.pending = MemoriesOf(f) /\ cmd'.lost = FALSE
  <2> DEFINE ms == MemoriesOf(f)
             i == Idle("add", at)
  <2>1. cmd' = [i EXCEPT !.file = f, !.pending = ms, !.records = chunks, !.count = index]
    BY <1>0
  <2>2. i \in Commands /\ i.op = "add" /\ i.at = at /\ i.lost = FALSE
    BY IdleTyped, IdleFields DEF Ops, Adding, Steps, Working, Sending
  <2> HIDE DEF ms, i
  <2>3. /\ cmd'.at \in Sending /\ cmd'.op = "add" /\ cmd'.records = chunks /\ cmd'.count = index
        /\ cmd'.file = f /\ cmd'.pending = ms /\ cmd'.lost = FALSE
    BY <2>1, <2>2 DEF Commands
  <2> QED
    BY <2>3 DEF ms
<1>5. /\ MemoriesOf(f) # <<>> /\ Head(MemoriesOf(f)) = <<f, 0>>
      /\ Range(MemoriesOf(f)) = {<<f, j>> : j \in 0..repo[f]}
  BY <1>3, MemoryRunProperties
<1>6. ToScan' = ToScan /\ Found' = Found /\ FoundMemories' = FoundMemories
      /\ AllChunks' = AllChunks /\ \A g : ChunksOf(g)' = ChunksOf(g)
  BY <1>1, SameScan DEF SameFiles
<1>8. ~doubted => index = MemoryCount(chunks) /\ chunks \subseteq Range(session)
  <2>1. ~doubted => index = MemoryCount(chunks) \/ index < Len(session)
    BY <1>1 DEF RecordsInv, IndexInv
  <2>2. ~(index < index)
    BY <1>2
  <2> QED
    BY <1>1, <2>1, <2>2 DEF RecordsInv, LocalRecordsExist
<1>9. PendingInv'
  <2>1. PICK n \in 1..MaxChunks[f] : n = repo[f]
    BY <1>1, <1>3
  <2>2. 0 \in 0..n
    BY <2>1
  <2>3. PendingAt(f, 0, n)'
    BY <1>1, <1>3, <1>4, <2>1 DEF PendingAt
  <2> QED
    BY <1>4, <2>2, <2>3 DEF PendingInv, At, Sending
<1>10. CountInv'
  <2>1. Opened' = {} /\ Seen' = FilesOf(chunks)
    <3>1. Head(cmd'.pending)[2] = 0
      BY <1>4, <1>5
    <3> QED
      BY <1>4, <3>1 DEF Opened, Seen, FilesOf
  <2>2. /\ MemoryCount(chunks) = Cardinality(FilesOf(chunks)) + Cardinality(chunks)
        /\ Cardinality(FilesOf(chunks)) \in Nat /\ Cardinality(chunks) \in Nat
    BY <1>2, RecordsAreFinite
  <2>3. ~doubted => cmd'.count = Cardinality(cmd'.records) + Cardinality(Seen' \cup Opened')
    <3>1. Seen' \cup Opened' = FilesOf(chunks)
      BY <2>1
    <3>2. cmd'.records = chunks /\ cmd'.count = index
      BY <1>4
    <3>3. ~doubted => index = Cardinality(FilesOf(chunks)) + Cardinality(chunks)
      BY <1>8, <2>2
    <3>4. Cardinality(FilesOf(chunks)) + Cardinality(chunks)
          = Cardinality(chunks) + Cardinality(FilesOf(chunks))
      BY <2>2
    <3> QED
      BY <3>1, <3>2, <3>3, <3>4
  <2>4. index <= index
    BY <1>2
  <2> QED
    BY <1>1, <1>4, <1>5, <2>3, <2>4 DEF CountInv, At, Indexing, Sending
<1>11. SentInv'
  BY <1>1, <1>4, <1>8 DEF SentInv, At, Working, Indexing, Sending
<1>12. FreshInv' /\ LocalRecordsExist'
  BY <1>1, <1>6 DEF RecordsInv, FreshInv, LocalRecordsExist
<1>13. ScanInv'
  <2>1. ChunksOf(f) \subseteq Range(MemoriesOf(f))
    <3>1. 1..repo[f] \subseteq 0..repo[f]
      BY <1>3
    <3> QED
      BY <1>5, <3>1 DEF ChunksOf
  <2> QED
    BY <1>1, <1>4, <1>6, <2>1 DEF RecordsInv, ScanInv, At, Indexing, Sending
<1>14. IndexInv'
  BY <1>1, <1>4 DEF RecordsInv, IndexInv, At
<1> QED
  BY <1>9, <1>10, <1>11, <1>12, <1>13, <1>14 DEF RecordsInv

LEMMA WriteConfigKeeps ==
    ASSUME Steady, RecordsInv, WriteConfig
    PROVE  RecordsInv'
<1>t. cmd \in Commands /\ CmdInv /\ DataInv /\ StageInv
  BY AlwaysFields
<1>1. /\ At("config") /\ Done
      /\ include' = IF cmd.file \in ToSet(include) THEN include ELSE Append(include, cmd.file)
      /\ UNCHANGED <<repo, index, chunks, session, saved, edited, doubted>>
  BY DEF WriteConfig, server
<1>2. cmd'.at = "done" /\ cmd'.op = "add" /\ cmd'.lost = cmd.lost /\ cmd.op = "add"
  BY <1>1, <1>t, DoneShape DEF CmdInv, At, Sending
<1>3. /\ chunks = cmd.records /\ chunks # None /\ index = cmd.count /\ cmd.file \in Files
  BY <1>1, <1>2, <1>t, NoneAssumption DEF StageInv, CmdInv, At, Free, Commands, Past, Indexed,
        Cached, Sending
<1>4. AllChunks' = AllChunks /\ \A g : ChunksOf(g)' = ChunksOf(g)
  BY <1>1 DEF AllChunks, ChunksOf
<1>5. \A g \in Found' : g \in Found \/ g = cmd.file
  <2>1. Range(include') \subseteq Range(include) \cup {cmd.file} /\ include' \in Seq(Files)
    <3>1. include \in Seq(Files)
      BY <1>t DEF DataInv
    <3>2. /\ Append(include, cmd.file) \in Seq(Files)
          /\ Range(Append(include, cmd.file)) = Range(include) \cup {cmd.file}
      BY <1>3, <3>1, RangeOfAppend
    <3>3. CASE cmd.file \in ToSet(include)
      BY <1>1, <3>1, <3>3
    <3>4. CASE cmd.file \notin ToSet(include)
      BY <1>1, <3>2, <3>4
    <3> QED
      BY <3>3, <3>4
  <2>2. \A g : g \in Found' <=> g \in Range(Scanned) \cup Range(include') /\ repo[g] > 0
    <3>1. ToScan' = Scanned \o include' /\ Found' = {g \in ToSet(ToScan') : repo[g] > 0}
      BY <1>1 DEF ToScan, Found
    <3>2. Range(Scanned \o include') = Range(Scanned) \cup Range(include')
      BY <2>1, FilesAssumption, RangeConcatenation
    <3> QED
      BY <3>1, <3>2, ToSetIsRange
  <2>3. \A g : g \in Found <=> g \in Range(Scanned) \cup Range(include) /\ repo[g] > 0
    BY <1>t, ScanTyped DEF DataInv
  <2> QED
    BY <2>1, <2>2, <2>3
<1>6. PendingInv' /\ CountInv' /\ SentInv'
  BY <1>2 DEF PendingInv, CountInv, SentInv, At, Working, Indexing, Sending
<1>7. FreshInv' /\ LocalRecordsExist'
  BY <1>1, <1>3 DEF RecordsInv, FreshInv, LocalRecordsExist
<1>8. ScanInv'
  <2>1. edited = 0 /\ ~doubted =>
           /\ chunks \subseteq AllChunks /\ \A g \in Found : ChunksOf(g) \subseteq chunks
           /\ ChunksOf(cmd.file) \subseteq chunks
    BY <1>1, <1>2, <1>3 DEF RecordsInv, ScanInv, At, Sending
  <2> QED
    BY <1>1, <1>2, <1>4, <1>5, <2>1 DEF ScanInv, At, Indexing, Sending
<1>9. IndexInv'
  <2>1. /\ ~doubted => index = MemoryCount(chunks)
        /\ ~cmd.lost => index = Len(session)
    BY <1>1, <1>2, <1>3 DEF RecordsInv, CountInv, SentInv, At, Working, Sending
  <2> QED
    BY <1>1, <1>2, <1>3, <2>1 DEF IndexInv, At
<1> QED
  BY <1>6, <1>7, <1>8, <1>9 DEF RecordsInv

LEMMA RestartKeeps ==
    ASSUME Steady, RecordsInv, ServerRestart
    PROVE  RecordsInv'
<1>t. cmd \in Commands /\ CmdInv /\ DataInv /\ StoreInv /\ StageInv /\ cmd.lost \in BOOLEAN
  BY AlwaysFields
<1>1. /\ session' = IF saved = Husk THEN None ELSE saved
      /\ cmd' = [cmd EXCEPT !.lost = @ \/ (~Free /\ session # session')]
      /\ UNCHANGED <<repo, include, index, chunks, saved, cached, edited, doubted>>
  BY DEF ServerRestart, local
<1>2. /\ cmd'.at = cmd.at /\ cmd'.op = cmd.op /\ cmd'.records = cmd.records /\ cmd'.count = cmd.count
      /\ cmd'.pending = cmd.pending /\ cmd'.rest = cmd.rest /\ cmd'.file = cmd.file
      /\ cmd'.lost = (cmd.lost \/ (~Free /\ session # session')) /\ cmd'.trusted = cmd.trusted
  BY <1>t, <1>1 DEF Commands
<1>3. CASE session' = session
  <2>1. cmd'.lost = cmd.lost
    BY <1>t, <1>2, <1>3
  <2>2. cmd' \in Commands
    <3> DEFINE l == cmd.lost \/ (~Free /\ session # session')
    <3>1. l \in BOOLEAN /\ cmd' = [cmd EXCEPT !.lost = l]
      BY <1>t, <1>1
    <3> HIDE DEF l
    <3> QED
      BY <1>t, <3>1 DEF Commands
  <2>3. cmd' = cmd
    BY <1>t, <1>2, <2>1, <2>2 DEF Commands
  <2>4. Moves
    BY <1>1, <1>3, <2>3 DEF Moves, local
  <2> QED
    BY <2>4, MovesKeeps
<1>4. CASE session' # session
  <2>1. session # None
    BY <1>t, <1>1, <1>4 DEF StoreInv
  <2>2. ASSUME session' # None
        PROVE  /\ session' = saved /\ saved # Husk
               /\ Range(session') \subseteq Range(session)
               /\ IsInjective(session) => IsInjective(session')
    <3>1. session' = saved /\ saved # Husk
      BY <1>1, <2>2
    <3>2. saved \in Seq(Memories) /\ session \in Seq(Memories) /\ StartOf(saved, session)
      BY <1>t, <2>1, <3>1 DEF StoreInv
    <3> QED
      BY <3>1, <3>2, StartOfProperties
  <2>3. ToScan' = ToScan /\ Found' = Found /\ FoundMemories' = FoundMemories
        /\ AllChunks' = AllChunks /\ \A g : ChunksOf(g)' = ChunksOf(g)
    BY <1>1, SameScan DEF SameFiles
  <2>4. cmd.at \in Working => cmd'.lost
    BY <1>2, <1>4 DEF Working, Indexing, Free, Sending
  <2>5. Seen' = Seen /\ Opened' = Opened
    BY <1>2 DEF Seen, Opened
  <2>6. PendingInv'
    BY <1>1, <1>2, <2>3, <2>5 DEF RecordsInv, PendingInv, PendingAt, At, Sending
  <2>7. CountInv'
    BY <1>1, <1>2, <2>5 DEF RecordsInv, CountInv, At, Sending
  <2>8. SentInv'
    <3>1. cmd'.op = "build" /\ cmd'.at \in Sending /\ session' # None
          => Range(session') \subseteq cmd'.records \cup Headers(Seen' \cup Opened')
      BY <1>2, <2>1, <2>2, <2>5 DEF RecordsInv, SentInv, At, Sending
    <3>2. cmd'.at \in Working => cmd'.lost
      BY <1>2, <2>4
    <3>3. Indexing \cup Sending \subseteq Working
      BY DEF Working
    <3> QED
      BY <3>1, <3>2, <3>3 DEF SentInv
  <2>9. FreshInv'
    <3>1. ASSUME chunks = None, session' # None, edited = 0
          PROVE  IsInjective(session') /\ Range(session') \subseteq FoundMemories
      BY <2>1, <2>2, <3>1 DEF RecordsInv, FreshInv
    <3> QED
      BY <1>1, <2>3, <3>1 DEF FreshInv
  <2>10. ScanInv'
    BY <1>1, <1>2, <2>3, <2>5 DEF RecordsInv, ScanInv, At, StillToRead, Sending
  <2>11. At("done") /\ cmd.op \in Adding => session' = None
    <3>1. At("done") /\ cmd.op \in Adding /\ saved # Husk => saved = session
      BY <1>t DEF StageInv, Past, Indexed, Cached, Sending, At
    <3> QED
      BY <1>1, <1>4, <3>1
  <2>12. IndexInv'
    <3>1. chunks # None /\ index # None /\ session' # None /\ ~doubted =>
            index = MemoryCount(chunks) \/ index < Len(saved)
      BY <2>1, <2>2 DEF RecordsInv, IndexInv
    <3>2. At("done")' /\ cmd'.op \in Adding =>
            /\ chunks # None /\ session' = None
            /\ ~cmd'.lost /\ ~doubted => index = MemoryCount(chunks)
      BY <1>2, <2>11 DEF RecordsInv, IndexInv, At
    <3> QED
      BY <1>1, <2>2, <3>1, <3>2 DEF IndexInv, At
  <2>13. LocalRecordsExist'
    <3>1. chunks # None /\ session' # None /\ ~doubted => chunks \subseteq Range(saved)
      BY <2>1, <2>2 DEF RecordsInv, LocalRecordsExist
    <3> QED
      BY <1>1, <2>2, <3>1 DEF LocalRecordsExist
  <2> QED
    BY <2>6, <2>7, <2>8, <2>9, <2>10, <2>12, <2>13 DEF RecordsInv
<1> QED
  BY <1>3, <1>4

LEMMA EditKeeps == Steady /\ RecordsInv /\ Edit => RecordsInv'
<1> SUFFICES ASSUME Steady, RecordsInv, Edit PROVE RecordsInv'
  OBVIOUS
<1>1. edited' # 0 /\ UNCHANGED <<include, index, chunks, session, saved, cmd, doubted>>
  BY AlwaysFields DEF Edit, DataInv, local, server
<1>2. Seen' = Seen /\ Opened' = Opened /\ ToScan' = ToScan
  BY <1>1 DEF Seen, Opened, ToScan
<1>3. PendingInv'
  BY <1>1, <1>2 DEF RecordsInv, PendingInv, PendingAt, At, Sending
<1>4. CountInv' /\ SentInv'
  BY <1>1, <1>2 DEF RecordsInv, CountInv, SentInv, At, Sending
<1>5. FreshInv' /\ ScanInv'
  BY <1>1 DEF FreshInv, ScanInv, Sending, At
<1>6. IndexInv' /\ LocalRecordsExist'
  BY <1>1 DEF RecordsInv, IndexInv, LocalRecordsExist, At
<1> QED
  BY <1>3, <1>4, <1>5, <1>6 DEF RecordsInv

-----------------------------------------------------------------------------
LEMMA InitRecords == Init => RecordsInv
<1> SUFFICES ASSUME Init PROVE RecordsInv
  OBVIOUS
<1>1. /\ chunks = None /\ session = None /\ cmd = Idle("none", "done")
      /\ cmd.at = "done" /\ cmd.op = "none"
  BY IdleFields DEF Init
<1>2. PendingInv /\ CountInv /\ SentInv
  BY <1>1 DEF PendingInv, CountInv, SentInv, At, Working, Indexing, Sending
<1>3. FreshInv /\ ScanInv /\ IndexInv /\ LocalRecordsExist
  BY <1>1 DEF FreshInv, ScanInv, IndexInv, LocalRecordsExist, At, Indexing, Adding, Sending
<1> QED
  BY <1>2, <1>3 DEF RecordsInv

LEMMA RecordsInductive == Steady /\ RecordsInv /\ [Next]_vars => RecordsInv'
<1> SUFFICES ASSUME Steady, RecordsInv, [Next]_vars PROVE RecordsInv'
  OBVIOUS
<1>1. (NextSegment \/ SaveSession \/ AllAdded) /\ Failed => RecordsInv'
  BY EndSteps, EndsKeeps
<1>2. CreateSession \/ AllAdded \/ AddMemory => RecordsInv'
  BY <1>1, CreateKeeps, CreateFailsKeeps, AllAddedKeeps, AddKeeps, AddFailsKeeps
<1>3. StartIndex \/ DeleteSession \/ UnlinkIndex \/ UnlinkChunks \/ Interrupted
      \/ IndexCutOff \/ FactsNotSaved => RecordsInv'
  BY EndSteps, EndsKeeps
<1>4. (\E op \in {"reset", "reindex"} : StartReset(op)) => RecordsInv'
  BY EndSteps, EndsKeeps
<1>5. NextSegment \/ SaveSession \/ IndexSession \/ ReadStatus \/ CheckStatus \/ LoadPlan
      \/ OtherSessionEvicts \/ UNCHANGED vars => RecordsInv'
  BY <1>1, MoveSteps, MovesKeeps
<1>6. ReadFile \/ WriteChunks \/ WriteIndex \/ Resume \/ WriteConfig => RecordsInv'
  BY ReadKeeps, WriteChunksKeeps, WriteIndexKeeps, ResumeKeeps, WriteConfigKeeps
<1>7. (\E f \in Files : AddFile(f)) => RecordsInv'
  BY AddFileKeeps
<1>8. ServerRestart \/ Edit => RecordsInv'
  BY RestartKeeps, EditKeeps
<1>9. CASE Next
  BY <1>2, <1>3, <1>4, <1>5, <1>6, <1>7, <1>8, <1>9, Zenon DEF Next
<1> QED
  BY <1>5, <1>9

LEMMA AlwaysRecords == Spec => [](Steady /\ RecordsInv)
<1>1. Init => Steady /\ RecordsInv
  BY InitTyped, InitStage, InitRecords DEF Steady
<1>2. (Steady /\ RecordsInv) /\ [Next]_vars => (Steady /\ RecordsInv)'
  BY SteadyInductive, RecordsInductive
<1> QED
  BY <1>1, <1>2, PTL DEF Spec

(* A chunk that has a record is in the session and on disk, whichever      *)
(* command was cut off and wherever, and whichever restarts came between;  *)
(* but for a resume after an edit and for a server that lost memories      *)
(* while a command ran, which doubted excludes, and, on disk, for a        *)
(* directory that a delete or a save that failed has left as a Husk.       *)
THEOREM LocalRecordsAlwaysExist == Spec => []LocalRecordsExist
<1>1. RecordsInv => LocalRecordsExist
  BY DEF RecordsInv
<1> QED
  BY <1>1, AlwaysRecords, PTL

(* An index or add that succeeded left a session that loads, the same in   *)
(* memory and on disk, with the KV cache of all its memories, and an       *)
(* index.json with their number, which is, doubts apart, the number that   *)
(* its own records make.  So did a resume over a session that loads, but   *)
(* for the KV cache when the server's status said that it is complete.     *)
THEOREM IndexAlwaysComplete == Spec => []IndexIsComplete
<1>1. ASSUME Steady, RecordsInv PROVE IndexIsComplete
  <2>1. SUFFICES ASSUME Succeeded
                 PROVE  /\ cmd.op # "resume" => saved # Husk
                        /\ saved # Husk =>
                              /\ session # None /\ saved = session
                              /\ index = Len(session) /\ chunks # None
                              /\ ~cmd.trusted => cached = session /\ KV
                              /\ ~doubted => index = MemoryCount(chunks)
    BY DEF IndexIsComplete
  <2>2. At("done") /\ cmd.op \in Adding /\ ~cmd.lost
    BY <2>1 DEF Succeeded, Adding
  <2>3. /\ saved # Husk => session # None /\ saved = session
        /\ cmd.op # "resume" => saved # Husk
        /\ session # None /\ ~cmd.trusted => cached = session /\ (planned => kv)
    BY <1>1, <2>2 DEF Steady, StageInv, Past
  <2>4. /\ chunks # None /\ (session # None => index = Len(session))
        /\ ~doubted => index = MemoryCount(chunks)
    BY <1>1, <2>2 DEF RecordsInv, IndexInv
  <2>5. session # None /\ ~cmd.trusted => KV
    BY <2>3 DEF KV, Listed
  <2> QED
    BY <2>3, <2>4, <2>5
<1> QED
  BY <1>1, AlwaysRecords, PTL

=============================================================================
