------------------------------ MODULE GeminiProofs ------------------------------
(***************************************************************************)
(* Proofs about Gemini, for any chunks, parameters, operators, evictions   *)
(* and number of ranks: operators compute on weights, the optimizer steps  *)
(* with every gradient once, memory is accounted for, nothing raises.      *)
(*                                                                         *)
(* First what each method of the manager does to chunks that are in order; *)
(* then the parts of the invariant that do not look into chunks; then, one *)
(* lemma for an action, what the chunks hold.                              *)
(***************************************************************************)
EXTENDS Gemini, FiniteSetTheorems, TLAPS

\* The types of chunks, of what they hold, and of the manager.
States   == {"hold", "compute", "hold_after_bwd", "ready"}
Values   == [version : Int, times : [1 .. MaxIterations -> Nat]]
Contents(k) == [InChunk(k) -> Values]
ChunkType(k) ==
  [is_gathered : BOOLEAN, global : Contents(k) \cup {None}, cuda : Contents(k) \cup {None},
   cpu : Contents(k) \cup {None}, optim_sync : BOOLEAN, cpu_vis : BOOLEAN,
   state : [InChunk(k) -> States], ok : BOOLEAN]
ChunkRecords == UNION {ChunkType(k) : k \in Keys}
Managers ==
  [chunk : [Keys -> ChunkRecords], accessed : SUBSET Keys, accessed_mem : Int,
   total : [cuda : Int, cpu : Int], works : SUBSET Keys, ok : BOOLEAN]

-----------------------------------------------------------------------------
(* Keys and contents.                                                      *)

\* Each chunk has two keys, of its weights and of its gradient buffer.
LEMMA ParamFacts ==
  ASSUME NEW c \in Chunks
  PROVE  /\ Param(c) \in Keys /\ Param(c) \in ParamKeys /\ Param(c)[1] = c
         /\ GradOf(Param(c)) \in Keys /\ GradOf(Param(c)) \notin ParamKeys
         /\ GradOf(Param(c))[1] = c
<1>1. Param(c) \in Keys /\ Param(c) \in ParamKeys /\ Param(c)[1] = c
  BY DEF Param, Keys, ParamKeys
<1>2. GradOf(Param(c)) \in Keys /\ GradOf(Param(c))[1] = c
  BY DEF Param, Keys, GradOf
<1>3. ASSUME NEW d \in Chunks, GradOf(Param(c)) = Param(d) PROVE FALSE
  <2>1. <<Param(c)[1], "grad">>[2] = <<d, "param">>[2]
    BY <1>3 DEF GradOf, Param
  <2> QED BY <2>1
<1>4. GradOf(Param(c)) \notin ParamKeys
  BY <1>3 DEF ParamKeys
<1> QED BY <1>1, <1>2, <1>4

\* There are no other keys.
LEMMA KeyFacts ==
  ASSUME NEW k \in Keys
  PROVE  /\ k[1] \in Chunks
         /\ k \in ParamKeys => k = Param(k[1])
         /\ k \notin ParamKeys => k = GradOf(Param(k[1]))
<1>1. PICK c \in Chunks, t \in {"param", "grad"} : k = <<c, t>>
  BY DEF Keys
<1>2. CASE t = "param"
  <2>1. k = Param(c) /\ k \in ParamKeys /\ k[1] = c
    BY <1>1, <1>2 DEF Param, ParamKeys
  <2> QED BY <2>1
<1>3. CASE t = "grad"
  <2>1. k = GradOf(Param(c)) /\ k[1] = c
    BY <1>1, <1>3 DEF Param, GradOf
  <2> QED BY <2>1, ParamFacts
<1> QED BY <1>1, <1>2, <1>3

\* The keys of weights are keys.
LEMMA ParamKeysAreKeys == ParamKeys \subseteq Keys
BY ParamFacts DEF ParamKeys

\* A parameter is in the chunk it is assigned to, and in no other.
LEMMA MemberFacts ==
  ASSUME NEW p \in Params
  PROVE  /\ ChunkOf[p] \in Chunks /\ p \in InChunk(Param(ChunkOf[p]))
         /\ p \in InChunk(GradOf(Param(ChunkOf[p])))
         /\ \A k \in ParamKeys : p \in InChunk(k) => k = Param(ChunkOf[p])
         /\ \A k \in Keys \ ParamKeys : p \in InChunk(k) => k = GradOf(Param(ChunkOf[p]))
<1>1. ChunkOf[p] \in Chunks
  BY GeminiAssumption
<1>2. \A k \in Keys : p \in InChunk(k) <=> k[1] = ChunkOf[p]
  BY DEF InChunk
<1>3. Param(ChunkOf[p])[1] = ChunkOf[p] /\ GradOf(Param(ChunkOf[p]))[1] = ChunkOf[p]
  BY <1>1, ParamFacts
<1>4. Param(ChunkOf[p]) \in Keys /\ GradOf(Param(ChunkOf[p])) \in Keys
  BY <1>1, ParamFacts
<1> QED BY <1>1, <1>2, <1>3, <1>4, KeyFacts, ParamKeysAreKeys

\* No chunk is without parameters.
LEMMA InChunkFacts ==
  ASSUME NEW k \in Keys
  PROVE  InChunk(k) # {} /\ InChunk(k) \subseteq Params
<1>1. k[1] \in Chunks
  BY KeyFacts
<1> QED BY <1>1, GeminiAssumption DEF InChunk

\* A gradient buffer has the parameters of its chunk.
LEMMA SameParams ==
  ASSUME NEW c \in Chunks
  PROVE  InChunk(GradOf(Param(c))) = InChunk(Param(c))
BY ParamFacts DEF InChunk

\* A tensor that is there is not None.
LEMMA NoneIsNoContent ==
  ASSUME NEW k \in Keys, NEW f \in Contents(k)
  PROVE  f # None
<1>1. DOMAIN f = InChunk(k) /\ InChunk(k) # {}
  BY InChunkFacts DEF Contents
<1>2. DOMAIN None = {}
  BY DEF None
<1> QED BY <1>1, <1>2

\* There are finitely many keys, so that memory can be summed over them.
LEMMA KeysFinite == IsFiniteSet(Keys)
<1>1. IsFiniteSet({"param"}) /\ IsFiniteSet({"grad"})
  BY FS_Singleton
<1>2. {"param", "grad"} = {"param"} \cup {"grad"}
  OBVIOUS
<1>3. IsFiniteSet({"param", "grad"})
  BY <1>1, <1>2, FS_Union
<1>4. IsFiniteSet(Chunks)
  BY GeminiAssumption
<1>5. IsFiniteSet(Chunks \X {"param", "grad"})
  BY <1>3, <1>4, FS_Product
<1> QED BY <1>5 DEF Keys

\* Weights and gradients are values of parameters.
LEMMA ValueFacts ==
  /\ NoGrad \in [1 .. MaxIterations -> Nat]
  /\ \A v \in Int : Weight(v) \in Values
  /\ \A g \in [1 .. MaxIterations -> Nat] : Grad(g) \in Values
  /\ \A v \in Int, k \in Keys : Filled(k, Weight(v)) \in Contents(k)
BY DEF NoGrad, Weight, Grad, Values, Contents, Filled

-----------------------------------------------------------------------------
(* Putting chunks into the manager, and the accounting.                    *)

\* Replacing some chunk records changes nothing else.
LEMMA PutFacts ==
  ASSUME NEW x \in Managers, NEW S \in SUBSET Keys, NEW new \in [S -> ChunkRecords]
  PROVE  /\ Put(x, new) \in Managers
         /\ Put(x, new).accessed = x.accessed /\ Put(x, new).accessed_mem = x.accessed_mem
         /\ Put(x, new).total = x.total /\ Put(x, new).works = x.works
         /\ Put(x, new).ok = x.ok
         /\ \A k \in Keys : Put(x, new).chunk[k] = IF k \in S THEN new[k] ELSE x.chunk[k]
<1> DEFINE ch == [k \in Keys |-> IF k \in DOMAIN new THEN new[k] ELSE x.chunk[k]]
<1>1. DOMAIN new = S
  OBVIOUS
<1>2. x.chunk \in [Keys -> ChunkRecords]
  BY DEF Managers
<1>3. ch \in [Keys -> ChunkRecords]
  BY <1>1, <1>2
<1>4. \A k \in Keys : ch[k] = IF k \in S THEN new[k] ELSE x.chunk[k]
  BY <1>1
<1>5. Put(x, new) = [x EXCEPT !.chunk = ch]
  BY DEF Put
<1> HIDE DEF ch
<1> QED BY <1>3, <1>4, <1>5 DEF Managers

\* A finite set of keys is what lies in S and what does not.
LEMMA Split ==
  ASSUME NEW A \in SUBSET Keys, NEW S
  PROVE  /\ IsFiniteSet(A)
         /\ Cardinality(A) \in Nat /\ Cardinality(A \cap S) \in Nat
         /\ Cardinality(A \ S) \in Nat
         /\ Cardinality(A) = Cardinality(A \cap S) + Cardinality(A \ S)
<1>1. IsFiniteSet(A)
  BY KeysFinite, FS_Subset
<1>2. IsFiniteSet(A \cap S) /\ IsFiniteSet(A \ S)
  BY <1>1, FS_Subset
<1>3. /\ Cardinality(A) \in Nat /\ Cardinality(A \cap S) \in Nat
      /\ Cardinality(A \ S) \in Nat
  BY <1>1, <1>2, FS_CardinalityType
<1>4. /\ (A \cap S) \cup (A \ S) = A
      /\ (A \cap S) \cap (A \ S) = {}
  OBVIOUS
<1>5. Cardinality((A \cap S) \cup (A \ S)) =
        Cardinality(A \cap S) + Cardinality(A \ S) - Cardinality((A \cap S) \cap (A \ S))
  BY <1>2, FS_Union
<1>6. Cardinality({}) = 0
  BY FS_EmptySet
<1>7. Cardinality(A) = Cardinality(A \cap S) + Cardinality(A \ S) - 0
  BY <1>4, <1>5, <1>6
<1>8. Cardinality(A) = Cardinality(A \cap S) + Cardinality(A \ S)
  BY <1>3, <1>7
<1> QED BY <1>1, <1>3, <1>8

\* The keys that count for each part of the memory.
Gathered(x) == {k \in Keys : x.chunk[k].is_gathered}
WithCuda(x) == {k \in Keys : x.chunk[k].cuda # None}
WithCpu(x)  == {k \in Keys : x.chunk[k].cpu # None}

\* Memory in use, as a count of gathered chunks and of shards.
LEMMA UsageFacts ==
  ASSUME NEW x, NEW S \in SUBSET Keys
  PROVE  /\ Usage(x, S).cuda = GroupSize * Cardinality(Gathered(x) \cap S)
                                  + Cardinality(WithCuda(x) \cap S)
         /\ Usage(x, S).cpu = Cardinality(WithCpu(x) \cap S)
         /\ Usage(x, S) \in [cuda : Int, cpu : Int]
<1> DEFINE u == GroupSize * Cardinality(Gathered(x) \cap S) + Cardinality(WithCuda(x) \cap S)
           v == Cardinality(WithCpu(x) \cap S)
<1>1. /\ Gathered(x) \cap S = {k \in S : x.chunk[k].is_gathered}
      /\ WithCuda(x) \cap S = {k \in S : x.chunk[k].cuda # None}
      /\ WithCpu(x) \cap S = {k \in S : x.chunk[k].cpu # None}
  BY DEF Gathered, WithCuda, WithCpu
<1>2. Usage(x, S) = [cuda |-> u, cpu |-> v]
  BY <1>1 DEF Usage
<1>3. /\ Cardinality(Gathered(x) \cap S) \in Nat /\ Cardinality(WithCuda(x) \cap S) \in Nat
      /\ Cardinality(WithCpu(x) \cap S) \in Nat
  BY Split DEF Gathered, WithCuda, WithCpu
<1>4. GroupSize \in Nat
  BY GeminiAssumption
<1>5. u \in Int /\ v \in Int
  BY <1>3, <1>4
<1>6. Usage(x, S).cuda = u /\ Usage(x, S).cpu = v /\ Usage(x, S) \in [cuda : Int, cpu : Int]
  <2> HIDE DEF u, v
  <2> QED BY <1>2, <1>5
<1> QED BY <1>6

\* The sums by which sub_memory_usage and add_memory_usage cancel out.
LEMMA RecountArithmetic ==
  ASSUME NEW n \in Nat, NEW g \in Nat, NEW h \in Nat, NEW r \in Nat,
         NEW a \in Nat, NEW b \in Nat, NEW s \in Nat
  PROVE  (n * (g + r) + (a + s)) - (n * g + a) + (n * h + b) = n * (h + r) + (b + s)
<1>1. n * (g + r) = n * g + n * r /\ n * (h + r) = n * h + n * r
  OBVIOUS
<1>2. n * g \in Nat /\ n * r \in Nat /\ n * h \in Nat
  OBVIOUS
<1> QED BY <1>1, <1>2

\* What is counted once before and once after around a change of some chunks
\* is counted rightly.
LEMMA Recount ==
  ASSUME NEW x, NEW y, NEW S \in SUBSET Keys,
         \A k \in Keys \ S : /\ x.chunk[k].is_gathered = y.chunk[k].is_gathered
                             /\ x.chunk[k].cuda = y.chunk[k].cuda
                             /\ x.chunk[k].cpu = y.chunk[k].cpu
  PROVE  /\ Usage(x, Keys).cuda - Usage(x, S).cuda + Usage(y, S).cuda = Usage(y, Keys).cuda
         /\ Usage(x, Keys).cpu - Usage(x, S).cpu + Usage(y, S).cpu = Usage(y, Keys).cpu
<1> DEFINE In(A)  == Cardinality(A \cap S)
           Out(A) == Cardinality(A \ S)
<1>1. /\ Gathered(x) \ S = Gathered(y) \ S /\ WithCuda(x) \ S = WithCuda(y) \ S
      /\ WithCpu(x) \ S = WithCpu(y) \ S
  BY DEF Gathered, WithCuda, WithCpu
<1>2. \A A \in SUBSET Keys : /\ In(A) \in Nat /\ Out(A) \in Nat
                             /\ Cardinality(A) = In(A) + Out(A)
  BY Split
<1>3. \A z : Gathered(z) \in SUBSET Keys /\ WithCuda(z) \in SUBSET Keys /\ WithCpu(z) \in SUBSET Keys
  BY DEF Gathered, WithCuda, WithCpu
<1>4. \A z : /\ Gathered(z) \cap Keys = Gathered(z) /\ WithCuda(z) \cap Keys = WithCuda(z)
             /\ WithCpu(z) \cap Keys = WithCpu(z)
  BY DEF Gathered, WithCuda, WithCpu
<1>5. ASSUME NEW z
      PROVE  /\ Usage(z, S).cuda = GroupSize * In(Gathered(z)) + In(WithCuda(z))
             /\ Usage(z, S).cpu = In(WithCpu(z))
  BY UsageFacts
<1>6. ASSUME NEW z
      PROVE  /\ Usage(z, Keys).cuda = GroupSize * Cardinality(Gathered(z)) + Cardinality(WithCuda(z))
             /\ Usage(z, Keys).cpu = Cardinality(WithCpu(z))
  <2>1. /\ Usage(z, Keys).cuda = GroupSize * Cardinality(Gathered(z) \cap Keys)
                                  + Cardinality(WithCuda(z) \cap Keys)
        /\ Usage(z, Keys).cpu = Cardinality(WithCpu(z) \cap Keys)
    BY UsageFacts
  <2> QED BY <2>1, <1>4
<1>7. /\ Out(Gathered(x)) = Out(Gathered(y)) /\ Out(WithCuda(x)) = Out(WithCuda(y))
      /\ Out(WithCpu(x)) = Out(WithCpu(y))
  BY <1>1
<1>8. ASSUME NEW z
      PROVE  /\ In(Gathered(z)) \in Nat /\ Out(Gathered(z)) \in Nat
             /\ In(WithCuda(z)) \in Nat /\ Out(WithCuda(z)) \in Nat
             /\ In(WithCpu(z)) \in Nat /\ Out(WithCpu(z)) \in Nat
             /\ Cardinality(Gathered(z)) = In(Gathered(z)) + Out(Gathered(z))
             /\ Cardinality(WithCuda(z)) = In(WithCuda(z)) + Out(WithCuda(z))
             /\ Cardinality(WithCpu(z)) = In(WithCpu(z)) + Out(WithCpu(z))
  BY <1>2, <1>3
<1> HIDE DEF In, Out
<1>9. Usage(x, Keys).cpu - Usage(x, S).cpu + Usage(y, S).cpu = Usage(y, Keys).cpu
  <2>1. (In(WithCpu(x)) + Out(WithCpu(x))) - In(WithCpu(x)) + In(WithCpu(y))
          = In(WithCpu(y)) + Out(WithCpu(y))
    BY <1>7, <1>8
  <2> QED BY <2>1, <1>5, <1>6, <1>8
<1>10. Usage(x, Keys).cuda - Usage(x, S).cuda + Usage(y, S).cuda = Usage(y, Keys).cuda
  <2>1. GroupSize \in Nat
    BY GeminiAssumption
  <2>2. (GroupSize * (In(Gathered(x)) + Out(Gathered(x))) + (In(WithCuda(x)) + Out(WithCuda(x))))
          - (GroupSize * In(Gathered(x)) + In(WithCuda(x)))
          + (GroupSize * In(Gathered(y)) + In(WithCuda(y)))
          = GroupSize * (In(Gathered(y)) + Out(Gathered(x))) + (In(WithCuda(y)) + Out(WithCuda(x)))
    BY <2>1, <1>8, RecountArithmetic
  <2>3. Usage(x, Keys).cuda = GroupSize * (In(Gathered(x)) + Out(Gathered(x)))
                              + (In(WithCuda(x)) + Out(WithCuda(x)))
    BY <1>6, <1>8
  <2>4. Usage(y, Keys).cuda = GroupSize * (In(Gathered(y)) + Out(Gathered(x)))
                              + (In(WithCuda(y)) + Out(WithCuda(x)))
    BY <1>6, <1>7, <1>8
  <2>5. /\ Usage(x, S).cuda = GroupSize * In(Gathered(x)) + In(WithCuda(x))
        /\ Usage(y, S).cuda = GroupSize * In(Gathered(y)) + In(WithCuda(y))
    BY <1>5
  <2> QED BY <2>2, <2>3, <2>4, <2>5
<1> QED BY <1>9, <1>10

\* A total that is what the chunks use stays so when some are subtracted,
\* replaced and added again.
LEMMA MeteredFacts ==
  ASSUME NEW x \in Managers, NEW S \in SUBSET Keys, NEW new \in [S -> ChunkRecords]
  PROVE  /\ Metered(x, new) \in Managers
         /\ Metered(x, new).accessed = x.accessed
         /\ Metered(x, new).accessed_mem = x.accessed_mem
         /\ Metered(x, new).works = x.works /\ Metered(x, new).ok = x.ok
         /\ \A k \in Keys :
              Metered(x, new).chunk[k] = IF k \in S THEN new[k] ELSE x.chunk[k]
         /\ x.total = Usage(x, Keys) =>
              Metered(x, new).total = Usage(Metered(x, new), Keys)
<1> DEFINE w == Put(x, new)
           y == [w EXCEPT !.total = SubUsage(x, S)]
           z == [y EXCEPT !.total = AddUsage(y, S)]
<1>1. DOMAIN new = S
  OBVIOUS
<1>2. Metered(x, new) = z
  BY <1>1 DEF Metered
<1>3. /\ w \in Managers /\ w.accessed = x.accessed /\ w.accessed_mem = x.accessed_mem
      /\ w.works = x.works /\ w.ok = x.ok
      /\ \A k \in Keys : w.chunk[k] = IF k \in S THEN new[k] ELSE x.chunk[k]
  BY PutFacts
<1> HIDE DEF w
<1>4. x.total \in [cuda : Int, cpu : Int]
  BY DEF Managers
<1>5. Usage(x, S) \in [cuda : Int, cpu : Int]
  BY UsageFacts
<1>6. /\ SubUsage(x, S) \in [cuda : Int, cpu : Int]
      /\ SubUsage(x, S).cuda = x.total.cuda - Usage(x, S).cuda
      /\ SubUsage(x, S).cpu = x.total.cpu - Usage(x, S).cpu
  BY <1>4, <1>5 DEF SubUsage
<1>7. /\ y \in Managers /\ y.accessed = w.accessed /\ y.accessed_mem = w.accessed_mem
      /\ y.works = w.works /\ y.ok = w.ok /\ y.chunk = w.chunk
      /\ y.total = SubUsage(x, S)
  BY <1>3, <1>6 DEF Managers
<1> HIDE DEF y
<1>8. Usage(y, S) \in [cuda : Int, cpu : Int] /\ Usage(y, Keys) \in [cuda : Int, cpu : Int]
  BY UsageFacts
<1>9. /\ AddUsage(y, S) \in [cuda : Int, cpu : Int]
      /\ AddUsage(y, S).cuda = x.total.cuda - Usage(x, S).cuda + Usage(y, S).cuda
      /\ AddUsage(y, S).cpu = x.total.cpu - Usage(x, S).cpu + Usage(y, S).cpu
  BY <1>6, <1>7, <1>8 DEF AddUsage
<1>10. /\ z \in Managers /\ z.accessed = y.accessed /\ z.accessed_mem = y.accessed_mem
       /\ z.works = y.works /\ z.ok = y.ok /\ z.chunk = y.chunk
       /\ z.total = AddUsage(y, S)
  BY <1>7, <1>9 DEF Managers
<1> HIDE DEF z
<1>11. Usage(z, Keys) = Usage(y, Keys)
  BY <1>10 DEF Usage
<1>12. ASSUME x.total = Usage(x, Keys) PROVE z.total = Usage(z, Keys)
  <2>1. /\ Usage(x, Keys).cuda - Usage(x, S).cuda + Usage(y, S).cuda = Usage(y, Keys).cuda
        /\ Usage(x, Keys).cpu - Usage(x, S).cpu + Usage(y, S).cpu = Usage(y, Keys).cpu
    <3>1. \A k \in Keys \ S : y.chunk[k] = x.chunk[k]
      BY <1>3, <1>7
    <3> QED BY <3>1, Recount
  <2>2. AddUsage(y, S).cuda = Usage(y, Keys).cuda /\ AddUsage(y, S).cpu = Usage(y, Keys).cpu
    BY <1>9, <1>12, <2>1
  <2>3. AddUsage(y, S) = Usage(y, Keys)
    BY <1>8, <1>9, <2>2
  <2> QED BY <2>3, <1>10, <1>11
<1> QED BY <1>2, <1>3, <1>7, <1>10, <1>12

\* __add_accessed_chunk keeps the size of the accessed chunks right.
LEMMA AddAccessedFacts ==
  ASSUME NEW x \in Managers, NEW S \in SUBSET Keys, S \cap x.accessed = {}
  PROVE  /\ AddAccessed(x, S) \in Managers
         /\ AddAccessed(x, S).chunk = x.chunk /\ AddAccessed(x, S).total = x.total
         /\ AddAccessed(x, S).works = x.works /\ AddAccessed(x, S).ok = x.ok
         /\ AddAccessed(x, S).accessed = x.accessed \cup S
         /\ x.accessed_mem = GroupSize * Cardinality(x.accessed) =>
              AddAccessed(x, S).accessed_mem = GroupSize * Cardinality(x.accessed \cup S)
<1>1. x.accessed \in SUBSET Keys /\ x.accessed_mem \in Int
  BY DEF Managers
<1>2. GroupSize \in Nat
  BY GeminiAssumption
<1>3. /\ Cardinality(S) \in Nat /\ Cardinality(x.accessed) \in Nat
      /\ Cardinality(x.accessed \cup S) = Cardinality(x.accessed) + Cardinality(S)
  <2>1. /\ Cardinality(x.accessed \cup S) = Cardinality((x.accessed \cup S) \cap S)
                                            + Cardinality((x.accessed \cup S) \ S)
    BY <1>1, Split
  <2>2. (x.accessed \cup S) \cap S = S /\ (x.accessed \cup S) \ S = x.accessed
    OBVIOUS
  <2>3. Cardinality(S) \in Nat /\ Cardinality(x.accessed) \in Nat
    BY <1>1, Split
  <2>4. Cardinality(x.accessed \cup S) = Cardinality(S) + Cardinality(x.accessed)
    BY <2>1, <2>2, Zenon
  <2> QED BY <2>3, <2>4
<1>4. GroupSize * Cardinality(S) \in Int
  BY <1>2, <1>3
<1>5. GroupSize * Cardinality(x.accessed) + GroupSize * Cardinality(S)
        = GroupSize * Cardinality(x.accessed \cup S)
  <2>1. \A n, a, b \in Nat : n * a + n * b = n * (a + b)
    OBVIOUS
  <2> QED BY <2>1, <1>2, <1>3
<1>6. /\ AddAccessed(x, S) \in Managers
      /\ AddAccessed(x, S).chunk = x.chunk /\ AddAccessed(x, S).total = x.total
      /\ AddAccessed(x, S).works = x.works /\ AddAccessed(x, S).ok = x.ok
      /\ AddAccessed(x, S).accessed = x.accessed \cup S
      /\ AddAccessed(x, S).accessed_mem = x.accessed_mem + GroupSize * Cardinality(S)
  <2> DEFINE more == GroupSize * Cardinality(S)
  <2>1. AddAccessed(x, S) = [x EXCEPT !.accessed = x.accessed \cup S,
                                      !.accessed_mem = x.accessed_mem + more]
    BY DEF AddAccessed, Managers
  <2>2. more \in Int
    BY <1>4
  <2> HIDE DEF more
  <2>3. x.accessed_mem + more \in Int /\ x.accessed \cup S \in SUBSET Keys
    BY <1>1, <2>2
  <2>4. /\ AddAccessed(x, S) \in Managers
        /\ AddAccessed(x, S).chunk = x.chunk /\ AddAccessed(x, S).total = x.total
        /\ AddAccessed(x, S).works = x.works /\ AddAccessed(x, S).ok = x.ok
        /\ AddAccessed(x, S).accessed = x.accessed \cup S
        /\ AddAccessed(x, S).accessed_mem = x.accessed_mem + more
    BY <2>1, <2>3 DEF Managers
  <2> QED BY <2>4 DEF more
<1> QED BY <1>5, <1>6

\* So does __sub_accessed_chunk.
LEMMA SubAccessedFacts ==
  ASSUME NEW x \in Managers, NEW S \in SUBSET x.accessed
  PROVE  /\ SubAccessed(x, S) \in Managers
         /\ SubAccessed(x, S).chunk = x.chunk /\ SubAccessed(x, S).total = x.total
         /\ SubAccessed(x, S).works = x.works /\ SubAccessed(x, S).ok = x.ok
         /\ SubAccessed(x, S).accessed = x.accessed \ S
         /\ x.accessed_mem = GroupSize * Cardinality(x.accessed) =>
              SubAccessed(x, S).accessed_mem = GroupSize * Cardinality(x.accessed \ S)
<1>1. x.accessed \in SUBSET Keys /\ x.accessed_mem \in Int
  BY DEF Managers
<1>2. GroupSize \in Nat
  BY GeminiAssumption
<1>3. /\ Cardinality(S) \in Nat /\ Cardinality(x.accessed \ S) \in Nat
      /\ Cardinality(x.accessed) = Cardinality(S) + Cardinality(x.accessed \ S)
  <2>1. x.accessed \cap S = S
    OBVIOUS
  <2>2. /\ Cardinality(x.accessed \cap S) \in Nat /\ Cardinality(x.accessed \ S) \in Nat
        /\ Cardinality(x.accessed) = Cardinality(x.accessed \cap S) + Cardinality(x.accessed \ S)
    BY <1>1, Split
  <2> QED BY <2>1, <2>2
<1>4. GroupSize * Cardinality(S) \in Int
  BY <1>2, <1>3
<1>5. GroupSize * Cardinality(x.accessed) - GroupSize * Cardinality(S)
        = GroupSize * Cardinality(x.accessed \ S)
  <2>1. \A n, a, b \in Nat : n * (a + b) - n * a = n * b
    OBVIOUS
  <2> QED BY <2>1, <1>2, <1>3
<1>6. /\ SubAccessed(x, S) \in Managers
      /\ SubAccessed(x, S).chunk = x.chunk /\ SubAccessed(x, S).total = x.total
      /\ SubAccessed(x, S).works = x.works /\ SubAccessed(x, S).ok = x.ok
      /\ SubAccessed(x, S).accessed = x.accessed \ S
      /\ SubAccessed(x, S).accessed_mem = x.accessed_mem - GroupSize * Cardinality(S)
  <2> DEFINE less == GroupSize * Cardinality(S)
  <2>1. SubAccessed(x, S) = [x EXCEPT !.accessed = x.accessed \ S,
                                      !.accessed_mem = x.accessed_mem - less]
    BY DEF SubAccessed, Managers, Asserting
  <2>2. less \in Int
    BY <1>4
  <2> HIDE DEF less
  <2>3. x.accessed_mem - less \in Int /\ x.accessed \ S \in SUBSET Keys
    BY <1>1, <2>2
  <2>4. /\ SubAccessed(x, S) \in Managers
        /\ SubAccessed(x, S).chunk = x.chunk /\ SubAccessed(x, S).total = x.total
        /\ SubAccessed(x, S).works = x.works /\ SubAccessed(x, S).ok = x.ok
        /\ SubAccessed(x, S).accessed = x.accessed \ S
        /\ SubAccessed(x, S).accessed_mem = x.accessed_mem - less
    BY <2>1, <2>3 DEF Managers
  <2> QED BY <2>4 DEF less
<1> QED BY <1>5, <1>6

-----------------------------------------------------------------------------
(* What a chunk may look like, and what it holds.                          *)

\* A chunk record as the code keeps it: gathered chunks hold no shard, and a
\* master copy is waited for only while the shard is on the CPU.
Well(k, c) ==
  /\ c \in ChunkType(k)
  /\ c.ok
  /\ c.is_gathered => c.global # None /\ c.cuda = None /\ c.optim_sync
  /\ ~c.is_gathered => c.global = None
  /\ ~c.optim_sync => c.cuda = None /\ grads_device[k[1]] = "cpu" /\ ~c.cpu_vis
  /\ k \in ParamKeys /\ Kept(k) => c.is_gathered /\ ~c.cpu_vis

\* The weights of the last step, here, in the master copy it waits for, and in
\* the copy on the CPU that a move would rely on.
HoldsWeights(k, c) ==
  /\ c.optim_sync => Payload(c) = Filled(k, Weight(version))
  /\ cfg.pinned /\ c.cpu_vis => c.cpu = Filled(k, Weight(version))

\* Of each parameter, the gradients of the iterations T, each once.
Indicator(T) == [i \in 1 .. MaxIterations |-> IF i \in T THEN 1 ELSE 0]
HoldsGrads(k, c, T) == c.optim_sync /\ Payload(c) = Filled(k, Grad(Indicator(T)))

\* Weights are a content of a chunk.
LEMMA WeightsAreContent ==
  ASSUME NEW k \in Keys, version \in Nat
  PROVE  Filled(k, Weight(version)) \in Contents(k) /\ Filled(k, Weight(version)) # None
BY ValueFacts, NoneIsNoContent

\* And so are gradients.
LEMMA GradsAreContent ==
  ASSUME NEW k \in Keys, NEW T
  PROVE  /\ Indicator(T) \in [1 .. MaxIterations -> Nat]
         /\ Filled(k, Grad(Indicator(T))) \in Contents(k)
         /\ Filled(k, Grad(Indicator(T))) # None
<1>1. Indicator(T) \in [1 .. MaxIterations -> Nat]
  BY DEF Indicator
<1>2. Grad(Indicator(T)) \in Values
  BY <1>1, ValueFacts
<1>3. Filled(k, Grad(Indicator(T))) \in Contents(k)
  BY <1>2 DEF Filled, Contents
<1> QED BY <1>1, <1>3, NoneIsNoContent

\* The chunk once its shard is on the GPU.
Brought(k, c) == IF Device(c) = "cpu" THEN ShardMove(k, c, "cuda", FALSE) ELSE c

\* A chunk of weights that is accessed holds them gathered.
LEMMA AccessChunk ==
  ASSUME NEW k \in Keys, NEW c, Well(k, c), HoldsWeights(k, c), version \in Nat
  PROVE  /\ Well(k, Gather(k, Brought(k, c))) /\ HoldsWeights(k, Gather(k, Brought(k, c)))
         /\ Gather(k, Brought(k, c)).is_gathered
         /\ Gather(k, Brought(k, c)).state = c.state
<1> DEFINE W == Filled(k, Weight(version))
           b == Brought(k, c)
<1>1. W \in Contents(k) /\ W # None
  BY WeightsAreContent
<1> HIDE DEF W
<1>2. c \in ChunkType(k) /\ c.ok
  BY DEF Well
<1>3. CASE c.is_gathered
  <2>1. Gather(k, b) = c
    BY <1>3 DEF Brought, Device, OnCuda, Gather
  <2> QED BY <2>1, <1>3
<1>4. CASE ~c.is_gathered
  <2>1. /\ b \in ChunkType(k) /\ b.ok /\ ~b.is_gathered /\ b.cuda = W /\ b.optim_sync
        /\ b.state = c.state /\ b.cpu_vis = c.cpu_vis /\ (cfg.pinned => b.cpu = c.cpu)
    <3>1. CASE c.cuda # None
      <4>1. b = c
        BY <3>1 DEF Brought, Device, OnCuda
      <4>2. c.optim_sync /\ c.cuda = W
        BY <3>1, <1>4 DEF Well, HoldsWeights, Payload, W
      <4> QED BY <4>1, <4>2, <1>2, <1>4
    <3>2. CASE c.cuda = None /\ c.optim_sync
      <4>1. c.cpu = W
        BY <3>2, <1>4 DEF HoldsWeights, Payload, W
      <4>2. b = [c EXCEPT !.cuda = c.cpu, !.cpu = IF cfg.pinned THEN c.cpu ELSE None]
        BY <3>2, <1>2, <1>4 DEF Brought, Device, OnCuda, ShardMove, ToCuda, ChunkType
      <4> QED BY <4>1, <4>2, <3>2, <1>1, <1>2, <1>4 DEF ChunkType
    <3>3. CASE c.cuda = None /\ ~c.optim_sync
      <4>1. grads_device[k[1]] = "cpu"
        BY <3>3 DEF Well
      <4>2. b = [c EXCEPT !.cuda = W, !.optim_sync = TRUE,
                          !.cpu = IF cfg.pinned THEN c.cpu ELSE None]
        BY <3>3, <4>1, <1>2, <1>4
           DEF Brought, Device, OnCuda, ShardMove, PairedMove, Asserting, ChunkType, W
      <4> QED BY <4>2, <3>3, <1>1, <1>2, <1>4 DEF ChunkType
    <3> QED BY <3>1, <3>2, <3>3
  <2> HIDE DEF b
  <2> DEFINE d == Gather(k, b)
  <2>2. d = [b EXCEPT !.global = b.cuda, !.cuda = None, !.is_gathered = TRUE]
    BY <2>1, <1>1 DEF Gather, Asserting
  <2>3. /\ d \in ChunkType(k) /\ d.ok /\ d.is_gathered /\ d.global = W /\ d.cuda = None
        /\ d.optim_sync /\ d.state = c.state /\ d.cpu_vis = c.cpu_vis
        /\ (cfg.pinned => d.cpu = c.cpu)
    BY <2>1, <2>2, <1>1 DEF ChunkType
  <2> HIDE DEF d
  <2>4. Well(k, d)
    BY <2>3, <1>1 DEF Well
  <2>5. HoldsWeights(k, d)
    BY <2>3 DEF HoldsWeights, Payload, W
  <2> QED BY <2>3, <2>4, <2>5 DEF d, b
<1> QED BY <1>3, <1>4

\* A chunk of weights that is released holds them in shards.
LEMMA ReleaseChunk ==
  ASSUME NEW k \in Keys, NEW c, Well(k, c), HoldsWeights(k, c), version \in Nat,
         c.is_gathered, CanRelease(k, c)
  PROVE  /\ Well(k, Scatter(k, c)) /\ HoldsWeights(k, Scatter(k, c))
         /\ ~Scatter(k, c).is_gathered /\ Scatter(k, c).state = c.state
         /\ OnCuda(Scatter(k, c))
<1> DEFINE W == Filled(k, Weight(version))
           d == Scatter(k, c)
<1>1. W \in Contents(k) /\ W # None
  BY WeightsAreContent
<1>2. /\ c \in ChunkType(k) /\ c.ok /\ c.cuda = None /\ c.optim_sync
  BY DEF Well
<1>3. c.global = W
  BY <1>2 DEF HoldsWeights, Payload
<1>4. ~Kept(k) /\ \A p \in InChunk(k) : c.state[p] # "ready"
  BY <1>2 DEF CanRelease, AllIn, ChunkType
<1>5. [p \in InChunk(k) |-> IF c.state[p] = "ready" THEN Weight(-1) ELSE c.global[p]] = W
  BY <1>3, <1>4 DEF Filled
<1> HIDE DEF W
<1>6. d = [c EXCEPT !.cuda = W, !.global = None, !.is_gathered = FALSE]
  BY <1>2, <1>4, <1>5 DEF Scatter, Asserting
<1> HIDE DEF d
<1>7. /\ d \in ChunkType(k) /\ d.ok /\ ~d.is_gathered /\ d.global = None /\ d.cuda = W
      /\ d.optim_sync /\ d.state = c.state /\ d.cpu_vis = c.cpu_vis /\ d.cpu = c.cpu
  BY <1>1, <1>2, <1>6 DEF ChunkType
<1>8. Well(k, d)
  BY <1>4, <1>7 DEF Well
<1>9. HoldsWeights(k, d)
  BY <1>1, <1>7 DEF HoldsWeights, Payload, W
<1>10. OnCuda(d)
  BY <1>1, <1>7 DEF OnCuda
<1> QED BY <1>7, <1>8, <1>9, <1>10 DEF d

\* A chunk that is moved holds what it held: weights always, gradients when the
\* copy to the CPU is forced.
LEMMA MoveChunk ==
  ASSUME NEW k \in Keys, NEW c, Well(k, c), version \in Nat, ~c.is_gathered,
         NEW dev \in {"cuda", "cpu"}, Device(c) # dev, NEW force \in BOOLEAN, NEW T,
         HoldsWeights(k, c) \/ (HoldsGrads(k, c, T) /\ (dev = "cuda" \/ force))
  PROVE  /\ Well(k, ShardMove(k, c, dev, force)) /\ ~ShardMove(k, c, dev, force).is_gathered
         /\ ShardMove(k, c, dev, force).state = c.state
         /\ Device(ShardMove(k, c, dev, force)) = dev
         /\ HoldsWeights(k, c) => HoldsWeights(k, ShardMove(k, c, dev, force))
         /\ HoldsGrads(k, c, T) /\ (dev = "cuda" \/ force) =>
              HoldsGrads(k, ShardMove(k, c, dev, force), T)
<1> DEFINE W == Filled(k, Weight(version))
           G == Filled(k, Grad(Indicator(T)))
           d == ShardMove(k, c, dev, force)
<1>1. /\ W \in Contents(k) /\ W # None /\ G \in Contents(k) /\ G # None
  BY WeightsAreContent, GradsAreContent
<1>2. c \in ChunkType(k) /\ c.ok
  BY DEF Well
<1>3. ~(k \in ParamKeys /\ Kept(k))
  BY DEF Well
<1>4. CASE dev = "cpu"
  <2>1. c.cuda # None /\ c.optim_sync
    BY <1>4 DEF Device, OnCuda, Well
  <2>2. d = [c EXCEPT !.cpu = IF cfg.pinned /\ ~force /\ c.cpu_vis THEN c.cpu ELSE c.cuda,
                      !.cuda = None, !.cpu_vis = TRUE]
    BY <1>4, <1>2, <2>1 DEF ShardMove, ToCpu, ChunkType
  <2> HIDE DEF d
  <2>3. /\ d \in ChunkType(k) /\ d.ok /\ ~d.is_gathered /\ d.global = c.global /\ d.cuda = None
        /\ d.optim_sync /\ d.state = c.state /\ d.cpu_vis
        /\ d.cpu = IF cfg.pinned /\ ~force /\ c.cpu_vis THEN c.cpu ELSE c.cuda
    BY <1>2, <2>1, <2>2 DEF ChunkType
  <2>4. Well(k, d)
    BY <1>3, <2>3 DEF Well
  <2>5. Device(d) = "cpu"
    BY <2>3 DEF Device, OnCuda
  <2>6. HoldsWeights(k, c) => HoldsWeights(k, d)
    BY <2>1, <2>3 DEF HoldsWeights, Payload
  <2>7. HoldsGrads(k, c, T) /\ (dev = "cuda" \/ force) => HoldsGrads(k, d, T)
    BY <1>4, <2>1, <2>3 DEF HoldsGrads, Payload
  <2> QED BY <1>4, <2>3, <2>4, <2>5, <2>6, <2>7 DEF d
<1>5. CASE dev = "cuda"
  <2>1. c.cuda = None
    BY <1>5 DEF Device, OnCuda
  <2>2. CASE c.optim_sync
    <3>1. c.cpu = W \/ c.cpu = G
      BY <2>1, <2>2 DEF HoldsWeights, HoldsGrads, Payload
    <3>2. c.cpu # None
      BY <1>1, <3>1
    <3>3. d = [c EXCEPT !.cuda = c.cpu, !.cpu = IF cfg.pinned THEN c.cpu ELSE None]
      BY <1>5, <1>2, <2>1, <2>2 DEF ShardMove, ToCuda, ChunkType
    <3> HIDE DEF d
    <3>4. /\ d \in ChunkType(k) /\ d.ok /\ ~d.is_gathered /\ d.global = c.global /\ d.cuda = c.cpu
          /\ d.optim_sync /\ d.state = c.state /\ d.cpu_vis = c.cpu_vis
          /\ d.cpu = IF cfg.pinned THEN c.cpu ELSE None
      BY <1>2, <2>2, <3>3 DEF ChunkType
    <3>5. Well(k, d)
      BY <1>3, <3>4 DEF Well
    <3>6. Device(d) = "cuda"
      BY <3>2, <3>4 DEF Device, OnCuda
    <3>7. HoldsWeights(k, c) => HoldsWeights(k, d)
      BY <2>1, <2>2, <3>2, <3>4 DEF HoldsWeights, Payload
    <3>8. HoldsGrads(k, c, T) => HoldsGrads(k, d, T)
      BY <2>1, <3>2, <3>4 DEF HoldsGrads, Payload
    <3> QED BY <1>5, <3>4, <3>5, <3>6, <3>7, <3>8 DEF d
  <2>3. CASE ~c.optim_sync
    <3>1. grads_device[k[1]] = "cpu" /\ ~c.cpu_vis
      BY <2>3 DEF Well
    <3> HIDE DEF W
    <3>2. d = [c EXCEPT !.cuda = W, !.optim_sync = TRUE, !.cpu = IF cfg.pinned THEN c.cpu ELSE None]
      BY <1>5, <1>2, <2>1, <2>3, <3>1 DEF ShardMove, PairedMove, Asserting, ChunkType, W
    <3> HIDE DEF d
    <3>4. /\ d \in ChunkType(k) /\ d.ok /\ ~d.is_gathered /\ d.global = c.global /\ d.cuda = W
          /\ d.optim_sync /\ d.state = c.state /\ d.cpu_vis = c.cpu_vis
      BY <1>1, <1>2, <3>2 DEF ChunkType
    <3>5. Well(k, d)
      BY <1>3, <3>4 DEF Well
    <3>6. Device(d) = "cuda"
      BY <1>1, <3>4 DEF Device, OnCuda
    <3>7. HoldsWeights(k, d)
      BY <1>1, <3>1, <3>4 DEF HoldsWeights, Payload, W
    <3>8. ~HoldsGrads(k, c, T)
      BY <2>3 DEF HoldsGrads
    <3> QED BY <1>5, <3>4, <3>5, <3>6, <3>7, <3>8 DEF d
  <2> QED BY <2>2, <2>3
<1> QED BY <1>4, <1>5

-----------------------------------------------------------------------------
(* What the manager does to chunks of weights.                             *)

\* The manager with its chunks in order and its accounts balanced.
Sound(x) ==
  /\ x \in Managers /\ x.ok
  /\ \A k \in Keys : Well(k, x.chunk[k])
  /\ x.total = Usage(x, Keys)
  /\ x.accessed_mem = GroupSize * Cardinality(x.accessed)
  /\ \A k \in Keys : ~Kept(k) => (x.chunk[k].is_gathered <=> k \in x.accessed)

\* From x to y no state has changed, and weights are still there.
Carried(x, y) ==
  \A k \in Keys :
    /\ y.chunk[k].state = x.chunk[k].state
    /\ HoldsWeights(k, x.chunk[k]) => HoldsWeights(k, y.chunk[k])

\* A chunk in order is a chunk record.
LEMMA WellIsRecord ==
  ASSUME NEW k \in Keys, NEW c, Well(k, c)
  PROVE  c \in ChunkRecords
BY DEF Well, ChunkRecords

\* Chunks that stand for a change of some chunks of x, counted or not counted.
LEMMA SoundParts ==
  ASSUME NEW x, Sound(x), NEW y \in Managers, y.ok, NEW S \in SUBSET Keys,
         \A k \in S : Well(k, y.chunk[k]),
         \A k \in S : ~Kept(k) => (y.chunk[k].is_gathered <=> k \in y.accessed),
         \A k \in Keys \ S : /\ y.chunk[k] = x.chunk[k]
                             /\ (k \in y.accessed <=> k \in x.accessed),
         y.total = Usage(y, Keys),
         y.accessed_mem = GroupSize * Cardinality(y.accessed)
  PROVE  Sound(y)
<1>1. \A k \in Keys : Well(k, y.chunk[k])
  BY DEF Sound
<1>2. \A k \in Keys : ~Kept(k) => (y.chunk[k].is_gathered <=> k \in y.accessed)
  BY DEF Sound
<1> QED BY <1>1, <1>2 DEF Sound

\* access_chunk gathers what was not gathered, and weights stay weights.
LEMMA AccessFacts ==
  ASSUME NEW x, Sound(x), version \in Nat, NEW S \in SUBSET ParamKeys,
         \A k \in S \ x.accessed : HoldsWeights(k, x.chunk[k])
  PROVE  /\ Sound(Access(x, S)) /\ Carried(x, Access(x, S))
         /\ Access(x, S).accessed = x.accessed \cup S /\ Access(x, S).works = x.works
         /\ \A k \in S \ x.accessed : Access(x, S).chunk[k].is_gathered
         /\ \A k \in Keys \ (S \ x.accessed) : Access(x, S).chunk[k] = x.chunk[k]
<1> DEFINE A == S \ x.accessed
           new == [k \in A |-> Gather(k, Brought(k, x.chunk[k]))]
           y == Metered(x, new)
           z == AddAccessed(y, A)
<1>1. Access(x, S) = z
  BY DEF Access, Brought
<1>2. A \in SUBSET Keys /\ x \in Managers
  BY ParamKeysAreKeys DEF Sound
<1>3. ASSUME NEW k \in A
      PROVE  /\ Well(k, new[k]) /\ HoldsWeights(k, new[k]) /\ new[k].is_gathered
             /\ new[k].state = x.chunk[k].state
  <2>1. k \in Keys /\ Well(k, x.chunk[k]) /\ HoldsWeights(k, x.chunk[k])
    BY <1>2 DEF Sound
  <2>2. new[k] = Gather(k, Brought(k, x.chunk[k]))
    OBVIOUS
  <2> QED BY <2>1, <2>2, AccessChunk
<1>4. new \in [A -> ChunkRecords]
  <2>1. \A k \in A : new[k] \in ChunkRecords
    BY <1>2, <1>3, WellIsRecord
  <2> QED BY <2>1
<1> HIDE DEF new
<1>5. /\ y \in Managers /\ y.accessed = x.accessed /\ y.accessed_mem = x.accessed_mem
      /\ y.works = x.works /\ y.ok = x.ok
      /\ \A k \in Keys : y.chunk[k] = IF k \in A THEN new[k] ELSE x.chunk[k]
      /\ y.total = Usage(y, Keys)
  <2>1. x.total = Usage(x, Keys)
    BY DEF Sound
  <2> HIDE DEF A
  <2> QED BY <1>2, <1>4, <2>1, MeteredFacts
<1> HIDE DEF y
<1>6. A \cap y.accessed = {}
  BY <1>5
<1>7. /\ z \in Managers /\ z.chunk = y.chunk /\ z.total = y.total /\ z.works = y.works
      /\ z.ok = y.ok /\ z.accessed = y.accessed \cup A
      /\ z.accessed_mem = GroupSize * Cardinality(z.accessed)
  <2>1. y.accessed_mem = GroupSize * Cardinality(y.accessed)
    BY <1>5 DEF Sound
  <2>2. A \in SUBSET Keys
    BY <1>2
  <2> HIDE DEF A, z
  <2>3. /\ AddAccessed(y, A) \in Managers
        /\ AddAccessed(y, A).chunk = y.chunk /\ AddAccessed(y, A).total = y.total
        /\ AddAccessed(y, A).works = y.works /\ AddAccessed(y, A).ok = y.ok
        /\ AddAccessed(y, A).accessed = y.accessed \cup A
        /\ AddAccessed(y, A).accessed_mem = GroupSize * Cardinality(y.accessed \cup A)
    BY <1>5, <1>6, <2>1, <2>2, AddAccessedFacts
  <2> QED BY <2>3 DEF z
<1> HIDE DEF z
<1>8. Usage(z, Keys) = Usage(y, Keys)
  BY <1>7 DEF Usage
<1>9. \A k \in Keys : z.chunk[k] = IF k \in A THEN new[k] ELSE x.chunk[k]
  BY <1>5, <1>7
<1>10. Sound(z)
  <2>1. z.total = Usage(z, Keys) /\ z.ok
    BY <1>5, <1>7, <1>8 DEF Sound
  <2>2. \A k \in A : Well(k, z.chunk[k]) /\ z.chunk[k].is_gathered /\ k \in z.accessed
    BY <1>2, <1>3, <1>7, <1>9
  <2>3. \A k \in Keys \ A : z.chunk[k] = x.chunk[k] /\ (k \in z.accessed <=> k \in x.accessed)
    BY <1>5, <1>7, <1>9
  <2> HIDE DEF A
  <2> QED BY <1>2, <1>7, <2>1, <2>2, <2>3, SoundParts
<1>11. Carried(x, z)
  BY <1>2, <1>3, <1>9 DEF Carried
<1>12. z.accessed = x.accessed \cup S /\ z.works = x.works
  BY <1>5, <1>7
<1> QED BY <1>1, <1>2, <1>3, <1>9, <1>10, <1>11, <1>12

\* release_chunk scatters what it may, and weights stay weights.
LEMMA ReleaseFacts ==
  ASSUME NEW x, Sound(x), version \in Nat, NEW S \in SUBSET Keys,
         NEW R, R = {k \in S \cap x.accessed : CanRelease(k, x.chunk[k])},
         \A k \in R : HoldsWeights(k, x.chunk[k])
  PROVE  /\ Sound(Release(x, S)) /\ Carried(x, Release(x, S))
         /\ Release(x, S).accessed = x.accessed \ R /\ Release(x, S).works = x.works
         /\ \A k \in R : ~Release(x, S).chunk[k].is_gathered
         /\ \A k \in Keys \ R : Release(x, S).chunk[k] = x.chunk[k]
<1> DEFINE new == [k \in R |-> Scatter(k, x.chunk[k])]
           y == Metered(x, new)
           z == SubAccessed(y, R)
<1>1. Release(x, S) = z
  BY DEF Release
<1>2. /\ R \in SUBSET Keys /\ R \subseteq x.accessed /\ x \in Managers
      /\ \A k \in R : ~Kept(k) /\ CanRelease(k, x.chunk[k])
  BY DEF Sound, CanRelease
<1>3. ASSUME NEW k \in R
      PROVE  /\ Well(k, new[k]) /\ HoldsWeights(k, new[k]) /\ ~new[k].is_gathered
             /\ new[k].state = x.chunk[k].state
  <2>1. /\ k \in Keys /\ Well(k, x.chunk[k]) /\ HoldsWeights(k, x.chunk[k])
        /\ x.chunk[k].is_gathered /\ CanRelease(k, x.chunk[k])
    BY <1>2 DEF Sound
  <2>2. new[k] = Scatter(k, x.chunk[k])
    OBVIOUS
  <2> QED BY <2>1, <2>2, ReleaseChunk
<1>4. new \in [R -> ChunkRecords]
  <2>1. \A k \in R : new[k] \in ChunkRecords
    BY <1>2, <1>3, WellIsRecord
  <2> QED BY <2>1
<1> HIDE DEF new
<1>5. /\ y \in Managers /\ y.accessed = x.accessed /\ y.accessed_mem = x.accessed_mem
      /\ y.works = x.works /\ y.ok = x.ok
      /\ \A k \in Keys : y.chunk[k] = IF k \in R THEN new[k] ELSE x.chunk[k]
      /\ y.total = Usage(y, Keys)
  <2>1. x.total = Usage(x, Keys)
    BY DEF Sound
  <2> QED BY <1>2, <1>4, <2>1, MeteredFacts
<1> HIDE DEF y
<1>7. /\ z \in Managers /\ z.chunk = y.chunk /\ z.total = y.total /\ z.works = y.works
      /\ z.ok = y.ok /\ z.accessed = y.accessed \ R
      /\ z.accessed_mem = GroupSize * Cardinality(z.accessed)
  <2>1. y.accessed_mem = GroupSize * Cardinality(y.accessed) /\ R \in SUBSET y.accessed
    BY <1>2, <1>5 DEF Sound
  <2> HIDE DEF z
  <2>2. /\ SubAccessed(y, R) \in Managers
        /\ SubAccessed(y, R).chunk = y.chunk /\ SubAccessed(y, R).total = y.total
        /\ SubAccessed(y, R).works = y.works /\ SubAccessed(y, R).ok = y.ok
        /\ SubAccessed(y, R).accessed = y.accessed \ R
        /\ SubAccessed(y, R).accessed_mem = GroupSize * Cardinality(y.accessed \ R)
    BY <1>5, <2>1, SubAccessedFacts
  <2> QED BY <2>2 DEF z
<1> HIDE DEF z
<1>8. Usage(z, Keys) = Usage(y, Keys)
  BY <1>7 DEF Usage
<1>9. \A k \in Keys : z.chunk[k] = IF k \in R THEN new[k] ELSE x.chunk[k]
  BY <1>5, <1>7
<1>10. Sound(z)
  <2>1. z.total = Usage(z, Keys) /\ z.ok
    BY <1>5, <1>7, <1>8 DEF Sound
  <2>2. \A k \in R : Well(k, z.chunk[k]) /\ ~z.chunk[k].is_gathered /\ k \notin z.accessed
    BY <1>2, <1>3, <1>7, <1>9
  <2>3. \A k \in Keys \ R : z.chunk[k] = x.chunk[k] /\ (k \in z.accessed <=> k \in x.accessed)
    BY <1>5, <1>7, <1>9
  <2> QED BY <1>2, <1>7, <2>1, <2>2, <2>3, SoundParts
<1>11. Carried(x, z)
  BY <1>2, <1>3, <1>9 DEF Carried
<1>12. z.accessed = x.accessed \ R /\ z.works = x.works
  BY <1>5, <1>7
<1> QED BY <1>1, <1>2, <1>3, <1>9, <1>10, <1>11, <1>12

\* The chunks that a move really moves.
Shifted(x, S, device) ==
  {k \in S : ~x.chunk[k].is_gathered /\ Device(x.chunk[k]) # device[k[1]]}

\* What those hold may be moved.
Keeps(x, T, device, force, G) ==
  \A k \in T : \/ HoldsWeights(k, x.chunk[k])
               \/ HoldsGrads(k, x.chunk[k], G) /\ (device[k[1]] = "cuda" \/ force)

\* And are, when z is what x becomes.
Moved(x, z, S, T, device, force, G) ==
  /\ Sound(z) /\ Carried(x, z)
  /\ z.accessed = x.accessed /\ z.works = x.works
  /\ \A k \in T : /\ HoldsGrads(k, x.chunk[k], G) /\ (device[k[1]] = "cuda" \/ force) =>
                     HoldsGrads(k, z.chunk[k], G)
                  /\ ~z.chunk[k].is_gathered /\ Device(z.chunk[k]) = device[k[1]]
  /\ \A k \in Keys \ T : z.chunk[k] = x.chunk[k]
  /\ \A k \in S : ~x.chunk[k].is_gathered => Device(z.chunk[k]) = device[k[1]]

\* move_chunk moves the shards of what holds weights, or gradients that are
\* copied whatever the CPU is thought to hold.
LEMMA MoveFacts ==
  ASSUME NEW x, Sound(x), version \in Nat, NEW S \in SUBSET Keys,
         NEW device \in [Chunks -> {"cuda", "cpu"}], NEW force \in BOOLEAN, NEW G,
         NEW T, T = Shifted(x, S, device),
         Keeps(x, T, device, force, G),
         NEW z, z = Move(x, S, device, force)
  PROVE  Moved(x, z, S, T, device, force, G)
<1> DEFINE new == [k \in T |-> ShardMove(k, x.chunk[k], device[k[1]], force)]
           y == Metered(x, new)
<1>1. Move(x, S, device, force) = y
  BY DEF Move, Shifted
<1>2. /\ T \in SUBSET Keys /\ x \in Managers
      /\ \A k \in T : ~x.chunk[k].is_gathered /\ Device(x.chunk[k]) # device[k[1]]
      /\ \A k \in T : device[k[1]] \in {"cuda", "cpu"}
  BY KeyFacts DEF Sound, Shifted
<1>3. ASSUME NEW k \in T
      PROVE  /\ Well(k, new[k]) /\ ~new[k].is_gathered
             /\ new[k].state = x.chunk[k].state /\ Device(new[k]) = device[k[1]]
             /\ HoldsWeights(k, x.chunk[k]) => HoldsWeights(k, new[k])
             /\ HoldsGrads(k, x.chunk[k], G) /\ (device[k[1]] = "cuda" \/ force) =>
                  HoldsGrads(k, new[k], G)
  <2>1. /\ k \in Keys /\ Well(k, x.chunk[k]) /\ ~x.chunk[k].is_gathered
        /\ Device(x.chunk[k]) # device[k[1]] /\ device[k[1]] \in {"cuda", "cpu"}
        /\ \/ HoldsWeights(k, x.chunk[k])
           \/ HoldsGrads(k, x.chunk[k], G) /\ (device[k[1]] = "cuda" \/ force)
    BY <1>2 DEF Sound, Keeps
  <2> DEFINE c == x.chunk[k]
             dev == device[k[1]]
             d == ShardMove(k, c, dev, force)
  <2>2. new[k] = d
    OBVIOUS
  <2>3. /\ k \in Keys /\ Well(k, c) /\ ~c.is_gathered /\ Device(c) # dev
        /\ dev \in {"cuda", "cpu"} /\ version \in Nat /\ force \in BOOLEAN
        /\ HoldsWeights(k, c) \/ (HoldsGrads(k, c, G) /\ (dev = "cuda" \/ force))
    BY <2>1
  <2> HIDE DEF c, dev
  <2>4. /\ Well(k, d) /\ ~d.is_gathered /\ d.state = c.state /\ Device(d) = dev
        /\ HoldsWeights(k, c) => HoldsWeights(k, d)
        /\ HoldsGrads(k, c, G) /\ (dev = "cuda" \/ force) => HoldsGrads(k, d, G)
    BY ONLY <2>3, MoveChunk
  <2> HIDE DEF d, new
  <2> QED BY <2>2, <2>4 DEF c, dev
<1>4. new \in [T -> ChunkRecords]
  <2>1. \A k \in T : new[k] \in ChunkRecords
    BY <1>2, <1>3, WellIsRecord
  <2> QED BY <2>1
<1> HIDE DEF new
<1>5. /\ y \in Managers /\ y.accessed = x.accessed /\ y.accessed_mem = x.accessed_mem
      /\ y.works = x.works /\ y.ok = x.ok
      /\ \A k \in Keys : y.chunk[k] = IF k \in T THEN new[k] ELSE x.chunk[k]
      /\ y.total = Usage(y, Keys)
  <2>1. x.total = Usage(x, Keys) /\ x \in Managers
    BY DEF Sound
  <2>2. T \in SUBSET Keys
    BY <1>2
  <2> HIDE DEF y
  <2>3. /\ Metered(x, new) \in Managers /\ Metered(x, new).accessed = x.accessed
        /\ Metered(x, new).accessed_mem = x.accessed_mem
        /\ Metered(x, new).works = x.works /\ Metered(x, new).ok = x.ok
        /\ \A k \in Keys :
             Metered(x, new).chunk[k] = IF k \in T THEN new[k] ELSE x.chunk[k]
        /\ Metered(x, new).total = Usage(Metered(x, new), Keys)
    BY ONLY <1>4, <2>1, <2>2, MeteredFacts
  <2> QED BY <2>3 DEF y
<1> HIDE DEF y
<1>6. Sound(y)
  <2>1. y.ok /\ y.accessed_mem = GroupSize * Cardinality(y.accessed)
    BY <1>5 DEF Sound
  <2>2. \A k \in T : Well(k, y.chunk[k]) /\ ~y.chunk[k].is_gathered
    BY <1>2, <1>3, <1>5
  <2>3. \A k \in T : ~Kept(k) => (y.chunk[k].is_gathered <=> k \in y.accessed)
    BY <1>2, <2>2, <1>5 DEF Sound
  <2>4. \A k \in Keys \ T : y.chunk[k] = x.chunk[k] /\ (k \in y.accessed <=> k \in x.accessed)
    BY <1>5
  <2> QED BY <1>2, <1>5, <2>1, <2>2, <2>3, <2>4, SoundParts
<1>7. Carried(x, y)
  BY <1>2, <1>3, <1>5 DEF Carried
<1>8. \A k \in T : /\ HoldsGrads(k, x.chunk[k], G) /\ (device[k[1]] = "cuda" \/ force) =>
                        HoldsGrads(k, y.chunk[k], G)
                 /\ ~y.chunk[k].is_gathered /\ Device(y.chunk[k]) = device[k[1]]
  BY <1>2, <1>3, <1>5
<1>9. \A k \in Keys \ T : y.chunk[k] = x.chunk[k]
  BY <1>5
<1>10. \A k \in S : ~x.chunk[k].is_gathered => Device(y.chunk[k]) = device[k[1]]
  BY <1>8, <1>9 DEF Shifted
<1>11. z = y
  BY <1>1
<1> QED BY ONLY <1>5, <1>6, <1>7, <1>8, <1>9, <1>10, <1>11 DEF Moved

\* Steps that carry the weights along compose.
LEMMA CarriedOn ==
  ASSUME NEW x, NEW y, NEW z, Carried(x, y), Carried(y, z)
  PROVE  Carried(x, z)
BY DEF Carried

\* Chunks that are put back with what is counted of them unchanged.
LEMMA PutSound ==
  ASSUME NEW x, Sound(x), NEW S \in SUBSET Keys, NEW new, DOMAIN new = S,
         NEW z, z = Put(x, new),
         new = [k \in S |-> new[k]],
         \A k \in S : /\ Well(k, new[k]) /\ new[k].is_gathered = x.chunk[k].is_gathered
                      /\ new[k].cuda = None <=> x.chunk[k].cuda = None
                      /\ new[k].cpu = None <=> x.chunk[k].cpu = None
  PROVE  /\ Sound(z) /\ z.accessed = x.accessed /\ z.works = x.works
         /\ \A k \in Keys : z.chunk[k] = IF k \in S THEN new[k] ELSE x.chunk[k]
<1>1. x \in Managers /\ x.total = Usage(x, Keys) /\ x.ok
      /\ x.accessed_mem = GroupSize * Cardinality(x.accessed)
  BY DEF Sound
<1>2. new \in [S -> ChunkRecords]
  <2>1. \A k \in S : new[k] \in ChunkRecords
    BY WellIsRecord
  <2> QED BY <2>1
<1>3. /\ z \in Managers /\ z.accessed = x.accessed /\ z.accessed_mem = x.accessed_mem
      /\ z.total = x.total /\ z.works = x.works /\ z.ok = x.ok
      /\ \A k \in Keys : z.chunk[k] = IF k \in S THEN new[k] ELSE x.chunk[k]
  <2>1. /\ Put(x, new) \in Managers
        /\ Put(x, new).accessed = x.accessed /\ Put(x, new).accessed_mem = x.accessed_mem
        /\ Put(x, new).total = x.total /\ Put(x, new).works = x.works
        /\ Put(x, new).ok = x.ok
        /\ \A k \in Keys : Put(x, new).chunk[k] = IF k \in S THEN new[k] ELSE x.chunk[k]
    <3>1. x \in Managers
      BY <1>1
    <3> QED BY ONLY <3>1, <1>2, S \in SUBSET Keys, PutFacts
  <2> QED BY <2>1, Zenon
<1>4. Usage(z, Keys) = Usage(x, Keys)
  <2>1. \A k \in Keys : /\ z.chunk[k].is_gathered = x.chunk[k].is_gathered
                        /\ z.chunk[k].cuda = None <=> x.chunk[k].cuda = None
                        /\ z.chunk[k].cpu = None <=> x.chunk[k].cpu = None
    BY <1>3
  <2>2. /\ {k \in Keys : z.chunk[k].is_gathered} = {k \in Keys : x.chunk[k].is_gathered}
        /\ {k \in Keys : z.chunk[k].cuda # None} = {k \in Keys : x.chunk[k].cuda # None}
        /\ {k \in Keys : z.chunk[k].cpu # None} = {k \in Keys : x.chunk[k].cpu # None}
    BY <2>1
  <2> QED BY <2>2 DEF Usage
<1>5. Sound(z)
  <2>1. \A k \in S : Well(k, z.chunk[k])
    BY <1>3
  <2>2. \A k \in S : ~Kept(k) => (z.chunk[k].is_gathered <=> k \in z.accessed)
    BY <1>3 DEF Sound
  <2>3. \A k \in Keys \ S : z.chunk[k] = x.chunk[k] /\ (k \in z.accessed <=> k \in x.accessed)
    BY <1>3
  <2>4. z.total = Usage(z, Keys) /\ z.ok /\ z.accessed_mem = GroupSize * Cardinality(z.accessed)
    BY <1>1, <1>3, <1>4
  <2>5. z \in Managers
    BY <1>3
  <2> QED BY ONLY Sound(x), S \in SUBSET Keys, <2>1, <2>2, <2>3, <2>4, <2>5, SoundParts
<1> QED BY <1>3, <1>5

\* From x to z, the chunks in S are replaced, with the accounts still right.
PutBack(x, S, new, z) ==
  /\ Sound(z) /\ z.accessed = x.accessed /\ z.works = x.works
  /\ \A k \in Keys : z.chunk[k] = IF k \in S THEN new[k] ELSE x.chunk[k]

\* The new chunks in S count for as much memory as the old.
Countable(x, S, new) ==
  \A k \in S : /\ Well(k, new[k]) /\ new[k].is_gathered = x.chunk[k].is_gathered
               /\ new[k].cuda = None <=> x.chunk[k].cuda = None
               /\ new[k].cpu = None <=> x.chunk[k].cpu = None

\* PutSound, in terms of PutBack.
LEMMA PutSoundly ==
  ASSUME NEW x, Sound(x), NEW S \in SUBSET Keys, NEW new, DOMAIN new = S,
         NEW z, z = Put(x, new), new = [k \in S |-> new[k]], Countable(x, S, new)
  PROVE  PutBack(x, S, new, z)
<1>1. \A k \in S : /\ Well(k, new[k]) /\ new[k].is_gathered = x.chunk[k].is_gathered
                   /\ new[k].cuda = None <=> x.chunk[k].cuda = None
                   /\ new[k].cpu = None <=> x.chunk[k].cpu = None
  BY DEF Countable
<1>2. /\ Sound(z) /\ z.accessed = x.accessed /\ z.works = x.works
      /\ \A k \in Keys : z.chunk[k] = IF k \in S THEN new[k] ELSE x.chunk[k]
  BY ONLY Sound(x), S \in SUBSET Keys, DOMAIN new = S, z = Put(x, new),
          new = [k \in S |-> new[k]], <1>1, PutSound
<1> QED BY <1>2 DEF PutBack

\* A change of state is no change of anything else.
LEMMA TransFacts ==
  ASSUME NEW k \in Keys, NEW c, Well(k, c), NEW P, NEW s \in States
  PROVE  LET d == Trans(c, P, s) IN
         /\ Well(k, d)
         /\ d.is_gathered = c.is_gathered /\ d.global = c.global /\ d.cuda = c.cuda
         /\ d.cpu = c.cpu /\ d.optim_sync = c.optim_sync /\ d.cpu_vis = c.cpu_vis
         /\ \A p \in InChunk(k) :
              d.state[p] = IF p \in P /\ <<c.state[p], s>> \in StateTrans THEN s ELSE c.state[p]
<1> DEFINE f == [p \in InChunk(k) |->
                   IF p \in P /\ <<c.state[p], s>> \in StateTrans THEN s ELSE c.state[p]]
           d == Trans(c, P, s)
<1>1. c \in ChunkType(k)
  BY DEF Well
<1>2. c.state \in [InChunk(k) -> States]
  BY <1>1 DEF ChunkType
<1>3. d = [c EXCEPT !.state = f]
  BY <1>2 DEF Trans
<1>4. f \in [InChunk(k) -> States]
  BY <1>2
<1>5. \A p \in InChunk(k) :
        f[p] = IF p \in P /\ <<c.state[p], s>> \in StateTrans THEN s ELSE c.state[p]
  OBVIOUS
<1> HIDE DEF f, d
<1>6. /\ d \in ChunkType(k) /\ d.state = f /\ d.ok = c.ok
      /\ d.is_gathered = c.is_gathered /\ d.global = c.global /\ d.cuda = c.cuda
      /\ d.cpu = c.cpu /\ d.optim_sync = c.optim_sync /\ d.cpu_vis = c.cpu_vis
  BY <1>1, <1>3, <1>4 DEF ChunkType
<1>7. Well(k, d)
  BY <1>6 DEF Well
<1> QED BY <1>5, <1>6, <1>7 DEF d

\* What a chunk holds does not depend on its state.
LEMMA SameContent ==
  ASSUME NEW k, NEW c, NEW d,
         d.is_gathered = c.is_gathered, d.global = c.global, d.cuda = c.cuda, d.cpu = c.cpu,
         d.optim_sync = c.optim_sync, d.cpu_vis = c.cpu_vis
  PROVE  /\ HoldsWeights(k, d) <=> HoldsWeights(k, c)
         /\ \A T : HoldsGrads(k, d, T) <=> HoldsGrads(k, c, T)
         /\ Device(d) = Device(c) /\ Payload(d) = Payload(c)
<1>1. Device(d) = Device(c) /\ Payload(d) = Payload(c)
  BY DEF Device, OnCuda, Payload
<1>2. HoldsWeights(k, d) <=> HoldsWeights(k, c)
  BY <1>1 DEF HoldsWeights
<1>3. \A T : HoldsGrads(k, d, T) <=> HoldsGrads(k, c, T)
  BY <1>1 DEF HoldsGrads
<1> QED BY <1>1, <1>2, <1>3

\* Kept chunks that are let go stay as they are.
LEMMA FakeReleaseFacts ==
  ASSUME NEW x, Sound(x), NEW S \in SUBSET x.accessed,
         \A k \in S : Kept(k) /\ AllIn(x.chunk[k], {"hold"})
  PROVE  LET z == FakeRelease(x, S) IN
         /\ Sound(z) /\ z.accessed = x.accessed \ S /\ z.works = x.works
         /\ \A k \in Keys : z.chunk[k] = x.chunk[k]
<1> DEFINE Checked(k, c) == Asserting(c, Kept(k) /\ AllIn(c, {"hold"}))
           new == [k \in S |-> Scatter(k, Checked(k, x.chunk[k]))]
           y == Put(x, new)
           z == SubAccessed(y, S)
<1>1. FakeRelease(x, S) = z
  BY DEF FakeRelease
<1>2. S \in SUBSET Keys
  BY DEF Sound, Managers
<1>3. \A k \in S : new[k] = x.chunk[k]
  BY DEF Asserting, Scatter
<1>4. DOMAIN new = S /\ new = [k \in S |-> new[k]]
  OBVIOUS
<1> HIDE DEF new
<1>5. /\ Sound(y) /\ y.accessed = x.accessed /\ y.works = x.works
      /\ \A k \in Keys : y.chunk[k] = IF k \in S THEN new[k] ELSE x.chunk[k]
  <2>1. \A k \in S : Well(k, new[k])
    BY <1>2, <1>3 DEF Sound
  <2>2. \A k \in S : /\ Well(k, new[k]) /\ new[k].is_gathered = x.chunk[k].is_gathered
                     /\ new[k].cuda = None <=> x.chunk[k].cuda = None
                     /\ new[k].cpu = None <=> x.chunk[k].cpu = None
    BY <1>3, <2>1
  <2>3. y = Put(x, new)
    OBVIOUS
  <2> HIDE DEF y
  <2> QED BY ONLY Sound(x), <1>2, <1>4, <2>2, <2>3, PutSound
<1> HIDE DEF y
<1>6. \A k \in Keys : y.chunk[k] = x.chunk[k]
  BY <1>3, <1>5
<1>7. /\ z \in Managers /\ z.chunk = y.chunk /\ z.total = y.total /\ z.works = y.works
      /\ z.ok = y.ok /\ z.accessed = y.accessed \ S
      /\ z.accessed_mem = GroupSize * Cardinality(z.accessed)
  <2>1. y \in Managers /\ y.accessed_mem = GroupSize * Cardinality(y.accessed)
        /\ S \in SUBSET y.accessed
    BY <1>5 DEF Sound
  <2> HIDE DEF z
  <2>2. /\ SubAccessed(y, S) \in Managers
        /\ SubAccessed(y, S).chunk = y.chunk /\ SubAccessed(y, S).total = y.total
        /\ SubAccessed(y, S).works = y.works /\ SubAccessed(y, S).ok = y.ok
        /\ SubAccessed(y, S).accessed = y.accessed \ S
        /\ SubAccessed(y, S).accessed_mem = GroupSize * Cardinality(y.accessed \ S)
    BY <2>1, SubAccessedFacts
  <2> QED BY <2>2 DEF z
<1> HIDE DEF z
<1>8. Usage(z, Keys) = Usage(y, Keys)
  BY <1>7 DEF Usage
<1>9. Sound(z)
  <2>1. z.total = Usage(z, Keys) /\ z.ok
    BY <1>5, <1>7, <1>8 DEF Sound
  <2>2. \A k \in S : Well(k, z.chunk[k])
    BY <1>2, <1>5, <1>7 DEF Sound
  <2>3. \A k \in Keys \ S : z.chunk[k] = y.chunk[k] /\ (k \in z.accessed <=> k \in y.accessed)
    BY <1>7
  <2> QED BY <1>2, <1>5, <1>7, <2>1, <2>2, <2>3, SoundParts
<1> QED BY <1>1, <1>5, <1>6, <1>7, <1>9

\* A chunk that is reduced holds in shards, or whole when it is kept, what it
\* held gathered.
LEMMA ReduceChunk ==
  ASSUME NEW k \in Keys, NEW c, Well(k, c), c.is_gathered, NEW d, d = Scatter(k, Reduced(k, c))
  PROVE  /\ Well(k, d) /\ d.optim_sync /\ Payload(d) = c.global
         /\ d.cpu_vis = c.cpu_vis /\ d.cpu = c.cpu
         /\ AllIn(d, {"hold"})
         /\ d.is_gathered <=> Kept(k)
<1> DEFINE h == [p \in InChunk(k) |-> "hold"]
           r == [c EXCEPT !.state = h]
<1>1. /\ c \in ChunkType(k) /\ c.ok /\ c.global # None /\ c.cuda = None /\ c.optim_sync
  BY DEF Well
<1>2. c.state \in [InChunk(k) -> States]
  BY <1>1 DEF ChunkType
<1>3. h \in [InChunk(k) -> States] /\ DOMAIN h = InChunk(k) /\ \A p \in InChunk(k) : h[p] = "hold"
  BY DEF States
<1>4. [Asserting(c, c.is_gathered) EXCEPT !.state = [p \in DOMAIN c.state |-> "hold"]] = r
  BY <1>2 DEF Asserting
<1> HIDE DEF h
<1>5. CASE Kept(k)
  <2>1. d = r
    BY <1>4, <1>5 DEF Reduced, Scatter
  <2>2. /\ d \in ChunkType(k) /\ d.ok /\ d.is_gathered /\ d.global = c.global /\ d.cuda = None
        /\ d.optim_sync /\ d.cpu_vis = c.cpu_vis /\ d.cpu = c.cpu /\ d.state = h
    BY <2>1, <1>1, <1>3 DEF ChunkType
  <2>3. Well(k, d)
    BY <2>2, <1>1 DEF Well
  <2>4. Payload(d) = c.global /\ AllIn(d, {"hold"})
    BY <2>2, <1>3 DEF Payload, AllIn
  <2> QED BY <1>5, <2>2, <2>3, <2>4
<1>6. CASE ~Kept(k)
  <2>1. Reduced(k, c) = [r EXCEPT !.cuda = c.global, !.global = None, !.is_gathered = FALSE]
    <3>1. r.global = c.global
      BY <1>1 DEF ChunkType
    <3> QED BY <1>4, <1>6, <3>1 DEF Reduced
  <2> DEFINE s == Reduced(k, c)
  <2>2. /\ s \in ChunkType(k) /\ s.ok /\ ~s.is_gathered /\ s.global = None /\ s.cuda = c.global
        /\ s.optim_sync /\ s.cpu_vis = c.cpu_vis /\ s.cpu = c.cpu /\ s.state = h
    BY <2>1, <1>1, <1>3 DEF ChunkType
  <2>3. d = s
    BY <2>2 DEF Scatter
  <2> HIDE DEF s
  <2>4. Well(k, d)
    BY <2>2, <2>3, <1>1, <1>6 DEF Well
  <2>5. Payload(d) = c.global /\ AllIn(d, {"hold"})
    BY <2>2, <2>3, <1>1, <1>3 DEF Payload, AllIn
  <2> QED BY <1>6, <2>2, <2>3, <2>4, <2>5
<1> QED BY <1>5, <1>6

\* reduce_chunk scatters the chunk and keeps what it holds in the shards.
LEMMA ReduceFacts ==
  ASSUME NEW x, Sound(x), NEW k \in x.accessed, x.chunk[k].is_gathered,
         NEW z, z = Reduce(x, k)
  PROVE  /\ Sound(z) /\ z.accessed = x.accessed \ {k} /\ z.works = x.works
         /\ \A j \in Keys \ {k} : z.chunk[j] = x.chunk[j]
         /\ z.chunk[k].optim_sync /\ Payload(z.chunk[k]) = x.chunk[k].global
         /\ z.chunk[k].cpu_vis = x.chunk[k].cpu_vis /\ z.chunk[k].cpu = x.chunk[k].cpu
         /\ AllIn(z.chunk[k], {"hold"})
         /\ z.chunk[k].is_gathered <=> Kept(k)
<1> DEFINE new == [j \in {k} |-> Scatter(j, Reduced(j, x.chunk[j]))]
           y == Metered(x, new)
           d == Scatter(k, Reduced(k, x.chunk[k]))
<1>1. z = SubAccessed(y, {k})
  BY DEF Reduce
<1>2. k \in Keys /\ x \in Managers /\ {k} \in SUBSET Keys /\ Well(k, x.chunk[k])
      /\ x.total = Usage(x, Keys) /\ x.accessed_mem = GroupSize * Cardinality(x.accessed) /\ x.ok
  BY DEF Sound, Managers
<1>3. new[k] = d
  OBVIOUS
<1>4. /\ Well(k, d) /\ d.optim_sync /\ Payload(d) = x.chunk[k].global
      /\ d.cpu_vis = x.chunk[k].cpu_vis /\ d.cpu = x.chunk[k].cpu
      /\ AllIn(d, {"hold"})
      /\ d.is_gathered <=> Kept(k)
  <2>1. PICK c : c = x.chunk[k]
    OBVIOUS
  <2>2. Well(k, c) /\ c.is_gathered /\ d = Scatter(k, Reduced(k, c))
    BY <1>2, <2>1
  <2> HIDE DEF d
  <2>3. /\ Well(k, d) /\ d.optim_sync /\ Payload(d) = c.global
        /\ d.cpu_vis = c.cpu_vis /\ d.cpu = c.cpu
        /\ AllIn(d, {"hold"})
        /\ d.is_gathered <=> Kept(k)
    BY ONLY <2>2, <1>2, ReduceChunk
  <2> QED BY <2>1, <2>3
<1>5. new \in [{k} -> ChunkRecords]
  BY <1>2, <1>3, <1>4, WellIsRecord
<1> HIDE DEF new, d
<1>6. /\ y \in Managers /\ y.accessed = x.accessed /\ y.accessed_mem = x.accessed_mem
      /\ y.works = x.works /\ y.ok = x.ok
      /\ \A j \in Keys : y.chunk[j] = IF j \in {k} THEN new[j] ELSE x.chunk[j]
      /\ y.total = Usage(y, Keys)
  <2> HIDE DEF y
  <2>1. PICK S \in SUBSET Keys : S = {k}
    BY <1>2
  <2>2. new \in [S -> ChunkRecords] /\ x \in Managers /\ x.total = Usage(x, Keys)
    BY <1>2, <1>5, <2>1
  <2>3. /\ Metered(x, new) \in Managers /\ Metered(x, new).accessed = x.accessed
        /\ Metered(x, new).accessed_mem = x.accessed_mem
        /\ Metered(x, new).works = x.works /\ Metered(x, new).ok = x.ok
        /\ \A j \in Keys :
             Metered(x, new).chunk[j] = IF j \in S THEN new[j] ELSE x.chunk[j]
        /\ Metered(x, new).total = Usage(Metered(x, new), Keys)
    BY ONLY <2>2, S \in SUBSET Keys, MeteredFacts
  <2> QED BY <2>1, <2>3 DEF y
<1> HIDE DEF y
<1>7. /\ z \in Managers /\ z.chunk = y.chunk /\ z.total = y.total /\ z.works = y.works
      /\ z.ok = y.ok /\ z.accessed = y.accessed \ {k}
      /\ z.accessed_mem = GroupSize * Cardinality(z.accessed)
  <2>1. y \in Managers /\ y.accessed_mem = GroupSize * Cardinality(y.accessed)
        /\ {k} \in SUBSET y.accessed
    BY <1>2, <1>6
  <2>2. /\ SubAccessed(y, {k}) \in Managers
        /\ SubAccessed(y, {k}).chunk = y.chunk /\ SubAccessed(y, {k}).total = y.total
        /\ SubAccessed(y, {k}).works = y.works /\ SubAccessed(y, {k}).ok = y.ok
        /\ SubAccessed(y, {k}).accessed = y.accessed \ {k}
        /\ SubAccessed(y, {k}).accessed_mem = GroupSize * Cardinality(y.accessed \ {k})
    BY ONLY <2>1, SubAccessedFacts
  <2> QED BY <1>1, <2>2
<1>8. Usage(z, Keys) = Usage(y, Keys)
  BY <1>7 DEF Usage
<1>9. z.chunk[k] = d /\ \A j \in Keys \ {k} : z.chunk[j] = x.chunk[j]
  BY <1>2, <1>3, <1>6, <1>7
<1>10. Sound(z)
  <2>1. z.total = Usage(z, Keys) /\ z.ok /\ z.accessed_mem = GroupSize * Cardinality(z.accessed)
    BY <1>2, <1>6, <1>7, <1>8
  <2>2. \A j \in {k} : Well(j, z.chunk[j])
    BY <1>4, <1>9
  <2>3. \A j \in {k} : ~Kept(j) => (z.chunk[j].is_gathered <=> j \in z.accessed)
    BY <1>4, <1>6, <1>7, <1>9
  <2>4. \A j \in Keys \ {k} : z.chunk[j] = x.chunk[j] /\ (j \in z.accessed <=> j \in x.accessed)
    BY <1>6, <1>7, <1>9
  <2>5. z \in Managers
    BY <1>7
  <2> QED BY ONLY Sound(x), <1>2, <2>1, <2>2, <2>3, <2>4, <2>5, SoundParts
<1> QED BY <1>4, <1>6, <1>7, <1>9, <1>10

\* A gradient buffer that is set up anew is gathered and empty.
LEMMA RenewedFacts ==
  ASSUME NEW g \in Keys, NEW c, Well(g, c), c.optim_sync, ~Kept(g), NEW d, d = Renewed(g, c)
  PROVE  /\ Well(g, d) /\ d.is_gathered /\ d.optim_sync /\ d.state = c.state
         /\ d.global = IF c.is_gathered THEN c.global ELSE Garbage(g)
<1> DEFINE gl == IF c.global = None THEN Garbage(g) ELSE c.global
           cp == IF cfg.pinned /\ ~Kept(g) /\ c.cpu = None THEN Garbage(g) ELSE c.cpu
<1>1. c \in ChunkType(g) /\ c.ok
  BY DEF Well
<1>2. Garbage(g) \in Contents(g) /\ Garbage(g) # None
  BY ValueFacts, NoneIsNoContent DEF Garbage
<1>3. d = [c EXCEPT !.is_gathered = TRUE, !.cuda = None, !.global = gl, !.cpu = cp]
  BY <1>1 DEF Renewed, ChunkType
<1>4. gl \in Contents(g) \cup {None} /\ cp \in Contents(g) \cup {None} /\ gl # None
  BY <1>1, <1>2 DEF ChunkType
<1>5. gl = IF c.is_gathered THEN c.global ELSE Garbage(g)
  BY DEF Well
<1> HIDE DEF gl, cp
<1>6. /\ d \in ChunkType(g) /\ d.is_gathered /\ d.cuda = None /\ d.global = gl
      /\ d.optim_sync /\ d.state = c.state /\ d.ok
  BY <1>1, <1>3, <1>4 DEF ChunkType
<1>7. Well(g, d)
  BY <1>4, <1>6 DEF Well
<1> QED BY <1>5, <1>6, <1>7

\* init_grad_chunk opens the buffer of k.
LEMMA InitGradFacts ==
  ASSUME NEW x, Sound(x), NEW k \in ParamKeys, NEW g, g = GradOf(k), ~Kept(k),
         x.chunk[g].optim_sync, NEW z, z = InitGradChunk(x, k)
  PROVE  /\ Sound(z) /\ z.accessed = x.accessed \cup {g} /\ z.works = x.works
         /\ \A j \in Keys \ {g} : z.chunk[j] = x.chunk[j]
         /\ z.chunk[g].is_gathered /\ z.chunk[g].optim_sync
         /\ z.chunk[g].state = x.chunk[g].state
         /\ z.chunk[g].global = IF x.chunk[g].is_gathered THEN x.chunk[g].global ELSE Garbage(g)
<1> DEFINE new == [j \in {g} |-> Renewed(j, x.chunk[j])]
           y == Metered(x, new)
           d == Renewed(g, x.chunk[g])
<1>1. z = IF g \in y.accessed THEN y ELSE AddAccessed(y, {g})
  BY DEF InitGradChunk
<1>2. g \in Keys /\ ~Kept(g)
  <2>1. PICK c \in Chunks : k = Param(c)
    BY DEF ParamKeys
  <2>2. g \in Keys /\ g[1] = c /\ k[1] = c
    BY <2>1, ParamFacts
  <2> QED BY <2>2 DEF Kept
<1>3. /\ x \in Managers /\ Well(g, x.chunk[g]) /\ x.total = Usage(x, Keys)
      /\ x.accessed_mem = GroupSize * Cardinality(x.accessed) /\ x.ok
      /\ x.accessed \in SUBSET Keys
  BY <1>2 DEF Sound, Managers
<1>4. new[g] = d
  OBVIOUS
<1>5. /\ Well(g, d) /\ d.is_gathered /\ d.optim_sync /\ d.state = x.chunk[g].state
      /\ d.global = IF x.chunk[g].is_gathered THEN x.chunk[g].global ELSE Garbage(g)
  <2>1. PICK c : c = x.chunk[g]
    OBVIOUS
  <2>2. Well(g, c) /\ c.optim_sync /\ d = Renewed(g, c)
    BY <1>3, <2>1
  <2> HIDE DEF d
  <2>3. /\ Well(g, d) /\ d.is_gathered /\ d.optim_sync /\ d.state = c.state
        /\ d.global = IF c.is_gathered THEN c.global ELSE Garbage(g)
    BY ONLY <2>2, <1>2, RenewedFacts
  <2> QED BY <2>1, <2>3
<1>6. new \in [{g} -> ChunkRecords]
  BY <1>2, <1>4, <1>5, WellIsRecord
<1> HIDE DEF new, d
<1>7. /\ y \in Managers /\ y.accessed = x.accessed /\ y.accessed_mem = x.accessed_mem
      /\ y.works = x.works /\ y.ok = x.ok
      /\ \A j \in Keys : y.chunk[j] = IF j \in {g} THEN new[j] ELSE x.chunk[j]
      /\ y.total = Usage(y, Keys)
  <2> HIDE DEF y
  <2>1. PICK S \in SUBSET Keys : S = {g}
    BY <1>2
  <2>2. new \in [S -> ChunkRecords] /\ x \in Managers /\ x.total = Usage(x, Keys)
    BY <1>3, <1>6, <2>1
  <2>3. /\ Metered(x, new) \in Managers /\ Metered(x, new).accessed = x.accessed
        /\ Metered(x, new).accessed_mem = x.accessed_mem
        /\ Metered(x, new).works = x.works /\ Metered(x, new).ok = x.ok
        /\ \A j \in Keys :
             Metered(x, new).chunk[j] = IF j \in S THEN new[j] ELSE x.chunk[j]
        /\ Metered(x, new).total = Usage(Metered(x, new), Keys)
    BY ONLY <2>2, S \in SUBSET Keys, MeteredFacts
  <2> QED BY <2>1, <2>3 DEF y
<1> HIDE DEF y
<1>8. /\ z \in Managers /\ z.chunk = y.chunk /\ z.total = y.total /\ z.works = y.works
      /\ z.ok = y.ok /\ z.accessed = y.accessed \cup {g}
      /\ z.accessed_mem = GroupSize * Cardinality(z.accessed)
  <2>1. y.accessed_mem = GroupSize * Cardinality(y.accessed)
    BY <1>3, <1>7
  <2>2. CASE g \in y.accessed
    <3>1. z = y /\ y.accessed \cup {g} = y.accessed
      BY <1>1, <2>2
    <3> QED BY <3>1, <1>7, <2>1
  <2>3. CASE g \notin y.accessed
    <3>1. z = AddAccessed(y, {g})
      BY <1>1, <2>3
    <3>2. y \in Managers /\ {g} \in SUBSET Keys /\ {g} \cap y.accessed = {}
          /\ y.accessed_mem = GroupSize * Cardinality(y.accessed)
      BY <1>2, <1>7, <2>1, <2>3
    <3>3. /\ AddAccessed(y, {g}) \in Managers
          /\ AddAccessed(y, {g}).chunk = y.chunk /\ AddAccessed(y, {g}).total = y.total
          /\ AddAccessed(y, {g}).works = y.works /\ AddAccessed(y, {g}).ok = y.ok
          /\ AddAccessed(y, {g}).accessed = y.accessed \cup {g}
          /\ AddAccessed(y, {g}).accessed_mem = GroupSize * Cardinality(y.accessed \cup {g})
      BY ONLY <3>2, AddAccessedFacts
    <3> QED BY <3>1, <3>3
  <2> QED BY <2>2, <2>3
<1>9. Usage(z, Keys) = Usage(y, Keys)
  BY <1>8 DEF Usage
<1>10. z.chunk[g] = d /\ \A j \in Keys \ {g} : z.chunk[j] = x.chunk[j]
  BY <1>2, <1>4, <1>7, <1>8
<1>11. Sound(z)
  <2>1. z.total = Usage(z, Keys) /\ z.ok /\ z.accessed_mem = GroupSize * Cardinality(z.accessed)
    BY <1>3, <1>7, <1>8, <1>9
  <2>2. \A j \in {g} : Well(j, z.chunk[j])
    BY <1>5, <1>10
  <2>3. \A j \in {g} : ~Kept(j) => (z.chunk[j].is_gathered <=> j \in z.accessed)
    BY <1>5, <1>8, <1>10
  <2>4. \A j \in Keys \ {g} : z.chunk[j] = x.chunk[j] /\ (j \in z.accessed <=> j \in x.accessed)
    BY <1>7, <1>8, <1>10
  <2>5. z \in Managers /\ {g} \in SUBSET Keys
    BY <1>2, <1>8
  <2> QED BY ONLY Sound(x), <2>1, <2>2, <2>3, <2>4, <2>5, SoundParts
<1> QED BY <1>5, <1>7, <1>8, <1>10, <1>11

\* A prefetched chunk is accessed, with its arrival possibly to wait for.
LEMMA PrefetchFacts ==
  ASSUME NEW x, Sound(x), version \in Nat, NEW Q \in SUBSET ParamKeys, Q \cap x.accessed = {},
         \A k \in Q : HoldsWeights(k, x.chunk[k]),
         x.works \subseteq x.accessed, NEW z, z = Prefetch(x, Q)
  PROVE  /\ Sound(z) /\ Carried(x, z)
         /\ z.accessed = x.accessed \cup Q
         /\ x.works \subseteq z.works /\ z.works \subseteq x.works \cup Q
         /\ \A k \in Q : z.chunk[k].is_gathered
         /\ \A k \in Keys \ Q : z.chunk[k] = x.chunk[k]
<1> DEFINE y == Access(x, Q)
           W == {k \in Q : ~x.chunk[k].is_gathered}
<1>1. /\ Sound(y) /\ Carried(x, y) /\ y.accessed = x.accessed \cup Q /\ y.works = x.works
      /\ \A k \in Q \ x.accessed : y.chunk[k].is_gathered
      /\ \A k \in Keys \ (Q \ x.accessed) : y.chunk[k] = x.chunk[k]
  <2>1. \A k \in Q \ x.accessed : HoldsWeights(k, x.chunk[k])
    OBVIOUS
  <2> HIDE DEF y
  <2>2. /\ Sound(Access(x, Q)) /\ Carried(x, Access(x, Q))
        /\ Access(x, Q).accessed = x.accessed \cup Q /\ Access(x, Q).works = x.works
        /\ \A k \in Q \ x.accessed : Access(x, Q).chunk[k].is_gathered
        /\ \A k \in Keys \ (Q \ x.accessed) : Access(x, Q).chunk[k] = x.chunk[k]
    BY ONLY <2>1, Sound(x), version \in Nat, Q \in SUBSET ParamKeys, AccessFacts
  <2> QED BY <2>2 DEF y
<1>2. Q \ x.accessed = Q /\ W \cap x.works = {}
  OBVIOUS
<1>3. W \in SUBSET Keys /\ W \subseteq Q
  BY ParamKeysAreKeys
<1>4. z = [y EXCEPT !.works = y.works \cup W]
  <2>1. z = [y EXCEPT !.works = @ \cup W]
    BY <1>2 DEF Prefetch, Asserting
  <2>2. y \in Managers
    BY <1>1 DEF Sound
  <2> HIDE DEF y, W
  <2> QED BY <2>1, <2>2 DEF Managers
<1> HIDE DEF y, W
<1>5. /\ z \in Managers /\ z.works = y.works \cup W /\ z.chunk = y.chunk
      /\ z.accessed = y.accessed /\ z.accessed_mem = y.accessed_mem /\ z.total = y.total
      /\ z.ok = y.ok
  <2>1. y \in Managers
    BY <1>1 DEF Sound
  <2> QED BY <1>3, <1>4, <2>1 DEF Managers
<1>6. Usage(z, Keys) = Usage(y, Keys)
  BY <1>5 DEF Usage
<1>7. Sound(z)
  BY <1>1, <1>5, <1>6 DEF Sound
<1>8. Carried(x, z)
  BY <1>1, <1>5 DEF Carried
<1> QED BY <1>1, <1>2, <1>3, <1>5, <1>7, <1>8

-----------------------------------------------------------------------------
(* Passes, steps and lists, whatever the chunks hold.                      *)

\* What goes wrong otherwise is in MCGemini.
Supported ==
  \A f \in Configs :
    /\ f.accumulate => /\ f.kept = {} /\ f.overflows = {} /\ ~f.margin
                       /\ f.infers # "midway"
    /\ f.infers \in {"scatters", "midway"} => f.prefetch = 0

\* Does an operator of the backward pass after the first n use p?
Later(p, n) == \E j \in n + 1 .. Len(Bwd) : p \in ToSet(Bwd[j])

\* Where the pass over the operators stands.
PassInv ==
  /\ cfg \in Configs /\ grads_device \in [Chunks -> {"cuda", "cpu"}]
  /\ \A c \in Chunks : c \in cfg.kept => grads_device[c] = "cuda"
  /\ phase \in {"idle", "forward", "backward", "inference", "all gathered"}
  /\ pos \in Nat /\ running \in BOOLEAN /\ hooks \subseteq Params
  /\ phase \in {"forward", "inference"} => pos <= Len(Fwd)
  /\ phase = "backward" => pos <= Len(Bwd)
  /\ running => /\ phase \in {"forward", "backward", "inference"} /\ hooks = {}
                /\ pos < Len(Ops)
  /\ hooks # {} => phase = "backward"
  /\ \A p \in hooks : ~Later(p, pos)

\* Which iterations have gone by since the last step.
IterationInv ==
  /\ accumulating \in BOOLEAN /\ (accumulating <=> cfg.accumulate /\ since # {})
  /\ overflow \in BOOLEAN /\ (cfg.accumulate => ~overflow /\ bad = {})
  /\ version \in Nat /\ iter \in 0 .. MaxIterations /\ since \subseteq 1 .. iter
  /\ phase \in {"forward", "backward"} => iter \in 1 .. MaxIterations /\ iter \notin since
  /\ ~cfg.accumulate /\ phase # "idle" => since = {}
  /\ phase \in {"inference", "all gathered"} => since = {}
  /\ phase = "inference" => cfg.prefetch = 0

\* The number of the last operator in the iteration, from 0.
Idx ==
  IF phase \in {"idle", "all gathered"} THEN -1
  ELSE (IF phase = "backward" THEN Len(Fwd) ELSE 0) + (IF running THEN pos ELSE pos - 1)

\* What the manager has recorded in the warmup iteration.
ListInv ==
  /\ manager = [warmup |-> manager.warmup, compute_list |-> manager.compute_list,
                compute_idx |-> manager.compute_idx, layout |-> manager.layout]
  /\ manager.warmup \in BOOLEAN /\ manager.compute_idx = Idx
  /\ manager.compute_list \in Seq(Seq(ParamKeys))
  /\ cfg.prefetch > 0 => Len(manager.compute_list) =
                           IF manager.warmup THEN Idx + 1 ELSE Len(Fwd) + Len(Bwd)
  /\ cfg.prefetch = 0 => manager.compute_list = <<>>
  /\ \A j \in Len(Fwd) + 1 .. Len(manager.compute_list) :
       manager.compute_list[j] = ChunksOf(Bwd[j - Len(Fwd)])

\* All that can be said without regard to the contents of chunks.
CoreInv == PassInv /\ IterationInv /\ ListInv

\* The operators, by number; every parameter has a use in the backward pass.
LEMMA OperatorFacts ==
  /\ Len(Fwd) \in Nat /\ Len(Bwd) \in Nat
  /\ \A j \in 1 .. Len(Fwd) : Fwd[j] \in Seq(Params)
  /\ \A j \in 1 .. Len(Bwd) : Bwd[j] \in Seq(Params)
  /\ \A p \in Params : Later(p, 0)
<1>1. Fwd \in Seq(Seq(Params)) /\ Bwd \in Seq(Seq(Params))
  BY GeminiAssumption
<1>2. \A p \in Params : \E j \in DOMAIN Bwd : p \in ToSet(Bwd[j])
  BY GeminiAssumption
<1>3. DOMAIN Bwd = 1 .. Len(Bwd)
  BY <1>1
<1>4. \A p \in Params : \E j \in 1 .. Len(Bwd) : p \in ToSet(Bwd[j])
  BY <1>2, <1>3
<1>5. 0 + 1 = 1
  OBVIOUS
<1>6. \A p \in Params : Later(p, 0)
  BY <1>4, <1>5 DEF Later
<1> QED BY <1>1, <1>6

\* The set of what a sequence holds.
LEMMA SetOfSeq ==
  ASSUME NEW S, NEW s \in Seq(S)
  PROVE  ToSet(s) \subseteq S /\ ToSet(s) = {s[i] : i \in 1 .. Len(s)}
BY DEF ToSet

\* The chunks of an operator are those of its parameters.
LEMMA ChunksOfFacts ==
  ASSUME NEW ps \in Seq(Params)
  PROVE  /\ ChunksOf(ps) \in Seq(ParamKeys)
         /\ ToSet(ChunksOf(ps)) = {Param(ChunkOf[p]) : p \in ToSet(ps)}
<1>1. DOMAIN ps = 1 .. Len(ps) /\ Len(ps) \in Nat
  OBVIOUS
<1>2. \A i \in 1 .. Len(ps) : Param(ChunkOf[ps[i]]) \in ParamKeys
  BY MemberFacts, ParamFacts
<1>3. ChunksOf(ps) = [i \in 1 .. Len(ps) |-> Param(ChunkOf[ps[i]])]
  BY <1>1 DEF ChunksOf
<1>4. ChunksOf(ps) \in Seq(ParamKeys) /\ Len(ChunksOf(ps)) = Len(ps)
  BY <1>1, <1>2, <1>3
<1>5. \A i \in 1 .. Len(ps) : ChunksOf(ps)[i] = Param(ChunkOf[ps[i]])
  BY <1>3
<1>6. /\ ToSet(ChunksOf(ps)) = {ChunksOf(ps)[i] : i \in 1 .. Len(ps)}
      /\ ToSet(ps) = {ps[i] : i \in 1 .. Len(ps)}
  BY <1>4, SetOfSeq
<1> QED BY <1>4, <1>5, <1>6

\* The operator that is run or is next.
LEMMA CurrentFacts ==
  ASSUME PassInv, phase \in {"forward", "backward", "inference"}, pos < Len(Ops)
  PROVE  /\ Current \in Seq(Params) /\ ToSet(Current) \subseteq Params
         /\ Ops = IF phase = "backward" THEN Bwd ELSE Fwd
         /\ \A p \in ToSet(Current) : phase = "backward" => Later(p, pos)
         /\ ToSet(ChunksOf(Current)) = {Param(ChunkOf[p]) : p \in ToSet(Current)}
         /\ ChunksOf(Current) \in Seq(ParamKeys)
<1>1. pos \in Nat
  BY DEF PassInv
<1>2. CASE phase = "backward"
  <2>1. Ops = Bwd /\ pos + 1 \in 1 .. Len(Bwd) /\ pos + 1 \in pos + 1 .. Len(Bwd)
    BY <1>1, <1>2, OperatorFacts DEF Ops
  <2>2. Current = Bwd[pos + 1] /\ Current \in Seq(Params)
    BY <2>1, OperatorFacts DEF Current
  <2>3. \A p \in ToSet(Current) : Later(p, pos)
    BY <2>1, <2>2 DEF Later
  <2> QED BY <1>2, <2>1, <2>2, <2>3, SetOfSeq, ChunksOfFacts
<1>3. CASE phase # "backward"
  <2>1. Ops = Fwd /\ pos + 1 \in 1 .. Len(Fwd)
    BY <1>1, <1>3, OperatorFacts DEF Ops
  <2>2. Current \in Seq(Params)
    BY <2>1, OperatorFacts DEF Current
  <2> QED BY <1>3, <2>1, <2>2, SetOfSeq, ChunksOfFacts
<1> QED BY <1>2, <1>3

\* The core of the invariant holds at first.
LEMMA CoreInit ==
  ASSUME Init
  PROVE  CoreInv
<1>1. PassInv
  <2>1. cfg \in Configs /\ grads_device \in [Chunks -> {"cuda", "cpu"}]
        /\ \A c \in Chunks : c \in cfg.kept => grads_device[c] = "cuda"
    BY DEF Init
  <2>2. phase = "idle" /\ pos = 0 /\ running = FALSE /\ hooks = {}
    BY DEF Init
  <2> QED BY <2>1, <2>2 DEF PassInv
<1>2. IterationInv
  <2>1. /\ accumulating = FALSE /\ overflow = FALSE /\ version = 0 /\ iter = 0 /\ since = {}
        /\ bad = {} /\ phase = "idle"
    BY DEF Init
  <2>2. version \in Nat /\ iter \in 0 .. MaxIterations /\ since \subseteq 1 .. iter
    BY <2>1, GeminiAssumption
  <2>3. /\ accumulating \in BOOLEAN /\ (accumulating <=> cfg.accumulate /\ since # {})
        /\ overflow \in BOOLEAN /\ (cfg.accumulate => ~overflow /\ bad = {})
    BY <2>1
  <2> QED BY <2>1, <2>2, <2>3 DEF IterationInv
<1>3. ListInv
  <2>1. manager = [warmup |-> TRUE, compute_list |-> <<>>, compute_idx |-> -1, layout |-> <<>>]
        /\ phase = "idle"
    BY DEF Init
  <2>2. Idx = -1
    BY <2>1 DEF Idx
  <2> QED BY <2>1, <2>2, OperatorFacts DEF ListInv
<1> QED BY <1>1, <1>2, <1>3 DEF CoreInv

\* Arithmetic of a position and the next.
LEMMA NextPosition ==
  ASSUME NEW n \in Nat
  PROVE  /\ (n + 1) + 1 = n + 2 /\ n + 1 \in Nat
         /\ \A l \in Nat : n < l => n + 1 <= l
OBVIOUS

\* Every step keeps PassInv.
LEMMA PassNext ==
  ASSUME PassInv, [Next]_vars
  PROVE  PassInv'
<1> USE DEF PassInv
<1>1. CASE PreOp
  <2>1. /\ phase \in {"forward", "backward", "inference"} /\ ~running /\ hooks = {}
        /\ pos < Len(Ops) /\ running' = TRUE
        /\ UNCHANGED <<cfg, grads_device, phase, pos, hooks>>
    BY <1>1 DEF PreOp
  <2>2. Ops' = Ops
    BY <2>1 DEF Ops
  <2> QED BY <2>1, <2>2
<1>2. CASE PostOp
  <2>1. /\ running /\ running' = FALSE /\ pos' = pos + 1
        /\ hooks' = IF phase = "backward" THEN {p \in ToSet(Current) : LastUse(p)} ELSE {}
        /\ UNCHANGED <<cfg, grads_device, phase>>
    BY <1>2 DEF PostOp
  <2>2. /\ ToSet(Current) \subseteq Params /\ pos < Len(Ops)
        /\ Ops = IF phase = "backward" THEN Bwd ELSE Fwd
    BY <2>1, CurrentFacts
  <2>0. pos \in Nat
    OBVIOUS
  <2>3. /\ (pos + 1) + 1 = pos + 2 /\ pos + 1 \in Nat
        /\ \A l \in Nat : pos < l => pos + 1 <= l
    BY ONLY <2>0, NextPosition
  <2>4. \A p \in hooks' : ~Later(p, pos + 1)
    BY <2>1, <2>3 DEF LastUse, Later
  <2>5. \A p \in hooks' : ~Later(p, pos)'
    BY <2>1, <2>4 DEF Later
  <2>6. hooks' \subseteq Params /\ (hooks' # {} => phase = "backward")
    BY <2>1, <2>2
  <2>7. /\ pos' \in Nat /\ (phase \in {"forward", "inference"} => pos' <= Len(Fwd))
        /\ (phase = "backward" => pos' <= Len(Bwd))
    <3>1. /\ phase \in {"forward", "inference"} => pos < Len(Fwd)
          /\ phase = "backward" => pos < Len(Bwd)
      BY <2>2
    <3>2. Len(Fwd) \in Nat /\ Len(Bwd) \in Nat
      BY OperatorFacts
    <3>3. pos' = pos + 1
      BY <2>1
    <3> QED BY ONLY <2>3, <3>1, <3>2, <3>3
  <2> QED BY <2>1, <2>5, <2>6, <2>7
<1>3. ASSUME NEW p \in Params, GradHandle(p) PROVE PassInv'
  <2>1. /\ p \in hooks /\ hooks' = hooks \ {p}
        /\ UNCHANGED <<cfg, grads_device, phase, pos, running>>
    BY <1>3 DEF GradHandle
  <2>2. \A q : Later(q, pos)' <=> Later(q, pos)
    BY <2>1 DEF Later
  <2> QED BY <2>1, <2>2
<1>4. CASE StartForward
  <2>1. /\ phase = "idle" /\ phase' = "forward" /\ pos' = 0
        /\ UNCHANGED <<cfg, grads_device, running, hooks>>
    BY <1>4 DEF StartForward, Start
  <2> QED BY <2>1, OperatorFacts
<1>5. CASE StartBackward
  <2>1. /\ phase = "forward" /\ ~running /\ phase' = "backward" /\ pos' = 0
        /\ UNCHANGED <<cfg, grads_device, running, hooks>>
    BY <1>5 DEF StartBackward
  <2>2. hooks' = {} /\ running' = FALSE
    BY <2>1
  <2>3. 0 \in Nat /\ 0 <= Len(Fwd) /\ 0 <= Len(Bwd)
    BY ONLY OperatorFacts
  <2> QED BY <2>1, <2>2, <2>3
<1>6. CASE PostBackward
  <2>1. /\ phase = "backward" /\ ~running /\ hooks = {} /\ phase' = "idle"
        /\ UNCHANGED <<cfg, grads_device, pos, running, hooks>>
    BY <1>6 DEF PostBackward
  <2> QED BY <2>1
<1>7. CASE StartInference
  <2>1. /\ phase = "idle" /\ phase' \in {"inference", "all gathered"} /\ pos' = 0
        /\ UNCHANGED <<cfg, grads_device, running, hooks>>
    BY <1>7 DEF StartInference, Start
  <2>2. hooks' = {} /\ running' = FALSE
    BY <2>1
  <2>3. 0 \in Nat /\ 0 <= Len(Fwd) /\ 0 <= Len(Bwd)
    BY ONLY OperatorFacts
  <2> QED BY <2>1, <2>2, <2>3
<1>8. CASE EndInference
  <2>1. /\ phase \in {"inference", "all gathered"} /\ ~running /\ phase' = "idle"
        /\ UNCHANGED <<cfg, grads_device, pos, running, hooks>>
    BY <1>8 DEF EndInference
  <2> QED BY <2>1
<1>9. CASE Step
  <2>1. PICK X \in ToMove :
          grads_device' = [c \in Chunks |-> IF c \in X THEN "cuda" ELSE grads_device[c]]
    BY <1>9 DEF Step
  <2>2. phase = "idle" /\ UNCHANGED <<cfg, phase, pos, running, hooks>>
    BY <1>9 DEF Step
  <2>3. /\ grads_device' \in [Chunks -> {"cuda", "cpu"}]
        /\ \A c \in Chunks : c \in cfg.kept => grads_device'[c] = "cuda"
    BY <2>1
  <2> QED BY <2>2, <2>3
<1>10. CASE UNCHANGED vars
  <2>1. UNCHANGED <<cfg, grads_device, phase, pos, running, hooks>>
    BY <1>10 DEF vars
  <2>2. Ops' = Ops /\ \A q : Later(q, pos)' <=> Later(q, pos)
    BY <2>1 DEF Ops, Later
  <2> QED BY <2>1, <2>2
<1> QED BY <1>1, <1>2, <1>3, <1>4, <1>5, <1>6, <1>7, <1>8, <1>9, <1>10 DEF Next

\* Every step keeps IterationInv: with Supported, nothing overflows while
\* gradients are accumulated, and nothing is prefetched in inference.
LEMMA IterationNext ==
  ASSUME Supported, PassInv, IterationInv, [Next]_vars
  PROVE  IterationInv'
<1> USE DEF IterationInv
<1>0. cfg \in Configs
  BY DEF PassInv
<1>1. ASSUME UNCHANGED <<cfg, phase, accumulating, overflow, version, iter, since, bad>>
      PROVE  IterationInv'
  BY <1>1
<1>2. ASSUME NEW p \in Params, GradHandle(p) PROVE IterationInv'
  <2>1. /\ p \in hooks
        /\ UNCHANGED <<cfg, phase, accumulating, version, iter, since, bad>>
    BY <1>2 DEF GradHandle
  <2>2. overflow' \in BOOLEAN /\ (bad = {} /\ ~overflow => ~overflow')
    <3> DEFINE k == Param(ChunkOf[p])
               g == GradKey(k)
               x == Asserting(m, m.chunk[k].state[p] = "hold_after_bwd")
               y == Stored(IF cfg.accumulate THEN Prepared(x, k, p) ELSE x, g, p)
               c == Reduce(y, g).chunk[g]
    <3>1. overflow' = (overflow \/ HasInf(c)) \/ overflow' = overflow
      BY <1>2 DEF GradHandle
    <3> HIDE DEF c
    <3>2. HasInf(c) \in BOOLEAN /\ (bad = {} => ~HasInf(c))
      BY DEF HasInf
    <3>3. overflow \in BOOLEAN
      OBVIOUS
    <3>4. CASE overflow' = overflow
      BY <3>3, <3>4
    <3>5. CASE overflow' = (overflow \/ HasInf(c))
      <4>1. (overflow \/ HasInf(c)) \in BOOLEAN
        OBVIOUS
      <4>2. bad = {} /\ ~overflow => ~(overflow \/ HasInf(c))
        BY <3>2
      <4> QED BY ONLY <3>5, <4>1, <4>2
    <3> QED BY <3>1, <3>4, <3>5
  <2> QED BY <2>1, <2>2
<1>3. CASE StartForward
  <2>1. /\ iter < MaxIterations /\ phase = "idle" /\ (since # {} => cfg.accumulate)
        /\ phase' = "forward" /\ iter' = iter + 1
        /\ UNCHANGED <<cfg, accumulating, overflow, version, since>>
    BY <1>3 DEF StartForward, Start
  <2>2. PICK S \in {{}, cfg.overflows} : bad' = bad \cup {<<iter', p>> : p \in S}
    BY <1>3 DEF StartForward
  <2>3. cfg.accumulate => bad' = {}
    BY <1>0, <2>2 DEF Supported
  <2>4. iter' \in 1 .. MaxIterations /\ since \subseteq 1 .. iter' /\ iter' \notin since
    BY <2>1, GeminiAssumption
  <2> QED BY <2>1, <2>3, <2>4
<1>4. CASE StartBackward
  <2>1. /\ phase = "forward" /\ phase' = "backward"
        /\ UNCHANGED <<cfg, accumulating, overflow, version, iter, since, bad>>
    BY <1>4 DEF StartBackward
  <2> QED BY <2>1
<1>5. CASE PostBackward
  <2>1. /\ phase = "backward" /\ phase' = "idle" /\ accumulating' = cfg.accumulate
        /\ since' = since \cup {iter}
        /\ UNCHANGED <<cfg, overflow, version, iter, bad>>
    BY <1>5 DEF PostBackward
  <2>2. cfg.accumulate \in BOOLEAN
    BY <1>0, GeminiAssumption
  <2>3. since' \subseteq 1 .. iter /\ since' # {}
    BY <2>1
  <2> QED BY <2>1, <2>2, <2>3
<1>6. CASE StartInference
  <2>1. /\ phase = "idle"
        /\ \/ /\ cfg.infers \in {"scatters", "midway"} /\ phase' = "inference"
              /\ since # {} => cfg.accumulate /\ cfg.infers = "midway"
           \/ phase' = "all gathered" /\ since = {}
        /\ UNCHANGED <<cfg, accumulating, overflow, version, iter, since, bad>>
    BY <1>6 DEF StartInference, Start
  <2>2. cfg.infers \in {"scatters", "midway"} => cfg.prefetch = 0
    BY <1>0 DEF Supported
  <2>3. ~(cfg.accumulate /\ cfg.infers = "midway")
    BY <1>0 DEF Supported
  <2> QED BY <2>1, <2>2, <2>3
<1>7. CASE EndInference
  <2>1. /\ phase \in {"inference", "all gathered"} /\ phase' = "idle"
        /\ UNCHANGED <<cfg, accumulating, overflow, version, iter, since, bad>>
    BY <1>7 DEF EndInference
  <2> QED BY <2>1
<1>8. CASE Step
  <2>1. /\ phase = "idle" /\ since # {} /\ overflow' = FALSE /\ since' = {}
        /\ UNCHANGED <<cfg, phase, iter, bad>>
        /\ \/ overflow /\ UNCHANGED <<version, accumulating>>
           \/ version' = version + 1 /\ accumulating' = FALSE
    BY <1>8 DEF Step
  <2>2. accumulating' = FALSE /\ version' \in Nat
    BY <2>1
  <2> QED BY <2>1, <2>2
<1>9. PreOp => UNCHANGED <<cfg, phase, accumulating, overflow, version, iter, since, bad>>
  BY DEF PreOp
<1>10. PostOp => UNCHANGED <<cfg, phase, accumulating, overflow, version, iter, since, bad>>
  BY DEF PostOp
<1>11. UNCHANGED vars => UNCHANGED <<cfg, phase, accumulating, overflow, version, iter, since, bad>>
  BY DEF vars
<1> QED BY <1>1, <1>2, <1>3, <1>4, <1>5, <1>6, <1>7, <1>8, <1>9, <1>10, <1>11 DEF Next

\* Every step keeps ListInv.
LEMMA ListNext ==
  ASSUME PassInv, IterationInv, ListInv, [Next]_vars
  PROVE  ListInv'
<1>0. /\ manager = [warmup |-> manager.warmup, compute_list |-> manager.compute_list,
                    compute_idx |-> manager.compute_idx, layout |-> manager.layout]
      /\ manager.warmup \in BOOLEAN /\ manager.compute_idx = Idx
      /\ manager.compute_list \in Seq(Seq(ParamKeys))
  BY DEF ListInv
<1>1. ASSUME UNCHANGED <<cfg, manager>>, Idx' = Idx
      PROVE  ListInv'
  BY <1>1 DEF ListInv, ChunksOf
<1>2. CASE PreOp
  <2> DEFINE ks == ChunksOf(Current)
             e == [manager EXCEPT !.compute_idx = @ + 1,
                     !.compute_list = IF manager.warmup /\ cfg.prefetch > 0
                                        THEN Append(@, ks) ELSE @]
  <2>1. /\ phase \in {"forward", "backward", "inference"} /\ ~running /\ hooks = {}
        /\ pos < Len(Ops) /\ running' = TRUE /\ UNCHANGED <<cfg, phase, pos>>
    BY <1>2 DEF PreOp
  <2>2. /\ manager'.compute_idx = manager.compute_idx + 1
        /\ manager'.warmup = manager.warmup
        /\ manager'.compute_list = IF manager.warmup /\ cfg.prefetch > 0
                                     THEN Append(manager.compute_list, ks)
                                     ELSE manager.compute_list
        /\ manager' = [warmup |-> manager'.warmup, compute_list |-> manager'.compute_list,
                       compute_idx |-> manager'.compute_idx, layout |-> manager'.layout]
    <3>1. \E may :
            manager' = [manager EXCEPT
             !.compute_idx = @ + 1,
             !.compute_list = IF manager.warmup /\ cfg.prefetch > 0
                                THEN Append(@, ks) ELSE @,
             !.layout = [l \in DOMAIN @ \cup {LayoutKey(ks)} |->
                           IF l = LayoutKey(ks) THEN may ELSE @[l]]]
      BY <1>2 DEF PreOp
    <3> HIDE DEF ks
    <3> QED BY <3>1, <1>0
  <2>3. pos \in Nat /\ Len(Fwd) \in Nat
    BY OperatorFacts DEF PassInv
  <2>4. Idx' = Idx + 1
    <3>1. Idx = (IF phase = "backward" THEN Len(Fwd) ELSE 0) + (pos - 1)
      BY <2>1 DEF Idx
    <3>2. Idx' = (IF phase = "backward" THEN Len(Fwd) ELSE 0) + pos
      BY <2>1 DEF Idx
    <3> QED BY ONLY <2>3, <3>1, <3>2
  <2>5. CASE manager.warmup /\ cfg.prefetch > 0
    <3>1. /\ manager'.compute_list = Append(manager.compute_list, ks)
          /\ Len(manager.compute_list) = Idx + 1
      BY <2>2, <2>5 DEF ListInv
    <3>2. ks \in Seq(ParamKeys)
      BY <2>1, CurrentFacts
    <3> HIDE DEF ks
    <3>3. /\ manager'.compute_list \in Seq(Seq(ParamKeys))
          /\ Len(manager'.compute_list) = Len(manager.compute_list) + 1
          /\ \A j \in 1 .. Len(manager.compute_list) :
               manager'.compute_list[j] = manager.compute_list[j]
          /\ manager'.compute_list[Len(manager.compute_list) + 1] = ks
      BY <1>0, <3>1, <3>2
    <3>4. \A j \in Len(Fwd) + 1 .. Len(manager'.compute_list) :
            manager'.compute_list[j] = ChunksOf(Bwd[j - Len(Fwd)])
      <4> SUFFICES ASSUME NEW j \in Len(Fwd) + 1 .. Len(manager'.compute_list)
                   PROVE  manager'.compute_list[j] = ChunksOf(Bwd[j - Len(Fwd)])
        OBVIOUS
      <4>1. Len(manager.compute_list) \in Nat
        BY <1>0
      <4>2. j \in Len(Fwd) + 1 .. Len(manager.compute_list) \/ j = Len(manager.compute_list) + 1
        BY ONLY <2>3, <3>3, <4>1, j \in Len(Fwd) + 1 .. Len(manager'.compute_list)
      <4>3. CASE j \in Len(Fwd) + 1 .. Len(manager.compute_list)
        <5>1. j \in 1 .. Len(manager.compute_list)
          BY ONLY <2>3, <4>1, <4>3
        <5>2. manager.compute_list[j] = ChunksOf(Bwd[j - Len(Fwd)])
          BY <4>3 DEF ListInv
        <5> QED BY <3>3, <5>1, <5>2
      <4>4. CASE j = Len(manager.compute_list) + 1
        <5>1. phase = "backward"
          <6>1. CASE phase # "backward"
            <7>1. Ops = Fwd
              BY <6>1 DEF Ops
            <7>2. pos < Len(Fwd)
              BY <2>1, <7>1
            <7>3. Idx = 0 + (pos - 1)
              BY <2>1, <6>1 DEF Idx
            <7>4. j >= Len(Fwd) + 1
              BY <2>3, <4>1
            <7> QED BY ONLY <2>3, <3>1, <4>1, <4>4, <7>2, <7>3, <7>4
          <6> QED BY <6>1
        <5>2. Idx = Len(Fwd) + (pos - 1)
          BY <2>1, <5>1 DEF Idx
        <5>3. j - Len(Fwd) = pos + 1
          BY ONLY <2>3, <3>1, <4>1, <4>4, <5>2
        <5>4. ks = ChunksOf(Bwd[pos + 1])
          BY <5>1 DEF ks, Current, Ops
        <5> QED BY <3>3, <4>4, <5>3, <5>4
      <4> QED BY <4>2, <4>3, <4>4
    <3>5. Len(manager'.compute_list) = Idx' + 1
      BY <2>4, <3>1, <3>3
    <3>6. Idx' = manager'.compute_idx
      BY <1>0, <2>2, <2>4
    <3>7. cfg.prefetch # 0
      BY <2>5
    <3> QED BY <1>0, <2>1, <2>2, <2>5, <3>3, <3>4, <3>5, <3>6, <3>7 DEF ListInv, ChunksOf
  <2>6. CASE ~(manager.warmup /\ cfg.prefetch > 0)
    <3>1. manager'.compute_list = manager.compute_list
      BY <2>2, <2>6
    <3>2. Idx' = manager'.compute_idx
      BY <1>0, <2>2, <2>4
    <3>3. cfg.prefetch > 0 => ~manager.warmup
      BY <2>6
    <3> QED BY <1>0, <2>1, <2>2, <3>1, <3>2, <3>3 DEF ListInv, ChunksOf
  <2> QED BY <2>5, <2>6
<1>3. CASE PostOp
  <2>1. /\ running /\ running' = FALSE /\ pos' = pos + 1 /\ UNCHANGED <<cfg, phase, manager>>
        /\ pos \in Nat
    BY <1>3 DEF PostOp, PassInv
  <2>2. pos' - 1 = pos
    BY ONLY <2>1
  <2>3. Idx' = Idx
    BY <2>1, <2>2 DEF Idx
  <2> QED BY <1>1, <2>1, <2>3
<1>4. ASSUME NEW p \in Params, GradHandle(p) PROVE ListInv'
  <2>1. UNCHANGED <<cfg, phase, pos, running, manager>>
    BY <1>4 DEF GradHandle
  <2> QED BY <1>1, <2>1 DEF Idx
<1>5. CASE StartForward
  <2>1. /\ phase = "idle" /\ phase' = "forward" /\ pos' = 0 /\ UNCHANGED <<cfg, running, manager>>
        /\ ~running
    BY <1>5 DEF StartForward, Start, PassInv
  <2>2. Idx = -1 /\ Idx' = 0 + (0 - 1)
    BY <2>1 DEF Idx
  <2> QED BY <1>1, <2>1, <2>2
<1>6. CASE StartBackward
  <2>1. /\ phase = "forward" /\ phase' = "backward" /\ pos = Len(Fwd) /\ pos' = 0 /\ ~running
        /\ UNCHANGED <<cfg, running, manager>>
    BY <1>6 DEF StartBackward
  <2>2. Idx = 0 + (Len(Fwd) - 1) /\ Idx' = Len(Fwd) + (0 - 1) /\ Len(Fwd) \in Nat
    BY <2>1, OperatorFacts DEF Idx
  <2>3. Idx' = Idx
    BY ONLY <2>2
  <2> QED BY <1>1, <2>1, <2>3
<1>7. CASE PostBackward
  <2>1. /\ phase = "backward" /\ pos = Len(Bwd) /\ ~running /\ phase' = "idle"
        /\ manager' = [manager EXCEPT !.warmup = FALSE, !.compute_idx = -1]
        /\ UNCHANGED <<cfg, pos, running>>
    BY <1>7 DEF PostBackward
  <2>2. /\ manager'.compute_idx = -1 /\ manager'.warmup = FALSE
        /\ manager'.compute_list = manager.compute_list
        /\ manager' = [warmup |-> manager'.warmup, compute_list |-> manager'.compute_list,
                       compute_idx |-> manager'.compute_idx, layout |-> manager'.layout]
    BY <1>0, <2>1
  <2>3. Idx' = -1 /\ Idx = Len(Fwd) + (Len(Bwd) - 1) /\ Len(Fwd) \in Nat /\ Len(Bwd) \in Nat
    BY <2>1, OperatorFacts DEF Idx
  <2>4. cfg.prefetch > 0 => Len(manager.compute_list) = Len(Fwd) + Len(Bwd)
    <3>1. Idx + 1 = Len(Fwd) + Len(Bwd)
      BY ONLY <2>3
    <3> QED BY <3>1 DEF ListInv
  <2> QED BY <1>0, <2>1, <2>2, <2>3, <2>4 DEF ListInv, ChunksOf
<1>8. CASE StartInference
  <2>1. /\ phase = "idle" /\ phase' \in {"inference", "all gathered"} /\ pos' = 0
        /\ UNCHANGED <<cfg, running, manager>> /\ ~running
    BY <1>8 DEF StartInference, Start, PassInv
  <2>2. Idx = -1 /\ (Idx' = 0 + (0 - 1) \/ Idx' = -1)
    BY <2>1 DEF Idx
  <2>3. Idx' = Idx
    BY ONLY <2>2
  <2> QED BY <1>1, <2>1, <2>3
<1>9. CASE EndInference
  <2>1. /\ phase \in {"inference", "all gathered"} /\ phase' = "idle"
        /\ manager' = [manager EXCEPT !.compute_idx = -1] /\ UNCHANGED cfg
    BY <1>9 DEF EndInference
  <2>2. /\ manager'.compute_idx = -1 /\ manager'.warmup = manager.warmup
        /\ manager'.compute_list = manager.compute_list
        /\ manager' = [warmup |-> manager'.warmup, compute_list |-> manager'.compute_list,
                       compute_idx |-> manager'.compute_idx, layout |-> manager'.layout]
    BY <1>0, <2>1
  <2>3. Idx' = -1
    BY <2>1 DEF Idx
  <2>4. cfg.prefetch > 0 => Idx = -1
    <3>1. phase = "inference" => ~(cfg.prefetch > 0)
      <4>1. phase = "inference" => cfg.prefetch = 0
        BY DEF IterationInv
      <4> QED BY ONLY <4>1
    <3>2. phase = "all gathered" => Idx = -1
      BY DEF Idx
    <3> QED BY <2>1, <3>1, <3>2
  <2> QED BY <1>0, <2>1, <2>2, <2>3, <2>4 DEF ListInv, ChunksOf
<1>10. CASE Step
  <2>1. UNCHANGED <<cfg, phase, pos, running, manager>>
    BY <1>10 DEF Step
  <2> QED BY <1>1, <2>1 DEF Idx
<1>11. CASE UNCHANGED vars
  <2>1. UNCHANGED <<cfg, phase, pos, running, manager>>
    BY <1>11 DEF vars
  <2> QED BY <1>1, <2>1 DEF Idx
<1> QED BY <1>2, <1>3, <1>4, <1>5, <1>6, <1>7, <1>8, <1>9, <1>10, <1>11 DEF Next

-----------------------------------------------------------------------------
(* What the chunks hold in the course of an iteration.                     *)

\* The gradient of p in this backward pass is still to come.
Pending(p) == p \in hooks \/ Later(p, pos)
Begun(k)   == phase = "backward" /\ \E p \in InChunk(k) : ~Pending(p)
Over(k)    == phase = "backward" /\ \A p \in InChunk(k) : ~Pending(p)
Settled(k) == Over(k) \/ (phase = "idle" /\ since # {})
Total      == IF phase = "backward" THEN since \cup {iter} ELSE since
Active(p)  == running /\ p \in ToSet(Current)

\* The state of a tensor of weights, in each part of an iteration.
StateInv(k, p, s) ==
  /\ Active(p) => s = "compute"
  /\ ~Active(p) /\ phase # "backward" => s = "hold"
  /\ p \in hooks => s = "hold_after_bwd"
  /\ ~Active(p) /\ phase = "backward" /\ Pending(p) => s \in {"hold", "hold_after_bwd"}
  /\ phase = "backward" /\ ~Pending(p) =>
       s = IF cfg.accumulate \/ Over(k) THEN "hold" ELSE "ready"

\* Weights that the gradients are replacing one by one.
Mixed(k) == [p \in InChunk(k) |-> IF Pending(p) THEN Weight(version)
                                  ELSE Grad(Indicator(Total))]

\* What a chunk of weights holds: the weights, without accumulation until the
\* gradients replace them.
ParamInv(k) ==
  /\ \A p \in InChunk(k) : StateInv(k, p, m.chunk[k].state[p])
  /\ cfg.accumulate \/ ~(Begun(k) \/ Settled(k)) => HoldsWeights(k, m.chunk[k])
  /\ ~cfg.accumulate /\ Settled(k) => HoldsGrads(k, m.chunk[k], Total)
  /\ ~cfg.accumulate /\ Begun(k) /\ ~Over(k) =>
       k \in m.accessed /\ m.chunk[k].is_gathered /\ m.chunk[k].global = Mixed(k)
  /\ Settled(k) => k \notin m.accessed /\ Device(m.chunk[k]) = grads_device[k[1]]

\* A buffer of gradients: in use, and put away with the iterations T in it.
InUse(g, c) ==
  \A p \in InChunk(g) :
    /\ Pending(p) => c.state[p] = "hold" /\ (since # {} => c.global[p] = Grad(Indicator(since)))
    /\ ~Pending(p) => c.state[p] = "ready" /\ c.global[p] = Grad(Indicator(Total))

\* The iterations whose gradients a buffer has in it when it is put away.
Summed(g) == IF Over(g) THEN Total ELSE since

\* What a buffer of gradients holds.
GradInv(g) ==
  /\ m.chunk[g].optim_sync
  /\ g \in m.accessed <=> cfg.accumulate /\ Begun(g) /\ ~Over(g)
  /\ cfg.accumulate /\ Begun(g) /\ ~Over(g) => InUse(g, m.chunk[g])
  /\ cfg.accumulate /\ ~(Begun(g) /\ ~Over(g)) => AllIn(m.chunk[g], {"hold"})
  /\ cfg.accumulate /\ ~(Begun(g) /\ ~Over(g)) /\ Summed(g) # {} =>
       HoldsGrads(g, m.chunk[g], Summed(g)) /\ Device(m.chunk[g]) = grads_device[g[1]]

\* The chunk of p is gathered and has arrived.
InHand(p) == Param(ChunkOf[p]) \in m.accessed \ m.works
\* What has been prefetched and not been waited for.
WorksInv ==
  /\ m.works \subseteq m.accessed \cap ParamKeys
  /\ cfg.prefetch = 0 \/ phase \in {"idle", "all gathered"} => m.works = {}
  /\ \A p \in hooks : InHand(p)
  /\ running => \A p \in ToSet(Current) : InHand(p)
  /\ phase = "all gathered" => ParamKeys \subseteq m.accessed

\* What adjust_layout has noted for an operator of the backward pass has still
\* a gradient to come by then.
LayoutInv ==
  \A l \in DOMAIN manager.layout :
    /\ manager.layout[l] \subseteq ParamKeys
    /\ l[1] >= Len(Fwd) =>
         \A k \in manager.layout[l] : \E p \in InChunk(k) : Later(p, l[1] - Len(Fwd))

\* All that is said of contents.
ContentInv ==
  /\ WorksInv /\ LayoutInv
  /\ \A k \in ParamKeys : ParamInv(k)
  /\ \A g \in Keys \ ParamKeys : GradInv(g)

\* The inductive invariant.
IInv == CoreInv /\ Sound(m) /\ ContentInv

\* The two differ in nothing but states.
SameData(c, d) ==
  /\ d.is_gathered = c.is_gathered /\ d.global = c.global /\ d.cuda = c.cuda /\ d.cpu = c.cpu
  /\ d.optim_sync = c.optim_sync /\ d.cpu_vis = c.cpu_vis

\* While its parameters stay, being in order is a matter of the chunk alone.
LEMMA PrimedContents ==
  ASSUME UNCHANGED <<cfg, grads_device, version>>
  PROVE  /\ Sound(m') => Sound(m)'
         /\ \A k, c : HoldsWeights(k, c)' <=> HoldsWeights(k, c)
BY DEF Sound, Well, Kept, HoldsWeights

\* The keys that an operator's hooks move about.
Loose == {k \in ParamKeys : ~Settled(k) /\ (cfg.accumulate \/ ~Begun(k))}

\* While no gradient comes, no chunk gets further in the backward pass.
LEMMA SameStatus ==
  ASSUME NEW k, UNCHANGED <<phase, since, iter>>,
         phase = "backward" => \A p \in InChunk(k) : Pending(p)' <=> Pending(p)
  PROVE  /\ Begun(k)' <=> Begun(k)
         /\ Over(k)' <=> Over(k)
         /\ Settled(k)' <=> Settled(k)
         /\ Total' = Total /\ Summed(k)' = Summed(k)
<1>1. /\ Begun(k)' <=> Begun(k)
      /\ Over(k)' <=> Over(k)
  BY DEF Begun, Over
<1>2. Total' = Total
  BY DEF Total
<1>3. Settled(k)' <=> Settled(k)
  BY <1>1 DEF Settled
<1>4. Summed(k)' = Summed(k)
  BY <1>1, <1>2 DEF Summed
<1> QED BY <1>1, <1>2, <1>3, <1>4

\* A chunk with all its gradients has one.
LEMMA OverIsBegun ==
  ASSUME NEW k \in Keys, Over(k)
  PROVE  Begun(k)
BY InChunkFacts DEF Over, Begun

\* When a step keeps what ParamInv says of a chunk.
LEMMA ParamKept ==
  ASSUME NEW k \in ParamKeys, ParamInv(k),
         UNCHANGED <<cfg, grads_device, version, phase, since, iter>>,
         phase = "backward" => \A p \in InChunk(k) : Pending(p)' <=> Pending(p),
         \A p \in InChunk(k) : StateInv(k, p, m.chunk[k].state[p])',
         HoldsWeights(k, m.chunk[k]) => HoldsWeights(k, m'.chunk[k]),
         k \notin Loose => /\ SameData(m.chunk[k], m'.chunk[k])
                           /\ k \in m'.accessed <=> k \in m.accessed
  PROVE  ParamInv(k)'
<1>1. /\ Begun(k)' <=> Begun(k)
      /\ Over(k)' <=> Over(k)
      /\ Settled(k)' <=> Settled(k)
      /\ Total' = Total
  BY SameStatus
<1>2. cfg.accumulate' = cfg.accumulate /\ grads_device'[k[1]] = grads_device[k[1]]
  OBVIOUS
<1>3. HoldsWeights(k, m.chunk[k])' <=> HoldsWeights(k, m'.chunk[k])
  BY DEF HoldsWeights
<1>4. (cfg.accumulate \/ ~(Begun(k) \/ Settled(k)) => HoldsWeights(k, m.chunk[k]))'
  BY <1>1, <1>2, <1>3 DEF ParamInv
<1>5. CASE k \in Loose
  <2>1. ~Settled(k) /\ (cfg.accumulate \/ ~Begun(k))
    BY <1>5 DEF Loose
  <2> QED BY <1>1, <1>2, <1>4, <2>1 DEF ParamInv
<1>6. CASE k \notin Loose
  <2>1. /\ SameData(m.chunk[k], m'.chunk[k])
        /\ k \in m'.accessed <=> k \in m.accessed
    BY <1>6
  <2>2. /\ \A T : HoldsGrads(k, m'.chunk[k], T) <=> HoldsGrads(k, m.chunk[k], T)
        /\ Device(m'.chunk[k]) = Device(m.chunk[k])
    BY <2>1, SameContent DEF SameData
  <2>3. Begun(k) => Mixed(k)' = Mixed(k)
    BY <1>1 DEF Mixed, Begun
  <2>4. (~cfg.accumulate /\ Settled(k) => HoldsGrads(k, m.chunk[k], Total))'
    <3>1. HoldsGrads(k, m.chunk[k], Total)' <=> HoldsGrads(k, m'.chunk[k], Total)
      BY <1>1 DEF HoldsGrads
    <3> QED BY <1>1, <1>2, <2>2, <3>1 DEF ParamInv
  <2>5. (~cfg.accumulate /\ Begun(k) /\ ~Over(k) =>
           k \in m.accessed /\ m.chunk[k].is_gathered /\ m.chunk[k].global = Mixed(k))'
    BY <1>1, <1>2, <2>1, <2>3 DEF ParamInv, SameData
  <2>6. (Settled(k) => k \notin m.accessed /\ Device(m.chunk[k]) = grads_device[k[1]])'
    <3>1. Device(m.chunk[k])' = Device(m'.chunk[k])
      BY DEF Device, OnCuda
    <3> QED BY <1>1, <1>2, <2>1, <2>2, <3>1 DEF ParamInv
  <2> QED BY <1>4, <2>4, <2>5, <2>6 DEF ParamInv
<1> QED BY <1>5, <1>6

\* When a step keeps what GradInv says of a buffer.
LEMMA GradKept ==
  ASSUME NEW g \in Keys \ ParamKeys, GradInv(g),
         UNCHANGED <<cfg, grads_device, phase, since, iter>>,
         phase = "backward" => \A p \in InChunk(g) : Pending(p)' <=> Pending(p),
         m'.chunk[g] = m.chunk[g], g \in m'.accessed <=> g \in m.accessed
  PROVE  GradInv(g)'
<1>1. /\ Begun(g)' <=> Begun(g)
      /\ Over(g)' <=> Over(g)
      /\ Total' = Total /\ Summed(g)' = Summed(g)
  BY SameStatus
<1>2. cfg.accumulate' = cfg.accumulate /\ grads_device'[g[1]] = grads_device[g[1]]
  OBVIOUS
<1>3. Begun(g) => (InUse(g, m.chunk[g])' <=> InUse(g, m.chunk[g]))
  BY <1>1 DEF InUse, Begun
<1>4. HoldsGrads(g, m.chunk[g], Summed(g))' <=> HoldsGrads(g, m.chunk[g], Summed(g))
  BY <1>1 DEF HoldsGrads
<1>5. Device(m.chunk[g])' = Device(m.chunk[g]) /\ (AllIn(m.chunk[g], {"hold"})' <=> AllIn(m.chunk[g], {"hold"}))
  BY DEF Device, OnCuda, AllIn
<1> QED BY <1>1, <1>2, <1>3, <1>4, <1>5 DEF GradInv

-----------------------------------------------------------------------------
(* The hook before an operator.                                            *)

\* Chunks of weights that may be wanted, or evicted.
Eligible(k) == k \in ParamKeys /\ (phase = "backward" => \E p \in InChunk(k) : Later(p, pos))

\* A chunk that may be wanted or evicted holds the weights, or takes gradients
\* in and cannot be let go.
LEMMA EligibleFacts ==
  ASSUME IInv, NEW k, Eligible(k), phase \in {"forward", "backward", "inference"}
  PROVE  /\ k \in ParamKeys /\ k \in Keys
         /\ k \in Loose => HoldsWeights(k, m.chunk[k])
         /\ k \notin Loose =>
              /\ k \in m.accessed /\ m.chunk[k].is_gathered
              /\ \E p \in InChunk(k) : m.chunk[k].state[p] = "ready" /\ ~Pending(p)
              /\ ~cfg.accumulate /\ Begun(k) /\ ~Settled(k)
<1>1. k \in ParamKeys /\ k \in Keys /\ ParamInv(k)
  BY ParamKeysAreKeys DEF Eligible, IInv, ContentInv
<1>2. ~Over(k) /\ ~Settled(k)
  BY DEF Eligible, Over, Pending, Settled
<1>3. k \in Loose => HoldsWeights(k, m.chunk[k])
  BY <1>1, <1>2 DEF Loose, ParamInv
<1>4. ASSUME k \notin Loose
      PROVE  /\ k \in m.accessed /\ m.chunk[k].is_gathered
             /\ \E p \in InChunk(k) : m.chunk[k].state[p] = "ready" /\ ~Pending(p)
             /\ ~cfg.accumulate /\ Begun(k) /\ ~Settled(k)
  <2>1. ~cfg.accumulate /\ Begun(k)
    BY <1>1, <1>2, <1>4 DEF Loose
  <2>2. k \in m.accessed /\ m.chunk[k].is_gathered
    BY <1>1, <1>2, <2>1 DEF ParamInv
  <2>3. PICK p \in InChunk(k) : ~Pending(p)
    BY <2>1 DEF Begun
  <2>4. phase = "backward" /\ StateInv(k, p, m.chunk[k].state[p])
    BY <1>1, <2>1 DEF Begun, ParamInv
  <2>5. m.chunk[k].state[p] = "ready"
    BY <1>2, <2>1, <2>3, <2>4 DEF StateInv
  <2> QED BY <1>2, <2>1, <2>2, <2>3, <2>5
<1> QED BY <1>1, <1>3, <1>4

\* The states as PreOp sets them, before any chunk moves.
LEMMA ComputingFacts ==
  ASSUME IInv, phase \in {"forward", "backward", "inference"}, ~running, hooks = {},
         pos < Len(Ops), NEW K, K = ToSet(ChunksOf(Current)),
         NEW x, x = Put([m EXCEPT !.works = @ \ K],
                        [k \in K |-> Trans(m.chunk[k], ToSet(Current), "compute")])
  PROVE  /\ Sound(x) /\ x.accessed = m.accessed /\ x.works = m.works \ K
         /\ \A k \in K : Eligible(k)
         /\ \A k \in Keys : SameData(m.chunk[k], x.chunk[k])
         /\ \A k \in Keys \ ParamKeys : x.chunk[k] = m.chunk[k]
         /\ \A k \in ParamKeys : \A p \in InChunk(k) :
              x.chunk[k].state[p] = IF p \in ToSet(Current) THEN "compute" ELSE m.chunk[k].state[p]
         /\ \A k \in K : ~CanRelease(k, x.chunk[k])
<1> DEFINE w == [m EXCEPT !.works = @ \ K]
           new == [k \in K |-> Trans(m.chunk[k], ToSet(Current), "compute")]
<1>1. /\ PassInv /\ Sound(m) /\ \A k \in ParamKeys : ParamInv(k)
  BY DEF IInv, CoreInv, ContentInv
<1>2. /\ ToSet(Current) \subseteq Params
      /\ \A p \in ToSet(Current) : phase = "backward" => Later(p, pos)
      /\ K = {Param(ChunkOf[p]) : p \in ToSet(Current)}
  BY <1>1, CurrentFacts
<1>3. \A k \in K : Eligible(k) /\ k \in ParamKeys /\ k \in Keys
  <2> SUFFICES ASSUME NEW k \in K PROVE Eligible(k) /\ k \in ParamKeys /\ k \in Keys
    OBVIOUS
  <2>1. PICK p \in ToSet(Current) : k = Param(ChunkOf[p])
    BY <1>2
  <2>2. p \in Params /\ ChunkOf[p] \in Chunks /\ p \in InChunk(k)
    BY <1>2, <2>1, MemberFacts
  <2>3. k \in ParamKeys /\ k \in Keys
    BY <2>1, <2>2, ParamFacts
  <2> QED BY <1>2, <2>2, <2>3 DEF Eligible
<1>4. /\ w \in Managers /\ w.chunk = m.chunk /\ w.accessed = m.accessed
      /\ w.accessed_mem = m.accessed_mem /\ w.total = m.total /\ w.ok = m.ok
      /\ w.works = m.works \ K
  BY <1>1 DEF Sound, Managers
<1> HIDE DEF w
<1>5. Usage(w, Keys) = Usage(m, Keys)
  BY <1>4 DEF Usage
<1>6. Sound(w)
  BY <1>1, <1>4, <1>5 DEF Sound
<1>7. ASSUME NEW k \in K
      PROVE  /\ Well(k, new[k]) /\ SameData(m.chunk[k], new[k])
             /\ \A p \in InChunk(k) :
                  new[k].state[p] = IF p \in ToSet(Current) /\ <<m.chunk[k].state[p], "compute">> \in StateTrans
                                      THEN "compute" ELSE m.chunk[k].state[p]
  <2>1. Well(k, m.chunk[k]) /\ k \in Keys
    BY <1>1, <1>3 DEF Sound
  <2>2. new[k] = Trans(m.chunk[k], ToSet(Current), "compute")
    OBVIOUS
  <2>3. "compute" \in States
    BY DEF States
  <2> HIDE DEF new
  <2> QED BY <2>1, <2>2, <2>3, TransFacts DEF SameData
<1>8. DOMAIN new = K /\ new = [k \in K |-> new[k]]
  OBVIOUS
<1>9. x = Put(w, new)
  BY DEF w
<1> HIDE DEF new
<1>10. /\ Sound(x) /\ x.accessed = w.accessed /\ x.works = w.works
       /\ \A k \in Keys : x.chunk[k] = IF k \in K THEN new[k] ELSE w.chunk[k]
  <2>1. \A k \in K : /\ Well(k, new[k]) /\ new[k].is_gathered = w.chunk[k].is_gathered
                     /\ new[k].cuda = None <=> w.chunk[k].cuda = None
                     /\ new[k].cpu = None <=> w.chunk[k].cpu = None
    BY <1>4, <1>7 DEF SameData
  <2>2. K \in SUBSET Keys
    BY <1>3
  <2> QED BY ONLY <1>6, <1>8, <1>9, <2>1, <2>2, PutSound
<1>15. /\ \A k \in K : x.chunk[k] = new[k]
       /\ \A k \in Keys \ K : x.chunk[k] = m.chunk[k]
  BY <1>3, <1>4, <1>10
<1>11. \A k \in Keys : SameData(m.chunk[k], x.chunk[k])
  <2>1. \A c : SameData(c, c)
    BY DEF SameData
  <2> QED BY ONLY <1>7, <1>15, <2>1
<1>12. ASSUME NEW k \in ParamKeys, NEW p \in InChunk(k)
       PROVE  x.chunk[k].state[p] =
                IF p \in ToSet(Current) THEN "compute" ELSE m.chunk[k].state[p]
  <2>1. k \in Keys /\ p \in Params /\ k = Param(ChunkOf[p])
    BY ParamKeysAreKeys, InChunkFacts, MemberFacts
  <2>2. CASE p \notin ToSet(Current)
    <3>1. CASE k \in K
      <4>1. new[k].state[p] = m.chunk[k].state[p] /\ x.chunk[k] = new[k]
        BY <1>7, <1>15, <2>2, <3>1
      <4> QED BY <2>2, <4>1
    <3>2. CASE k \notin K
      BY <1>15, <2>1, <2>2, <3>2
    <3> QED BY <3>1, <3>2
  <2>3. CASE p \in ToSet(Current)
    <3>1. k \in K
      BY <1>2, <2>1, <2>3
    <3>2. m.chunk[k].state[p] \in {"hold", "hold_after_bwd"}
      <4>1. StateInv(k, p, m.chunk[k].state[p]) /\ ~Active(p)
        BY <1>1 DEF ParamInv, Active
      <4>2. phase = "backward" => Pending(p)
        BY <1>2, <2>3 DEF Pending
      <4> QED BY <4>1, <4>2 DEF StateInv
    <3>3. <<m.chunk[k].state[p], "compute">> \in StateTrans
      BY <3>2 DEF StateTrans
    <3>4. x.chunk[k] = new[k]
      BY <1>10, <2>1, <3>1
    <3> QED BY <1>7, <2>3, <3>1, <3>3, <3>4
  <2> QED BY <2>2, <2>3
<1>13. ASSUME NEW k \in K PROVE ~CanRelease(k, x.chunk[k])
  <2>1. PICK p \in ToSet(Current) : k = Param(ChunkOf[p])
    BY <1>2
  <2>2. p \in InChunk(k) /\ k \in ParamKeys /\ k \in Keys
    BY <1>2, <1>3, <2>1, MemberFacts
  <2>3. x.chunk[k].state[p] = "compute"
    BY <1>12, <2>2
  <2>4. Well(k, x.chunk[k])
    BY <1>10, <2>2 DEF Sound
  <2>5. p \in DOMAIN x.chunk[k].state
    BY <2>2, <2>4 DEF Well, ChunkType
  <2> QED BY <2>3, <2>5 DEF CanRelease, AllIn
<1>14. \A k \in Keys \ ParamKeys : x.chunk[k] = m.chunk[k]
  BY <1>3, <1>15
<1>16. x.accessed = m.accessed /\ x.works = m.works \ K
  BY <1>4, <1>10
<1> QED BY <1>3, <1>10, <1>11, <1>12, <1>13, <1>14, <1>16

\* What the hook before an operator on K makes of x.
Fetched(K, x, z, Q) ==
  /\ Sound(z) /\ Carried(x, z)
  /\ z.works \subseteq z.accessed \cap ParamKeys /\ z.works \subseteq x.works \cup Q
  /\ K \subseteq z.accessed /\ K \cap z.works = {}
  /\ \A k \in Keys \ Loose : z.chunk[k] = x.chunk[k]
  /\ \A k \in Keys \ Loose : k \in z.accessed <=> k \in x.accessed

\* The chunks that an operator evicts, fetches and prefetches are loose ones,
\* and hold the weights.
LEMMA MovedFacts ==
  ASSUME IInv, phase \in {"forward", "backward", "inference"}, version \in Nat,
         NEW K, \A k \in K : Eligible(k),
         NEW x, Sound(x), x.accessed = m.accessed, x.works = m.works \ K,
         \A k \in Keys : SameData(m.chunk[k], x.chunk[k]),
         \A k \in ParamKeys : \A p \in InChunk(k) :
           phase = "backward" /\ ~Pending(p) => x.chunk[k].state[p] = m.chunk[k].state[p],
         \A k \in K : ~CanRelease(k, x.chunk[k]),
         NEW R, \A k \in R : Eligible(k) /\ k \notin x.works, NEW T \in SUBSET R,
         NEW y, y = Access(Evict(x, R, T), K \ m.works),
         NEW Q, \A k \in Q : Eligible(k) /\ k \notin y.accessed,
         NEW z, z = Prefetch(y, Q)
  PROVE  Fetched(K, x, z, Q)
<1> DEFINE a == Release(x, R)
           b == Move(a, T, Everywhere("cpu"), FALSE)
           RR == {k \in R \cap x.accessed : CanRelease(k, x.chunk[k])}
           TT == Shifted(a, T, Everywhere("cpu"))
           S == K \ m.works
<1>1. ASSUME NEW k, Eligible(k)
      PROVE  /\ k \in ParamKeys /\ k \in Keys
             /\ k \in Loose => HoldsWeights(k, x.chunk[k])
             /\ k \notin Loose => k \in x.accessed /\ x.chunk[k].is_gathered
                                  /\ ~CanRelease(k, x.chunk[k])
  <2>1. /\ k \in ParamKeys /\ k \in Keys
        /\ k \in Loose => HoldsWeights(k, m.chunk[k])
        /\ k \notin Loose =>
              /\ k \in m.accessed /\ m.chunk[k].is_gathered
              /\ \E p \in InChunk(k) : m.chunk[k].state[p] = "ready" /\ ~Pending(p)
              /\ phase = "backward"
    BY <1>1, EligibleFacts DEF Begun
  <2>2. SameData(m.chunk[k], x.chunk[k])
    BY <2>1
  <2>3. k \in Loose => HoldsWeights(k, x.chunk[k])
    BY <2>1, <2>2, SameContent DEF SameData
  <2>4. ASSUME k \notin Loose PROVE ~CanRelease(k, x.chunk[k])
    <3>1. PICK p \in InChunk(k) : x.chunk[k].state[p] = "ready"
      BY <2>1, <2>4
    <3>2. p \in DOMAIN x.chunk[k].state
      BY <2>1 DEF Sound, Well, ChunkType
    <3> QED BY <3>1, <3>2 DEF CanRelease, AllIn
  <2> QED BY <2>1, <2>2, <2>3, <2>4 DEF SameData
<1>2. /\ R \in SUBSET Keys /\ T \in SUBSET Keys /\ K \subseteq ParamKeys /\ K \subseteq Keys
      /\ Q \in SUBSET ParamKeys
  BY <1>1
<1>3. /\ RR \subseteq Loose /\ RR \cap K = {}
      /\ \A k \in RR : HoldsWeights(k, x.chunk[k])
  BY <1>1
<1>4. /\ Sound(a) /\ Carried(x, a) /\ a.accessed = x.accessed \ RR /\ a.works = x.works
      /\ \A k \in Keys \ RR : a.chunk[k] = x.chunk[k]
  <2>1. RR = {k \in R \cap x.accessed : CanRelease(k, x.chunk[k])}
    OBVIOUS
  <2> HIDE DEF RR, a
  <2>2. /\ Sound(Release(x, R)) /\ Carried(x, Release(x, R))
        /\ Release(x, R).accessed = x.accessed \ RR /\ Release(x, R).works = x.works
        /\ \A k \in Keys \ RR : Release(x, R).chunk[k] = x.chunk[k]
    BY ONLY <1>2, <1>3, <2>1, Sound(x), version \in Nat, ReleaseFacts
  <2> QED BY <2>2 DEF a
<1> HIDE DEF a, RR
<1>5. /\ TT \subseteq Loose /\ \A k \in TT : HoldsWeights(k, a.chunk[k])
  <2> SUFFICES ASSUME NEW k \in TT PROVE k \in Loose /\ HoldsWeights(k, a.chunk[k])
    OBVIOUS
  <2>1. Eligible(k) /\ k \in Keys /\ ~a.chunk[k].is_gathered
    BY <1>1 DEF Shifted
  <2>2. k \in Loose
    <3>1. CASE k \notin Loose
      <4>1. a.chunk[k] = x.chunk[k]
        BY <1>3, <1>4, <2>1, <3>1
      <4> QED BY <1>1, <2>1, <3>1, <4>1
    <3> QED BY <3>1
  <2> QED BY <1>1, <1>4, <2>1, <2>2 DEF Carried
<1>6. /\ Sound(b) /\ Carried(a, b) /\ b.accessed = a.accessed /\ b.works = a.works
      /\ \A k \in Keys \ TT : b.chunk[k] = a.chunk[k]
  <2>1. TT = Shifted(a, T, Everywhere("cpu"))
    OBVIOUS
  <2>2. Everywhere("cpu") \in [Chunks -> {"cuda", "cpu"}]
    BY DEF Everywhere
  <2>3. PICK dev : dev = Everywhere("cpu")
    OBVIOUS
  <2>4. /\ TT = Shifted(a, T, dev)
        /\ dev \in [Chunks -> {"cuda", "cpu"}]
    BY <2>1, <2>2, <2>3
  <2>7. PICK force \in BOOLEAN : force = FALSE
    OBVIOUS
  <2>5. b = Move(a, T, dev, force)
    BY <2>3, <2>7
  <2> HIDE DEF TT, b
  <2>6. T \in SUBSET Keys /\ Sound(a)
    BY <1>2, <1>4
  <2>8. PICK G : G = {}
    OBVIOUS
  <2>9. Keeps(a, TT, dev, force, G)
    BY <1>5 DEF Keeps
  <2>10. Moved(a, b, T, TT, dev, force, G)
    BY ONLY <2>4, <2>5, <2>6, <2>9, version \in Nat, force \in BOOLEAN, MoveFacts
  <2> QED BY ONLY <2>10 DEF Moved
<1> HIDE DEF b, TT
<1>7. /\ Carried(x, b) /\ b.accessed = x.accessed \ RR /\ b.works = x.works
      /\ \A k \in Keys \ Loose : b.chunk[k] = x.chunk[k]
  BY <1>3, <1>4, <1>5, <1>6 DEF Carried
<1>8. y = Access(b, S)
  BY DEF a, b, Evict
<1>9. /\ S \in SUBSET ParamKeys /\ S \ b.accessed \subseteq Loose
      /\ \A k \in S \ b.accessed : HoldsWeights(k, b.chunk[k])
  <2> SUFFICES ASSUME NEW k \in S \ b.accessed PROVE k \in Loose /\ HoldsWeights(k, b.chunk[k])
    BY <1>2
  <2>1. k \in K /\ Eligible(k) /\ k \in Keys
    BY <1>2
  <2>2. k \in Loose
    <3>1. k \notin x.accessed
      BY <1>3, <1>7, <2>1
    <3> QED BY <1>1, <2>1, <3>1
  <2> QED BY <1>1, <1>7, <2>1, <2>2 DEF Carried
<1>10. /\ Sound(y) /\ Carried(b, y) /\ y.accessed = b.accessed \cup S /\ y.works = b.works
       /\ \A k \in Keys \ (S \ b.accessed) : y.chunk[k] = b.chunk[k]
  <2> HIDE DEF S
  <2>1. /\ Sound(Access(b, S)) /\ Carried(b, Access(b, S))
        /\ Access(b, S).accessed = b.accessed \cup S /\ Access(b, S).works = b.works
        /\ \A k \in Keys \ (S \ b.accessed) : Access(b, S).chunk[k] = b.chunk[k]
    BY ONLY <1>6, <1>9, version \in Nat, AccessFacts
  <2> QED BY ONLY <1>8, <2>1
<1>11. /\ m.works \subseteq m.accessed \cap ParamKeys
  BY DEF IInv, ContentInv, WorksInv
<1>12. K \subseteq y.accessed /\ y.works \subseteq y.accessed \cap ParamKeys
  <2>1. K \subseteq y.accessed
    <3> SUFFICES ASSUME NEW k \in K, k \in m.works PROVE k \in y.accessed
      BY <1>10
    <3>1. k \in x.accessed /\ k \notin RR
      BY <1>3, <1>11
    <3> QED BY <1>7, <1>10, <3>1
  <2>2. y.works = x.works /\ x.works \cap RR = {}
    BY <1>7, <1>10 DEF RR
  <2>3. x.works \subseteq y.accessed
    BY <1>7, <1>10, <1>11, <2>2
  <2> QED BY <1>11, <2>1, <2>2, <2>3
<1>13. Q \subseteq Loose /\ \A k \in Q : HoldsWeights(k, y.chunk[k])
  <2> SUFFICES ASSUME NEW k \in Q PROVE k \in Loose /\ HoldsWeights(k, y.chunk[k])
    OBVIOUS
  <2>1. Eligible(k) /\ k \notin y.accessed /\ k \in Keys
    BY <1>1
  <2>2. k \in Loose
    <3>1. CASE k \notin Loose
      <4>1. k \in x.accessed /\ k \notin RR
        BY <1>1, <1>3, <2>1, <3>1
      <4> QED BY <1>7, <1>10, <2>1, <4>1
    <3> QED BY <3>1
  <2> QED BY <1>1, <1>7, <1>10, <2>1, <2>2 DEF Carried
<1>14. /\ Sound(z) /\ Carried(y, z) /\ z.accessed = y.accessed \cup Q
       /\ z.works \subseteq y.works \cup Q
       /\ \A k \in Keys \ Q : z.chunk[k] = y.chunk[k]
  <2>1. Q \cap y.accessed = {} /\ y.works \subseteq y.accessed
    BY <1>12
  <2> QED BY ONLY <1>2, <1>10, <1>13, <2>1, version \in Nat, z = Prefetch(y, Q), PrefetchFacts
<1>15. Carried(x, z)
  BY ONLY <1>7, <1>10, <1>14, CarriedOn
<1>16. /\ \A k \in Keys \ Loose : z.chunk[k] = x.chunk[k]
       /\ \A k \in Keys \ Loose : k \in z.accessed <=> k \in x.accessed
  <2> SUFFICES ASSUME NEW k \in Keys \ Loose
               PROVE  /\ z.chunk[k] = x.chunk[k]
                      /\ k \in z.accessed <=> k \in x.accessed
    OBVIOUS
  <2>1. k \notin Q /\ k \notin S \ b.accessed /\ k \notin RR
    BY <1>3, <1>9, <1>13
  <2>2. z.chunk[k] = x.chunk[k]
    BY <1>7, <1>10, <1>14, <2>1
  <2>3. k \in z.accessed <=> k \in x.accessed
    BY <1>7, <1>10, <1>14, <2>1
  <2> QED BY <2>2, <2>3
<1>17. /\ z.works \subseteq z.accessed \cap ParamKeys /\ z.works \subseteq x.works \cup Q
       /\ K \subseteq z.accessed /\ K \cap z.works = {}
  <2>1. z.works \subseteq x.works \cup Q
    BY <1>7, <1>10, <1>14
  <2>2. K \cap Q = {}
    BY <1>12
  <2> QED BY <1>2, <1>12, <1>14, <2>1, <2>2
<1> QED BY ONLY <1>14, <1>15, <1>16, <1>17 DEF Fetched

\* What may be evicted.
LEMMA EvictableFacts ==
  ASSUME IInv, phase \in {"forward", "backward", "inference"}, ~running, hooks = {},
         NEW x, x.accessed = m.accessed,
         \A k \in Keys \ ParamKeys : x.chunk[k] = m.chunk[k],
         NEW ks, NEW k \in Evictable(x, ks)
  PROVE  Eligible(k)
<1>1. /\ CoreInv /\ Sound(m) /\ LayoutInv
      /\ \A j \in ParamKeys : ParamInv(j)
      /\ \A g \in Keys \ ParamKeys : GradInv(g)
  BY DEF IInv, ContentInv
<1>2. CASE LayoutKey(ks) \in DOMAIN manager.layout
  <2>1. k \in manager.layout[LayoutKey(ks)]
    BY <1>2 DEF Evictable
  <2>2. LayoutKey(ks)[1] = manager.compute_idx + 1
    BY DEF LayoutKey
  <2>3. k \in ParamKeys
    BY <1>1, <1>2, <2>1 DEF LayoutInv
  <2>4. ASSUME phase = "backward" PROVE \E p \in InChunk(k) : Later(p, pos)
    <3>1. manager.compute_idx = Idx /\ Idx = Len(Fwd) + (pos - 1)
      BY <1>1, <2>4 DEF CoreInv, ListInv, Idx
    <3>2. pos \in Nat /\ Len(Fwd) \in Nat
      BY <1>1, OperatorFacts DEF CoreInv, PassInv
    <3>3. LayoutKey(ks)[1] >= Len(Fwd) /\ LayoutKey(ks)[1] - Len(Fwd) = pos
      BY ONLY <2>2, <3>1, <3>2
    <3>4. \E p \in InChunk(k) : Later(p, LayoutKey(ks)[1] - Len(Fwd))
      BY <1>1, <1>2, <2>1, <3>3 DEF LayoutInv
    <3> QED BY <3>3, <3>4
  <2> QED BY <2>3, <2>4 DEF Eligible
<1>3. CASE LayoutKey(ks) \notin DOMAIN manager.layout
  <2>1. k \in m.accessed /\ CanRelease(k, x.chunk[k])
    BY <1>3 DEF Evictable, Movable
  <2>2. k \in Keys
    BY <1>1, <2>1 DEF Sound, Managers
  <2>3. k \in ParamKeys
    <3>1. ASSUME k \notin ParamKeys PROVE FALSE
      <4>1. GradInv(k) /\ x.chunk[k] = m.chunk[k]
        BY <1>1, <2>2, <3>1
      <4>2. Begun(k) /\ InUse(k, m.chunk[k])
        BY <2>1, <4>1 DEF GradInv
      <4>3. PICK p \in InChunk(k) : m.chunk[k].state[p] = "ready"
        BY <4>2 DEF Begun, InUse
      <4>4. p \in DOMAIN m.chunk[k].state
        BY <1>1, <2>2 DEF Sound, Well, ChunkType
      <4> QED BY <2>1, <4>1, <4>3, <4>4 DEF CanRelease, AllIn
    <3> QED BY <3>1
  <2>4. ~Over(k)
    BY <1>1, <2>1, <2>3 DEF ParamInv, Settled
  <2>5. phase = "backward" => \E p \in InChunk(k) : Later(p, pos)
    BY <2>4 DEF Over, Pending
  <2> QED BY <2>3, <2>5 DEF Eligible
<1> QED BY <1>2, <1>3

\* What may be prefetched.
LEMMA ToPrefetchFacts ==
  ASSUME IInv, phase \in {"forward", "backward", "inference"}, ~running,
         NEW y, NEW Q \in ToPrefetch(y)
  PROVE  /\ \A k \in Q : Eligible(k) /\ k \notin y.accessed
         /\ cfg.prefetch = 0 => Q = {}
<1> DEFINE list == manager.compute_list
           first == manager.compute_idx + 3
<1>1. CoreInv
  BY DEF IInv
<1>2. /\ pos \in Nat /\ Len(Fwd) \in Nat /\ Len(Bwd) \in Nat
      /\ list \in Seq(Seq(ParamKeys)) /\ manager.compute_idx = Idx
      /\ cfg.prefetch = 0 => list = <<>>
      /\ \A j \in Len(Fwd) + 1 .. Len(list) : list[j] = ChunksOf(Bwd[j - Len(Fwd)])
  BY <1>1, OperatorFacts DEF CoreInv, PassInv, ListInv
<1>3. cfg.prefetch \in Nat
  BY <1>1, GeminiAssumption DEF CoreInv, PassInv
<1>7. Idx \in Int /\ Idx >= -1
  <2>1. Idx = (IF phase = "backward" THEN Len(Fwd) ELSE 0) + (pos - 1)
    BY DEF Idx
  <2> QED BY ONLY <1>2, <2>1
<1>4. ASSUME Q # {}
      PROVE  /\ cfg.prefetch > 0 /\ ~manager.warmup
             /\ \A k \in Q : k \notin y.accessed /\ \E j \in first .. Len(list) : k \in ToSet(list[j])
  <2>10. PICK i \in first .. Len(list) : \E n \in DOMAIN list[i] :
           Q = Wanted(i, n) \ y.accessed /\ ~manager.warmup
    BY <1>4 DEF ToPrefetch
  <2>1. PICK n \in DOMAIN list[i] : Q = Wanted(i, n) \ y.accessed /\ ~manager.warmup
    BY <2>10
  <2>0. /\ Idx \in Int /\ Idx >= -1
    BY <1>7
  <2>2. Len(list) \in Nat /\ first \in Int /\ first >= 2
    BY ONLY <1>2, <2>0
  <2>3. cfg.prefetch > 0
    <3>1. ASSUME cfg.prefetch = 0 PROVE FALSE
      <4>1. Len(list) = 0
        BY <1>2, <3>1
      <4> QED BY ONLY <2>1, <2>2, <4>1
    <3> QED BY <1>3, <3>1
  <2>4. i \in 1 .. Len(list) /\ i \in Int
    BY ONLY <2>1, <2>2, i \in first .. Len(list)
  <2>5. list[i] \in Seq(ParamKeys)
    BY <1>2, <2>4
  <2>6. ASSUME NEW k \in Wanted(i, n)
        PROVE  \E j \in first .. Len(list) : k \in ToSet(list[j])
    <3>1. CASE k \in UNION {ToSet(list[j]) : j \in first .. i - 1}
      <4>1. PICK j \in first .. i - 1 : k \in ToSet(list[j])
        BY <3>1
      <4>2. j \in first .. Len(list)
        BY ONLY <2>2, <2>4, j \in first .. i - 1
      <4> QED BY <4>1, <4>2
    <3>2. CASE k \in {list[i][a] : a \in 1 .. n}
      <4>1. PICK a \in 1 .. n : k = list[i][a]
        BY <3>2
      <4>2. DOMAIN list[i] = 1 .. Len(list[i]) /\ Len(list[i]) \in Nat
        BY <2>5
      <4>3. a \in 1 .. Len(list[i])
        BY ONLY <4>2, a \in 1 .. n, n \in DOMAIN list[i]
      <4>4. k \in ToSet(list[i])
        BY <2>5, <4>1, <4>3, SetOfSeq
      <4> QED BY <4>4
    <3>3. k \in UNION {ToSet(list[j]) : j \in first .. i - 1} \/ k \in {list[i][a] : a \in 1 .. n}
      BY DEF Wanted
    <3> QED BY <3>1, <3>2, <3>3
  <2> QED BY <2>1, <2>3, <2>6
<1>5. ASSUME NEW k \in Q PROVE Eligible(k) /\ k \notin y.accessed
  <2>1. /\ k \notin y.accessed /\ ~manager.warmup /\ cfg.prefetch > 0
    BY <1>4
  <2>2. PICK j \in first .. Len(list) : k \in ToSet(list[j])
    BY <1>4
  <2>0. /\ Idx \in Int /\ Idx >= -1
    BY <1>7
  <2>3. Len(list) \in Nat /\ j \in 1 .. Len(list) /\ j \in Int
    BY ONLY <1>2, <2>0, j \in first .. Len(list)
  <2>4. list[j] \in Seq(ParamKeys)
    BY <1>2, <2>3
  <2>5. k \in ParamKeys
    BY <2>2, <2>4, SetOfSeq
  <2>6. ASSUME phase = "backward" PROVE \E p \in InChunk(k) : Later(p, pos)
    <3>1. Idx = Len(Fwd) + (pos - 1) /\ Len(list) = Len(Fwd) + Len(Bwd)
      BY <1>1, <2>1, <2>6 DEF CoreInv, ListInv, Idx
    <3>2. /\ j \in Len(Fwd) + 1 .. Len(list)
          /\ j - Len(Fwd) \in pos + 1 .. Len(Bwd) /\ j - Len(Fwd) \in 1 .. Len(Bwd)
      BY ONLY <1>2, <2>3, <3>1, j \in first .. Len(list)
    <3>3. list[j] = ChunksOf(Bwd[j - Len(Fwd)]) /\ Bwd[j - Len(Fwd)] \in Seq(Params)
      BY <1>2, <3>2, OperatorFacts
    <3>4. PICK p \in ToSet(Bwd[j - Len(Fwd)]) : k = Param(ChunkOf[p])
      BY <2>2, <3>3, ChunksOfFacts
    <3>5. p \in Params /\ p \in InChunk(k)
      BY <3>3, <3>4, SetOfSeq, MemberFacts
    <3>6. Later(p, pos)
      BY <3>2, <3>4 DEF Later
    <3> QED BY <3>5, <3>6
  <2> QED BY <2>1, <2>5, <2>6 DEF Eligible
<1>6. cfg.prefetch = 0 => Q = {}
  BY <1>3, <1>4
<1> QED BY <1>5, <1>6

\* Only what is released is offloaded.
LEMMA OffloadsFacts ==
  ASSUME NEW R, NEW T \in Offloads(R)
  PROVE  T \in SUBSET R
BY DEF Offloads

\* The hook before an operator keeps the invariant.
LEMMA PreOpContent ==
  ASSUME IInv, PreOp
  PROVE  Sound(m)' /\ ContentInv'
<1> DEFINE ks == ChunksOf(Current)
           K == ToSet(ks)
           x == Put([m EXCEPT !.works = @ \ K],
                    [k \in K |-> Trans(m.chunk[k], ToSet(Current), "compute")])
           may == Evictable(x, ks)
<1>1. /\ phase \in {"forward", "backward", "inference"} /\ ~running /\ hooks = {}
      /\ pos < Len(Ops) /\ running' = TRUE
      /\ UNCHANGED <<cfg, grads_device, phase, pos, hooks, accumulating, overflow, version,
                     iter, since, bad>>
  BY DEF PreOp
<1>2. PICK R \in SUBSET (may \ x.works) : \E T \in Offloads(R) :
        LET fetched == Access(Evict(x, R, T), K \ m.works)
        IN \E Q \in ToPrefetch(fetched) : m' = Prefetch(fetched, Q)
  BY DEF PreOp
<1>3. PICK T \in Offloads(R) : \E Q \in ToPrefetch(Access(Evict(x, R, T), K \ m.works)) :
        m' = Prefetch(Access(Evict(x, R, T), K \ m.works), Q)
  BY <1>2
<1>4. PICK y : y = Access(Evict(x, R, T), K \ m.works)
  OBVIOUS
<1>5. PICK Q \in ToPrefetch(y) : m' = Prefetch(y, Q)
  BY <1>3, <1>4
<1>6. manager'.layout = [l \in DOMAIN manager.layout \cup {LayoutKey(ks)} |->
                           IF l = LayoutKey(ks) THEN may ELSE manager.layout[l]]
  <2>1. manager' = [manager EXCEPT
             !.compute_idx = @ + 1,
             !.compute_list = IF manager.warmup /\ cfg.prefetch > 0
                                THEN Append(@, ks) ELSE @,
             !.layout = [l \in DOMAIN @ \cup {LayoutKey(ks)} |->
                           IF l = LayoutKey(ks) THEN may ELSE @[l]]]
    BY DEF PreOp
  <2>2. manager = [warmup |-> manager.warmup, compute_list |-> manager.compute_list,
                   compute_idx |-> manager.compute_idx, layout |-> manager.layout]
    BY DEF IInv, CoreInv, ListInv
  <2> HIDE DEF may, ks
  <2> QED BY <2>1, <2>2
<1>7. /\ CoreInv /\ Sound(m) /\ WorksInv /\ LayoutInv /\ version \in Nat /\ pos \in Nat
      /\ \A k \in ParamKeys : ParamInv(k)
      /\ \A g \in Keys \ ParamKeys : GradInv(g)
  BY DEF IInv, ContentInv, CoreInv, IterationInv, PassInv
<1>8. /\ Sound(x) /\ x.accessed = m.accessed /\ x.works = m.works \ K
      /\ \A k \in K : Eligible(k)
      /\ \A k \in Keys : SameData(m.chunk[k], x.chunk[k])
      /\ \A k \in Keys \ ParamKeys : x.chunk[k] = m.chunk[k]
      /\ \A k \in ParamKeys : \A p \in InChunk(k) :
           x.chunk[k].state[p] = IF p \in ToSet(Current) THEN "compute" ELSE m.chunk[k].state[p]
      /\ \A k \in K : ~CanRelease(k, x.chunk[k])
  <2>1. PICK KK : KK = ToSet(ChunksOf(Current))
    OBVIOUS
  <2>2. PICK xx : xx = Put([m EXCEPT !.works = @ \ KK],
                        [k \in KK |-> Trans(m.chunk[k], ToSet(Current), "compute")])
    OBVIOUS
  <2>3. KK = K /\ xx = x
    BY <2>1, <2>2
  <2>4. /\ Sound(xx) /\ xx.accessed = m.accessed /\ xx.works = m.works \ KK
        /\ \A k \in KK : Eligible(k)
        /\ \A k \in Keys : SameData(m.chunk[k], xx.chunk[k])
        /\ \A k \in Keys \ ParamKeys : xx.chunk[k] = m.chunk[k]
        /\ \A k \in ParamKeys : \A p \in InChunk(k) :
             xx.chunk[k].state[p] = IF p \in ToSet(Current) THEN "compute" ELSE m.chunk[k].state[p]
        /\ \A k \in KK : ~CanRelease(k, xx.chunk[k])
    BY ONLY IInv, <1>1, <2>1, <2>2, ComputingFacts
  <2> HIDE DEF x, K
  <2> QED BY <2>3, <2>4
<1> HIDE DEF x
<1>9. \A k \in may : Eligible(k)
  BY ONLY IInv, <1>1, <1>8, EvictableFacts DEF may
<1>10. /\ \A k \in Q : Eligible(k) /\ k \notin y.accessed
       /\ cfg.prefetch = 0 => Q = {}
  BY ONLY IInv, <1>1, Q \in ToPrefetch(y), ToPrefetchFacts
<1>11. /\ ToSet(Current) \subseteq Params
       /\ \A p \in ToSet(Current) : phase = "backward" => Later(p, pos)
       /\ K = {Param(ChunkOf[p]) : p \in ToSet(Current)}
       /\ Ops = IF phase = "backward" THEN Bwd ELSE Fwd
  BY <1>1, <1>7, CurrentFacts DEF CoreInv
<1>12. /\ Sound(m') /\ Carried(x, m')
       /\ m'.works \subseteq m'.accessed \cap ParamKeys /\ m'.works \subseteq x.works \cup Q
       /\ K \subseteq m'.accessed /\ K \cap m'.works = {}
       /\ \A k \in Keys \ Loose : m'.chunk[k] = x.chunk[k]
       /\ \A k \in Keys \ Loose : k \in m'.accessed <=> k \in x.accessed
  <2>1. \A k \in ParamKeys : \A p \in InChunk(k) :
          phase = "backward" /\ ~Pending(p) => x.chunk[k].state[p] = m.chunk[k].state[p]
    BY <1>8, <1>11 DEF Pending
  <2>2. /\ \A k \in R : Eligible(k) /\ k \notin x.works
        /\ T \in SUBSET R
    BY <1>9, OffloadsFacts
  <2>3. PICK KK : KK = K
    OBVIOUS
  <2>4. PICK z : z = m'
    OBVIOUS
  <2> HIDE DEF K
  <2>5. /\ y = Access(Evict(x, R, T), KK \ m.works) /\ z = Prefetch(y, Q)
        /\ \A k \in KK : Eligible(k)
        /\ Sound(x) /\ x.accessed = m.accessed /\ x.works = m.works \ KK
        /\ \A k \in Keys : SameData(m.chunk[k], x.chunk[k])
        /\ \A k \in KK : ~CanRelease(k, x.chunk[k])
    BY <1>4, <1>5, <1>8, <2>3, <2>4
  <2>6. phase \in {"forward", "backward", "inference"} /\ version \in Nat
    BY <1>1, <1>7
  <2>7. Fetched(KK, x, z, Q)
    BY ONLY IInv, <1>10, <2>1, <2>2, <2>5, <2>6, MovedFacts
  <2> QED BY <2>3, <2>4, <2>7 DEF Fetched
<1>13. \A p : /\ Pending(p)' <=> Pending(p)
              /\ Later(p, pos)' <=> Later(p, pos)
              /\ Active(p)' <=> p \in ToSet(Current)
  BY <1>1 DEF Pending, Later, Active, Current, Ops
<1>14. ASSUME NEW k \in ParamKeys PROVE ParamInv(k)'
  <2>0. k \in Keys /\ ParamInv(k)
    BY <1>7, ParamKeysAreKeys
  <2>1. \A p \in InChunk(k) : StateInv(k, p, m.chunk[k].state[p])'
    <3> SUFFICES ASSUME NEW p \in InChunk(k) PROVE StateInv(k, p, m.chunk[k].state[p])'
      OBVIOUS
    <3>1. m'.chunk[k].state[p] = IF p \in ToSet(Current) THEN "compute" ELSE m.chunk[k].state[p]
      BY <1>8, <1>12, <2>0 DEF Carried
    <3>2. StateInv(k, p, m.chunk[k].state[p]) /\ ~Active(p) /\ p \notin hooks
      BY <1>1, <2>0 DEF ParamInv, Active
    <3>3. Over(k)' <=> Over(k)
      BY <1>1, <1>13, SameStatus
    <3>4. p \in ToSet(Current) /\ phase = "backward" => Pending(p)
      BY <1>11 DEF Pending
    <3>5. p \notin hooks' /\ phase' = phase /\ cfg'.accumulate = cfg.accumulate
      BY <1>1
    <3>6. CASE p \in ToSet(Current)
      <4>1. m'.chunk[k].state[p] = "compute"
        BY <3>1, <3>6
      <4> QED BY <1>13, <3>4, <3>5, <3>6, <4>1 DEF StateInv
    <3>7. CASE p \notin ToSet(Current)
      <4>1. m'.chunk[k].state[p] = m.chunk[k].state[p]
        BY <3>1, <3>7
      <4> QED BY <1>13, <3>2, <3>3, <3>5, <3>7, <4>1 DEF StateInv
    <3> QED BY <3>6, <3>7
  <2>2. HoldsWeights(k, m.chunk[k]) => HoldsWeights(k, m'.chunk[k])
    <3>1. SameData(m.chunk[k], x.chunk[k])
      BY <1>8, <2>0
    <3>2. HoldsWeights(k, x.chunk[k]) <=> HoldsWeights(k, m.chunk[k])
      BY <3>1, SameContent DEF SameData
    <3> QED BY <1>12, <2>0, <3>2 DEF Carried
  <2>3. k \notin Loose => /\ SameData(m.chunk[k], m'.chunk[k])
                          /\ k \in m'.accessed <=> k \in m.accessed
    BY <1>8, <1>12, <2>0
  <2> QED BY ONLY <1>1, <1>13, <2>0, <2>1, <2>2, <2>3, k \in ParamKeys, ParamKept
<1>15. ASSUME NEW g \in Keys \ ParamKeys PROVE GradInv(g)'
  <2>1. g \notin Loose /\ GradInv(g)
    BY <1>7 DEF Loose
  <2>2. m'.chunk[g] = m.chunk[g] /\ (g \in m'.accessed <=> g \in m.accessed)
    BY <1>8, <1>12, <2>1
  <2> QED BY ONLY <1>1, <1>13, <2>1, <2>2, g \in Keys \ ParamKeys, GradKept
<1>16. WorksInv'
  <2>1. m'.works \subseteq m'.accessed \cap ParamKeys
    BY <1>12
  <2>2. (cfg.prefetch = 0 \/ phase \in {"idle", "all gathered"} => m.works = {})'
    <3>1. cfg.prefetch = 0 => m.works = {}
      BY <1>7 DEF WorksInv
    <3> QED BY <1>1, <1>8, <1>10, <1>12, <3>1
  <2>3. (\A p \in hooks : InHand(p))'
    BY <1>1
  <2>4. (running => \A p \in ToSet(Current) : InHand(p))'
    <3>1. ToSet(Current)' = ToSet(Current)
      BY <1>1 DEF Current, Ops
    <3>2. \A p \in ToSet(Current) : InHand(p)'
      BY <1>11, <1>12 DEF InHand
    <3> QED BY <3>1, <3>2
  <2>5. (phase = "all gathered" => ParamKeys \subseteq m.accessed)'
    BY <1>1
  <2> QED BY <2>1, <2>2, <2>3, <2>4, <2>5 DEF WorksInv
<1>17. LayoutInv'
  <2> SUFFICES ASSUME NEW l \in DOMAIN manager'.layout
               PROVE  /\ manager'.layout[l] \subseteq ParamKeys
                      /\ l[1] >= Len(Fwd) =>
                           \A k \in manager'.layout[l] : \E p \in InChunk(k) : Later(p, l[1] - Len(Fwd))
    BY DEF LayoutInv, Later, InChunk, ParamKeys
  <2>1. CASE l # LayoutKey(ks)
    <3>1. l \in DOMAIN manager.layout /\ manager'.layout[l] = manager.layout[l]
      BY <1>6, <2>1
    <3> QED BY <1>7, <3>1 DEF LayoutInv
  <2>2. CASE l = LayoutKey(ks)
    <3>1. manager'.layout[l] = may
      BY <1>6, <2>2
    <3>2. may \subseteq ParamKeys
      BY <1>9 DEF Eligible
    <3>3. l[1] = Idx + 1
      BY <1>7, <2>2 DEF LayoutKey, CoreInv, ListInv
    <3>4. Len(Fwd) \in Nat
      BY OperatorFacts
    <3>5. CASE phase = "backward"
      <4>1. Idx = Len(Fwd) + (pos - 1)
        BY <1>1, <3>5 DEF Idx
      <4>2. l[1] - Len(Fwd) = pos
        BY ONLY <1>7, <3>3, <3>4, <4>1
      <4>3. \A k \in may : \E p \in InChunk(k) : Later(p, pos)
        BY <1>9, <3>5 DEF Eligible
      <4> QED BY <3>1, <3>2, <4>2, <4>3
    <3>6. CASE phase # "backward"
      <4>1. Idx = 0 + (pos - 1)
        BY <1>1, <3>6 DEF Idx
      <4>2. pos < Len(Fwd)
        BY <1>1, <1>11, <3>6
      <4>3. ~(l[1] >= Len(Fwd))
        BY ONLY <1>7, <3>3, <3>4, <4>1, <4>2
      <4> QED BY <3>1, <3>2, <4>3
    <3> QED BY <3>5, <3>6
  <2> QED BY <2>1, <2>2
<1>18. Sound(m)'
  BY <1>1, <1>12, PrimedContents
<1> QED BY <1>14, <1>15, <1>16, <1>17, <1>18 DEF ContentInv

\* LayoutInv depends on the layout alone.
LEMMA LayoutKept ==
  ASSUME LayoutInv, manager'.layout = manager.layout
  PROVE  LayoutInv'
BY DEF LayoutInv, Later, InChunk, ParamKeys

\* A change of states leaves weights weights.
LEMMA SameDataHolds ==
  ASSUME NEW k, NEW c, NEW d, SameData(c, d), HoldsWeights(k, c)
  PROVE  HoldsWeights(k, d)
BY SameContent DEF SameData

\* In the hook after an operator of the backward pass a parameter is due or is
\* used again, as it was before.
LEMMA StillPending ==
  ASSUME phase = "backward", PassInv, running, phase' = phase, pos' = pos + 1,
         hooks' = IF phase = "backward" THEN {p \in ToSet(Current) : LastUse(p)} ELSE {}
  PROVE  \A p : Pending(p)' <=> Pending(p)
<1>1. /\ hooks = {} /\ pos \in Nat /\ pos < Len(Bwd) /\ Len(Bwd) \in Nat /\ Current = Bwd[pos + 1]
  BY OperatorFacts DEF PassInv, Ops, Current
<1>2. SUFFICES ASSUME NEW p PROVE Pending(p)' <=> Pending(p)
  OBVIOUS
<1>3. Pending(p) <=> Later(p, pos)
  BY <1>1 DEF Pending
<1>4. Pending(p)' <=> (p \in ToSet(Current) /\ LastUse(p)) \/ Later(p, pos + 1)
  BY DEF Pending, Later
<1>5. pos + 2 = (pos + 1) + 1 /\ pos + 1 \in pos + 1 .. Len(Bwd)
  BY ONLY <1>1
<1>6. LastUse(p) <=> ~Later(p, pos + 1)
  BY <1>5 DEF LastUse, Later
<1>7. \A j \in Int : j \in pos + 1 .. Len(Bwd) <=> j = pos + 1 \/ j \in (pos + 1) + 1 .. Len(Bwd)
  BY ONLY <1>1
<1>8. Later(p, pos) <=> p \in ToSet(Current) \/ Later(p, pos + 1)
  <2>1. ASSUME Later(p, pos) PROVE p \in ToSet(Current) \/ Later(p, pos + 1)
    <3>1. PICK j \in pos + 1 .. Len(Bwd) : p \in ToSet(Bwd[j])
      BY <2>1 DEF Later
    <3>2. j = pos + 1 \/ j \in (pos + 1) + 1 .. Len(Bwd)
      BY <1>7, <3>1
    <3> QED BY <1>1, <3>1, <3>2 DEF Later
  <2>2. p \in ToSet(Current) => Later(p, pos)
    BY <1>1, <1>5 DEF Later
  <2>3. ASSUME Later(p, pos + 1) PROVE Later(p, pos)
    <3>1. PICK j \in (pos + 1) + 1 .. Len(Bwd) : p \in ToSet(Bwd[j])
      BY <2>3 DEF Later
    <3>2. j \in pos + 1 .. Len(Bwd)
      BY <1>7, <3>1
    <3> QED BY <3>1, <3>2 DEF Later
  <2> QED BY <2>1, <2>2, <2>3
<1> QED BY <1>3, <1>4, <1>6, <1>8

\* The hook after an operator keeps the invariant.
LEMMA PostOpContent ==
  ASSUME IInv, PostOp
  PROVE  Sound(m)' /\ ContentInv'
<1>1. PICK s \in States : s = IF phase = "backward" THEN "hold_after_bwd" ELSE "hold"
  BY DEF States
<1>2. PICK K : K = ToSet(ChunksOf(Current))
  OBVIOUS
<1> DEFINE new == [k \in K |-> Trans(m.chunk[k], ToSet(Current), s)]
<1>3. /\ m' = Put(m, new) /\ running /\ running' = FALSE /\ pos' = pos + 1
      /\ hooks' = IF phase = "backward" THEN {p \in ToSet(Current) : LastUse(p)} ELSE {}
      /\ UNCHANGED <<cfg, grads_device, phase, manager, version, iter, since>>
  BY <1>1, <1>2 DEF PostOp
<1>4. /\ CoreInv /\ PassInv /\ Sound(m) /\ WorksInv /\ LayoutInv
      /\ \A k \in ParamKeys : ParamInv(k)
      /\ \A g \in Keys \ ParamKeys : GradInv(g)
  BY DEF IInv, ContentInv, CoreInv
<1>5. /\ ToSet(Current) \subseteq Params
      /\ \A p \in ToSet(Current) : phase = "backward" => Later(p, pos)
      /\ K = {Param(ChunkOf[p]) : p \in ToSet(Current)}
      /\ hooks = {}
  <2>1. phase \in {"forward", "backward", "inference"} /\ pos < Len(Ops) /\ hooks = {}
    BY <1>3, <1>4 DEF PassInv
  <2> QED BY <1>2, <1>4, <2>1, CurrentFacts
<1>6. K \subseteq ParamKeys /\ K \in SUBSET Keys
  BY <1>5, MemberFacts, ParamFacts, ParamKeysAreKeys
<1>7. ASSUME NEW k \in K
      PROVE  /\ Well(k, new[k]) /\ SameData(m.chunk[k], new[k])
             /\ \A p \in InChunk(k) :
                  new[k].state[p] = IF p \in ToSet(Current) /\ <<m.chunk[k].state[p], s>> \in StateTrans
                                      THEN s ELSE m.chunk[k].state[p]
  <2>1. Well(k, m.chunk[k]) /\ k \in Keys
    BY <1>4, <1>6 DEF Sound
  <2>2. new[k] = Trans(m.chunk[k], ToSet(Current), s)
    OBVIOUS
  <2> HIDE DEF new
  <2> QED BY <2>1, <2>2, TransFacts DEF SameData
<1>8. DOMAIN new = K /\ new = [k \in K |-> new[k]]
  OBVIOUS
<1> HIDE DEF new
<1>9. /\ Sound(m') /\ m'.accessed = m.accessed /\ m'.works = m.works
      /\ \A k \in Keys : m'.chunk[k] = IF k \in K THEN new[k] ELSE m.chunk[k]
  <2>1. \A k \in K : /\ Well(k, new[k]) /\ new[k].is_gathered = m.chunk[k].is_gathered
                     /\ new[k].cuda = None <=> m.chunk[k].cuda = None
                     /\ new[k].cpu = None <=> m.chunk[k].cpu = None
    BY <1>7 DEF SameData
  <2>2. PICK z : z = m'
    OBVIOUS
  <2>3. z = Put(m, new)
    BY <1>3, <2>2
  <2>4. /\ Sound(z) /\ z.accessed = m.accessed /\ z.works = m.works
        /\ \A k \in Keys : z.chunk[k] = IF k \in K THEN new[k] ELSE m.chunk[k]
    BY ONLY <1>4, <1>6, <1>8, <2>1, <2>3, PutSound
  <2> QED BY <2>2, <2>4
<1>10. /\ \A k \in K : m'.chunk[k] = new[k]
       /\ \A k \in Keys \ K : m'.chunk[k] = m.chunk[k]
  BY <1>6, <1>9
<1>11. \A k \in Keys : SameData(m.chunk[k], m'.chunk[k])
  <2>1. \A c : SameData(c, c)
    BY DEF SameData
  <2> QED BY ONLY <1>7, <1>10, <2>1
<1>12. phase = "backward" => \A p : Pending(p)' <=> Pending(p)
  BY ONLY <1>3, <1>4, StillPending
<1>13. ASSUME NEW k \in ParamKeys PROVE ParamInv(k)'
  <2>0. k \in Keys /\ ParamInv(k)
    BY <1>4, ParamKeysAreKeys
  <2>1. \A p \in InChunk(k) : StateInv(k, p, m.chunk[k].state[p])'
    <3> SUFFICES ASSUME NEW p \in InChunk(k) PROVE StateInv(k, p, m.chunk[k].state[p])'
      OBVIOUS
    <3>1. p \in Params /\ k = Param(ChunkOf[p])
      BY <2>0, InChunkFacts, MemberFacts
    <3>2. StateInv(k, p, m.chunk[k].state[p]) /\ p \notin hooks
      BY <1>5, <2>0 DEF ParamInv
    <3>3. Over(k)' <=> Over(k)
      BY ONLY <1>3, <1>12, SameStatus
    <3>4. ~Active(p)' /\ phase' = phase /\ cfg'.accumulate = cfg.accumulate
      BY <1>3 DEF Active
    <3>5. CASE p \in ToSet(Current)
      <4>1. m.chunk[k].state[p] = "compute"
        BY <1>3, <3>2, <3>5 DEF StateInv, Active
      <4>2. k \in K
        BY <1>5, <3>1, <3>5
      <4>3. <<"compute", s>> \in StateTrans
        BY <1>1 DEF StateTrans
      <4>4. m'.chunk[k].state[p] = s
        BY <1>7, <1>10, <3>5, <4>1, <4>2, <4>3
      <4>5. phase = "backward" => Pending(p)'
        BY <1>5, <1>12, <3>5 DEF Pending
      <4>6. p \in hooks' => phase = "backward"
        BY <1>3
      <4> QED BY ONLY <1>1, <3>4, <4>4, <4>5, <4>6 DEF StateInv
    <3>6. CASE p \notin ToSet(Current)
      <4>1. m'.chunk[k].state[p] = m.chunk[k].state[p]
        BY <1>7, <1>10, <2>0, <3>6
      <4>2. p \notin hooks' /\ ~Active(p)
        BY <1>3, <3>6 DEF Active
      <4>3. phase = "backward" => (Pending(p)' <=> Pending(p))
        BY <1>12
      <4> QED BY ONLY <3>2, <3>3, <3>4, <4>1, <4>2, <4>3 DEF StateInv
    <3> QED BY <3>5, <3>6
  <2>2. HoldsWeights(k, m.chunk[k]) => HoldsWeights(k, m'.chunk[k])
    BY <1>11, <2>0, SameDataHolds
  <2>3. k \notin Loose => /\ SameData(m.chunk[k], m'.chunk[k])
                          /\ k \in m'.accessed <=> k \in m.accessed
    BY <1>9, <1>11, <2>0
  <2> QED BY ONLY <1>3, <1>12, <2>0, <2>1, <2>2, <2>3, k \in ParamKeys, ParamKept
<1>14. ASSUME NEW g \in Keys \ ParamKeys PROVE GradInv(g)'
  <2>1. GradInv(g)
    BY <1>4
  <2>2. m'.chunk[g] = m.chunk[g] /\ (g \in m'.accessed <=> g \in m.accessed)
    BY <1>6, <1>9, <1>10
  <2> QED BY ONLY <1>3, <1>12, <2>1, <2>2, g \in Keys \ ParamKeys, GradKept
<1>15. WorksInv'
  <2>1. \A p \in ToSet(Current) : InHand(p)'
    BY <1>3, <1>4, <1>9 DEF WorksInv, InHand
  <2>2. (\A p \in hooks : InHand(p))'
    BY <1>3, <2>1
  <2> QED BY <1>3, <1>4, <1>9, <2>2 DEF WorksInv, ParamKeys
<1>16. LayoutInv'
  BY <1>3, <1>4, LayoutKept
<1>17. Sound(m)'
  BY <1>3, <1>9, PrimedContents
<1> QED BY <1>13, <1>14, <1>15, <1>16, <1>17 DEF ContentInv

-----------------------------------------------------------------------------
(* Passes.                                                                 *)

\* Between the passes, with nothing to step with, every chunk holds weights.
LEMMA RestingParam ==
  ASSUME NEW k \in ParamKeys, ParamInv(k), ~Begun(k), ~Settled(k)
  PROVE  HoldsWeights(k, m.chunk[k])
BY DEF ParamInv

\* When a pass begins, nothing has been begun.
LEMMA FreshPass ==
  ASSUME IInv, UNCHANGED <<cfg, grads_device, version, since, running, hooks>>,
         ~running, hooks = {}, phase \in {"idle", "forward"},
         phase = "idle" => since = {} \/ cfg.accumulate,
         phase' \in {"forward", "backward", "inference", "all gathered"},
         phase' = "backward" => pos' = 0,
         \A k \in Keys : /\ m'.chunk[k].state = m.chunk[k].state
                         /\ HoldsWeights(k, m.chunk[k]) => HoldsWeights(k, m'.chunk[k]),
         \A g \in Keys \ ParamKeys : /\ m'.chunk[g] = m.chunk[g]
                                     /\ g \in m'.accessed <=> g \in m.accessed
  PROVE  /\ \A k \in ParamKeys : ParamInv(k)'
         /\ \A g \in Keys \ ParamKeys : GradInv(g)'
<1>1. /\ \A k \in ParamKeys : ParamInv(k)
      /\ \A g \in Keys \ ParamKeys : GradInv(g)
  BY DEF IInv, ContentInv
<1>2. /\ cfg'.accumulate = cfg.accumulate /\ since' = since /\ hooks' = {} /\ ~running'
      /\ grads_device' = grads_device
  OBVIOUS
<1>3. \A p \in Params : ~Active(p) /\ ~Active(p)' /\ (phase' = "backward" => Pending(p)')
  BY OperatorFacts DEF Active, Pending, Later
<1>4. ASSUME NEW k \in Keys
      PROVE  /\ ~Begun(k) /\ ~Over(k) /\ ~Begun(k)' /\ ~Over(k)' /\ ~Settled(k)'
             /\ Settled(k) => cfg.accumulate
             /\ Summed(k) = since /\ Summed(k)' = since
  <2>1. InChunk(k) # {} /\ InChunk(k) \subseteq Params
    BY InChunkFacts
  <2>2. ~Begun(k) /\ ~Over(k)
    BY DEF Begun, Over
  <2>3. ~Begun(k)' /\ ~Over(k)'
    BY <1>3, <2>1 DEF Begun, Over
  <2>4. ~Settled(k)' /\ (Settled(k) => cfg.accumulate)
    BY <2>2, <2>3 DEF Settled
  <2> QED BY <1>2, <2>2, <2>3, <2>4 DEF Summed
<1>5. ASSUME NEW k \in ParamKeys PROVE ParamInv(k)'
  <2>0. k \in Keys /\ ParamInv(k)
    BY <1>1, ParamKeysAreKeys
  <2>1. HoldsWeights(k, m.chunk[k])
    BY <1>4, <2>0 DEF ParamInv
  <2>2. HoldsWeights(k, m.chunk[k])'
    <3>1. HoldsWeights(k, m'.chunk[k])
      BY <2>0, <2>1
    <3> QED BY <3>1 DEF HoldsWeights
  <2>3. ASSUME NEW p \in InChunk(k) PROVE StateInv(k, p, m.chunk[k].state[p])'
    <3>1. p \in Params
      BY <2>0, InChunkFacts
    <3>2. m.chunk[k].state[p] = "hold"
      BY <1>3, <2>0, <3>1 DEF ParamInv, StateInv
    <3>3. m'.chunk[k].state[p] = "hold"
      BY <2>0, <3>2
    <3> QED BY <1>2, <1>3, <3>1, <3>3 DEF StateInv
  <2> QED BY <1>2, <1>4, <2>0, <2>2, <2>3 DEF ParamInv
<1>6. ASSUME NEW g \in Keys \ ParamKeys PROVE GradInv(g)'
  <2>1. GradInv(g) /\ m'.chunk[g] = m.chunk[g] /\ (g \in m'.accessed <=> g \in m.accessed)
    BY <1>1
  <2>2. /\ HoldsGrads(g, m.chunk[g], Summed(g))' <=> HoldsGrads(g, m.chunk[g], Summed(g))
        /\ Device(m.chunk[g])' = Device(m.chunk[g])
        /\ AllIn(m.chunk[g], {"hold"})' <=> AllIn(m.chunk[g], {"hold"})
    BY <1>4, <2>1 DEF HoldsGrads, Device, OnCuda, AllIn
  <2> QED BY <1>2, <1>4, <2>1, <2>2 DEF GradInv
<1> QED BY <1>5, <1>6

\* The start of a forward pass keeps the invariant.
LEMMA StartForwardContent ==
  ASSUME IInv, StartForward
  PROVE  Sound(m)' /\ ContentInv'
<1>1. /\ phase = "idle" /\ phase' = "forward" /\ (since # {} => cfg.accumulate)
      /\ UNCHANGED <<cfg, m, grads_device, running, hooks, manager, version, since>>
  BY DEF StartForward, Start
<1>2. CoreInv /\ Sound(m) /\ WorksInv /\ LayoutInv
  BY DEF IInv, ContentInv
<1>3. ~running /\ hooks = {}
  BY <1>1, <1>2 DEF CoreInv, PassInv
<1>4. /\ \A k \in ParamKeys : ParamInv(k)'
      /\ \A g \in Keys \ ParamKeys : GradInv(g)'
  <2>1. /\ phase \in {"idle", "forward"} /\ (phase = "idle" => since = {} \/ cfg.accumulate)
        /\ phase' \in {"forward", "backward", "inference", "all gathered"}
        /\ phase' = "backward" => pos' = 0
        /\ m' = m
    BY <1>1
  <2> QED BY ONLY IInv, <1>1, <1>3, <2>1, FreshPass
<1>5. WorksInv'
  BY <1>1, <1>2, <1>3 DEF WorksInv
<1>6. LayoutInv' /\ Sound(m)'
  BY <1>1, <1>2, LayoutKept, PrimedContents
<1> QED BY <1>4, <1>5, <1>6 DEF ContentInv

\* The start of a backward pass keeps the invariant.
LEMMA StartBackwardContent ==
  ASSUME IInv, StartBackward
  PROVE  Sound(m)' /\ ContentInv'
<1>1. /\ phase = "forward" /\ phase' = "backward" /\ pos' = 0 /\ ~running
      /\ UNCHANGED <<cfg, m, grads_device, running, hooks, manager, version, since>>
  BY DEF StartBackward
<1>2. CoreInv /\ Sound(m) /\ WorksInv /\ LayoutInv
  BY DEF IInv, ContentInv
<1>3. hooks = {}
  BY <1>1, <1>2 DEF CoreInv, PassInv
<1>4. /\ \A k \in ParamKeys : ParamInv(k)'
      /\ \A g \in Keys \ ParamKeys : GradInv(g)'
  <2>1. /\ phase \in {"idle", "forward"} /\ (phase = "idle" => since = {} \/ cfg.accumulate)
        /\ phase' \in {"forward", "backward", "inference", "all gathered"}
        /\ phase' = "backward" => pos' = 0
        /\ m' = m
    BY <1>1
  <2> QED BY ONLY IInv, <1>1, <1>3, <2>1, FreshPass
<1>5. WorksInv'
  BY <1>1, <1>2, <1>3 DEF WorksInv
<1>6. LayoutInv' /\ Sound(m)'
  BY <1>1, <1>2, LayoutKept, PrimedContents
<1> QED BY <1>4, <1>5, <1>6 DEF ContentInv

\* The start of inference keeps the invariant.
LEMMA StartInferenceContent ==
  ASSUME IInv, IterationInv', StartInference
  PROVE  Sound(m)' /\ ContentInv'
<1>1. /\ phase = "idle" /\ phase' \in {"inference", "all gathered"}
      /\ UNCHANGED <<cfg, grads_device, running, hooks, manager, version, since>>
      /\ \/ UNCHANGED m /\ phase' = "inference"
         \/ m' = Access(m, ParamKeys) /\ phase' = "all gathered"
  BY DEF StartInference, Start
<1>2. /\ CoreInv /\ Sound(m) /\ WorksInv /\ LayoutInv /\ version \in Nat
      /\ \A k \in ParamKeys : ParamInv(k)
  BY DEF IInv, ContentInv, CoreInv, IterationInv
<1>3. ~running /\ hooks = {}
  BY <1>1, <1>2 DEF CoreInv, PassInv
<1>4. since = {} /\ m.works = {}
  <2>1. since' = {}
    BY <1>1 DEF IterationInv
  <2> QED BY <1>1, <1>2, <2>1 DEF WorksInv
<1>5. /\ Sound(m') /\ m'.works = {}
      /\ \A k \in Keys : /\ m'.chunk[k].state = m.chunk[k].state
                         /\ HoldsWeights(k, m.chunk[k]) => HoldsWeights(k, m'.chunk[k])
      /\ \A g \in Keys \ ParamKeys : /\ m'.chunk[g] = m.chunk[g]
                                     /\ g \in m'.accessed <=> g \in m.accessed
      /\ phase' = "all gathered" => ParamKeys \subseteq m'.accessed
  <2>1. CASE UNCHANGED m /\ phase' = "inference"
    BY <1>2, <1>4, <2>1
  <2>2. CASE m' = Access(m, ParamKeys) /\ phase' = "all gathered"
    <3>1. \A k \in ParamKeys : HoldsWeights(k, m.chunk[k])
      BY <1>1, <1>2, <1>4, RestingParam DEF Begun, Over, Settled
    <3>2. PICK S \in SUBSET ParamKeys : S = ParamKeys
      OBVIOUS
    <3>3. /\ Sound(Access(m, S)) /\ Carried(m, Access(m, S))
          /\ Access(m, S).accessed = m.accessed \cup S /\ Access(m, S).works = m.works
          /\ \A k \in Keys \ (S \ m.accessed) : Access(m, S).chunk[k] = m.chunk[k]
      <4>1. \A k \in S \ m.accessed : HoldsWeights(k, m.chunk[k])
        BY <3>1
      <4> QED BY ONLY <1>2, <4>1, S \in SUBSET ParamKeys, AccessFacts
    <3>4. m' = Access(m, S)
      BY <2>2, <3>2
    <3> QED BY <1>4, <3>2, <3>3, <3>4 DEF Carried
  <2> QED BY <1>1, <2>1, <2>2
<1>6. /\ \A k \in ParamKeys : ParamInv(k)'
      /\ \A g \in Keys \ ParamKeys : GradInv(g)'
  <2>1. /\ phase \in {"idle", "forward"} /\ (phase = "idle" => since = {} \/ cfg.accumulate)
        /\ phase' \in {"forward", "backward", "inference", "all gathered"}
        /\ phase' = "backward" => pos' = 0
    BY <1>1, <1>4
  <2> QED BY ONLY IInv, <1>1, <1>3, <1>5, <2>1, FreshPass
<1>7. WorksInv'
  BY <1>1, <1>3, <1>5 DEF WorksInv, ParamKeys
<1>8. LayoutInv' /\ Sound(m)'
  BY <1>1, <1>2, <1>5, LayoutKept, PrimedContents
<1> QED BY <1>6, <1>7, <1>8 DEF ContentInv

\* At the end of backward no chunk is accessed.
LEMMA NothingAccessed ==
  ASSUME IInv, \A k \in Keys : Over(k)
  PROVE  m.accessed = {} /\ m.accessed_mem = 0
<1>1. m.accessed \in SUBSET Keys /\ m.accessed_mem = GroupSize * Cardinality(m.accessed)
  BY DEF IInv, Sound, Managers
<1>2. \A k \in Keys : k \notin m.accessed
  BY DEF IInv, ContentInv, ParamInv, GradInv, Settled
<1>3. m.accessed = {}
  BY <1>1, <1>2
<1>4. GroupSize * 0 = 0
  BY GeminiAssumption
<1> QED BY <1>1, <1>3, <1>4, FS_EmptySet

\* The end of a backward pass keeps the invariant.
LEMMA PostBackwardContent ==
  ASSUME IInv, PostBackward
  PROVE  Sound(m)' /\ ContentInv'
<1>1. /\ phase = "backward" /\ pos = Len(Bwd) /\ ~running /\ hooks = {}
      /\ m' = Asserting(m, m.accessed_mem = 0)
      /\ manager' = [manager EXCEPT !.warmup = FALSE, !.compute_idx = -1]
      /\ phase' = "idle" /\ since' = since \cup {iter}
      /\ UNCHANGED <<cfg, grads_device, pos, running, hooks, version, iter>>
  BY DEF PostBackward
<1>2. /\ CoreInv /\ Sound(m) /\ WorksInv /\ LayoutInv
      /\ \A k \in ParamKeys : ParamInv(k)
      /\ \A g \in Keys \ ParamKeys : GradInv(g)
  BY DEF IInv, ContentInv
<1>3. \A p : ~Pending(p) /\ ~Active(p) /\ ~Active(p)'
  <2>1. Len(Bwd) \in Nat
    BY OperatorFacts
  <2>2. pos + 1 .. Len(Bwd) = {}
    BY ONLY <1>1, <2>1
  <2> QED BY <1>1, <2>2 DEF Pending, Later, Active
<1>4. \A k \in Keys : Over(k)
  BY <1>1, <1>3 DEF Over
<1>5. m' = m /\ m.accessed = {}
  BY <1>1, <1>4, NothingAccessed DEF Asserting
<1>6. /\ \A k : Settled(k)' /\ ~Begun(k)' /\ ~Over(k)' /\ Summed(k)' = Total
      /\ Total' = Total
      /\ \A k \in Keys : Begun(k) /\ Settled(k) /\ Summed(k) = Total
  <2>1. \A k : Settled(k)' /\ ~Begun(k)' /\ ~Over(k)' /\ Summed(k)' = since'
    BY <1>1 DEF Settled, Begun, Over, Summed
  <2>2. Total' = Total /\ Total = since'
    BY <1>1 DEF Total
  <2> QED BY <1>4, <2>1, <2>2, OverIsBegun DEF Settled, Summed
<1>7. ASSUME NEW k \in ParamKeys PROVE ParamInv(k)'
  <2>0. k \in Keys /\ ParamInv(k) /\ Begun(k) /\ Over(k) /\ Settled(k)
    BY <1>2, <1>4, <1>6, ParamKeysAreKeys
  <2>1. ASSUME NEW p \in InChunk(k) PROVE StateInv(k, p, m.chunk[k].state[p])'
    <3>1. m.chunk[k].state[p] = "hold"
      BY <1>1, <1>3, <2>0 DEF ParamInv, StateInv
    <3> QED BY <1>1, <1>3, <1>5, <3>1 DEF StateInv
  <2>2. /\ cfg.accumulate => HoldsWeights(k, m.chunk[k])
        /\ ~cfg.accumulate => HoldsGrads(k, m.chunk[k], Total)
        /\ k \notin m.accessed /\ Device(m.chunk[k]) = grads_device[k[1]]
    BY <2>0 DEF ParamInv
  <2>3. /\ (cfg.accumulate => HoldsWeights(k, m.chunk[k]))'
        /\ (~cfg.accumulate => HoldsGrads(k, m.chunk[k], Total))'
        /\ (k \notin m.accessed /\ Device(m.chunk[k]) = grads_device[k[1]])'
    BY <1>1, <1>5, <1>6, <2>2 DEF HoldsWeights, HoldsGrads, Device, OnCuda
  <2> QED BY <1>6, <2>1, <2>3 DEF ParamInv
<1>8. ASSUME NEW g \in Keys \ ParamKeys PROVE GradInv(g)'
  <2>0. GradInv(g) /\ Begun(g) /\ Over(g) /\ Summed(g) = Total
    BY <1>2, <1>4, <1>6
  <2>1. /\ HoldsGrads(g, m.chunk[g], Summed(g))' <=> HoldsGrads(g, m.chunk[g], Total)
        /\ Device(m.chunk[g])' = Device(m.chunk[g])
        /\ AllIn(m.chunk[g], {"hold"})' <=> AllIn(m.chunk[g], {"hold"})
    BY <1>5, <1>6 DEF HoldsGrads, Device, OnCuda, AllIn
  <2> QED BY <1>1, <1>5, <1>6, <2>0, <2>1 DEF GradInv
<1>9. WorksInv'
  BY <1>1, <1>2, <1>5 DEF WorksInv
<1>10. LayoutInv' /\ Sound(m)'
  <2>1. manager'.layout = manager.layout
    BY <1>1, <1>2 DEF CoreInv, ListInv
  <2> QED BY <1>1, <1>2, <1>5, <2>1, LayoutKept, PrimedContents
<1> QED BY <1>7, <1>8, <1>9, <1>10 DEF ContentInv

\* After inference every chunk is scattered, and the weights are there.
LEMMA PostForwardFacts ==
  ASSUME IInv, phase = "inference", ~running, since = {}, version \in Nat,
         grads_device \in [Chunks -> {"cuda", "cpu"}],
         NEW z, z = PostForward(m)
  PROVE  /\ Sound(z) /\ Carried(m, z) /\ z.accessed = {} /\ z.accessed_mem = 0
         /\ z.works = m.works
         /\ \A g \in Keys \ ParamKeys : z.chunk[g] = m.chunk[g]
<1> DEFINE kept == {k \in m.accessed : Kept(k)}
           rest == m.accessed \ kept
           f == FakeRelease(m, kept)
           y == Asserting(f, \A k \in rest : CanRelease(k, m.chunk[k]))
           r == Release(f, rest)
<1>1. /\ Sound(m)
      /\ \A k \in ParamKeys : ParamInv(k)
      /\ \A g \in Keys \ ParamKeys : GradInv(g)
  BY DEF IInv, ContentInv
<1>2. m.accessed \in SUBSET Keys /\ \A k \in Keys : Well(k, m.chunk[k])
  BY <1>1 DEF Sound, Managers
<1>3. m.accessed \subseteq ParamKeys
  BY <1>1, <1>2 DEF GradInv, Begun
<1>4. \A k \in ParamKeys : HoldsWeights(k, m.chunk[k]) /\ AllIn(m.chunk[k], {"hold"})
  <2> SUFFICES ASSUME NEW k \in ParamKeys
               PROVE  HoldsWeights(k, m.chunk[k]) /\ AllIn(m.chunk[k], {"hold"})
    OBVIOUS
  <2>1. ~Begun(k) /\ ~Settled(k) /\ ParamInv(k) /\ k \in Keys
    BY <1>1, ParamKeysAreKeys DEF Begun, Settled, Over
  <2>2. \A p \in InChunk(k) : m.chunk[k].state[p] = "hold"
    BY <2>1 DEF ParamInv, StateInv, Active
  <2>3. DOMAIN m.chunk[k].state = InChunk(k)
    BY <1>2, <2>1 DEF Well, ChunkType
  <2> QED BY <2>1, <2>2, <2>3, RestingParam DEF AllIn
<1>5. /\ Sound(f) /\ f.accessed = m.accessed \ kept /\ f.works = m.works
      /\ \A k \in Keys : f.chunk[k] = m.chunk[k]
  <2>1. PICK S \in SUBSET m.accessed : S = kept
    OBVIOUS
  <2>2. \A k \in S : Kept(k) /\ AllIn(m.chunk[k], {"hold"})
    BY <1>3, <1>4, <2>1
  <2>3. /\ Sound(FakeRelease(m, S)) /\ FakeRelease(m, S).accessed = m.accessed \ S
        /\ FakeRelease(m, S).works = m.works
        /\ \A k \in Keys : FakeRelease(m, S).chunk[k] = m.chunk[k]
    BY ONLY <1>1, <2>2, S \in SUBSET m.accessed, FakeReleaseFacts
  <2> QED BY <2>1, <2>3
<1>6. \A k \in rest : k \in Keys /\ k \in ParamKeys /\ CanRelease(k, m.chunk[k])
  BY <1>2, <1>3, <1>4 DEF CanRelease, AllIn
<1>7. y = f
  <2> HIDE DEF f, rest
  <2> QED BY <1>6 DEF Asserting
<1>8. z = Move(Release(y, rest), m.accessed, grads_device, FALSE)
  BY DEF PostForward
<1> HIDE DEF f, y
<1>9. /\ Sound(r) /\ Carried(f, r) /\ r.accessed = {} /\ r.works = m.works
      /\ \A k \in Keys \ rest : r.chunk[k] = f.chunk[k]
  <2>1. PICK S \in SUBSET Keys : S = rest
    BY <1>2
  <2>2. S = {k \in S \cap f.accessed : CanRelease(k, f.chunk[k])}
    BY <1>5, <1>6, <2>1
  <2>3. \A k \in S : HoldsWeights(k, f.chunk[k])
    BY <1>4, <1>5, <1>6, <2>1
  <2>4. PICK R : R = S
    OBVIOUS
  <2>5. R = {k \in S \cap f.accessed : CanRelease(k, f.chunk[k])} /\ \A k \in R : HoldsWeights(k, f.chunk[k])
    BY ONLY <2>2, <2>3, <2>4
  <2>6. /\ Sound(Release(f, S)) /\ Carried(f, Release(f, S))
        /\ Release(f, S).accessed = f.accessed \ R /\ Release(f, S).works = f.works
        /\ \A k \in Keys \ R : Release(f, S).chunk[k] = f.chunk[k]
    BY ONLY <1>5, <2>5, version \in Nat, S \in SUBSET Keys, ReleaseFacts
  <2>7. f.accessed \ R = {}
    BY <1>5, <2>1, <2>4
  <2> HIDE DEF rest
  <2> QED BY ONLY <1>5, <2>1, <2>4, <2>6, <2>7 DEF r
<1> HIDE DEF r
<1>10. PICK force \in BOOLEAN : force = FALSE
  OBVIOUS
<1>11. PICK T : T = Shifted(r, m.accessed, grads_device)
  OBVIOUS
<1>12. PICK G : G = {}
  OBVIOUS
<1>13. Moved(r, z, m.accessed, T, grads_device, force, G)
  <2>1. \A k \in T : k \in Keys /\ k \in ParamKeys
    BY <1>2, <1>3, <1>11 DEF Shifted
  <2>2. \A k \in T : HoldsWeights(k, r.chunk[k])
    BY <1>4, <1>5, <1>9, <2>1 DEF Carried
  <2>3. Keeps(r, T, grads_device, force, G)
    BY <2>2 DEF Keeps
  <2>4. z = Move(r, m.accessed, grads_device, force)
    BY <1>7, <1>8, <1>10 DEF r
  <2>5. PICK S \in SUBSET Keys : S = m.accessed
    BY <1>2
  <2>6. PICK dev : dev = grads_device
    OBVIOUS
  <2>7. /\ Sound(r) /\ version \in Nat /\ dev \in [Chunks -> {"cuda", "cpu"}]
        /\ T = Shifted(r, S, dev) /\ Keeps(r, T, dev, force, G) /\ z = Move(r, S, dev, force)
    BY <1>9, <1>11, <2>3, <2>4, <2>5, <2>6
  <2>8. Moved(r, z, S, T, dev, force, G)
    BY ONLY <2>7, S \in SUBSET Keys, force \in BOOLEAN, MoveFacts
  <2> QED BY <2>5, <2>6, <2>8
<1>14. /\ Sound(z) /\ Carried(r, z) /\ z.accessed = {} /\ z.works = m.works
       /\ \A k \in Keys \ T : z.chunk[k] = r.chunk[k]
  BY ONLY <1>9, <1>13 DEF Moved
<1>15. Carried(m, z)
  <2>1. Carried(m, f)
    BY <1>5 DEF Carried
  <2>2. Carried(m, r)
    BY ONLY <1>9, <2>1, CarriedOn
  <2> QED BY ONLY <1>14, <2>2, CarriedOn
<1>16. z.accessed_mem = 0
  <2>1. z.accessed_mem = GroupSize * Cardinality({})
    BY <1>14 DEF Sound
  <2> QED BY <2>1, FS_EmptySet, GeminiAssumption
<1>17. \A g \in Keys \ ParamKeys : z.chunk[g] = m.chunk[g]
  <2> SUFFICES ASSUME NEW g \in Keys \ ParamKeys PROVE z.chunk[g] = m.chunk[g]
    OBVIOUS
  <2>1. g \notin T /\ g \notin rest
    BY <1>3, <1>11 DEF Shifted
  <2> QED BY <1>5, <1>9, <1>14, <2>1
<1> QED BY <1>14, <1>15, <1>16, <1>17

\* The end of inference keeps the invariant.
LEMMA EndInferenceContent ==
  ASSUME IInv, EndInference
  PROVE  Sound(m)' /\ ContentInv'
<1>1. /\ ~running \/ phase = "all gathered"
      /\ phase \in {"inference", "all gathered"} /\ phase' = "idle"
      /\ m' = IF phase = "all gathered" THEN m
              ELSE Asserting(PostForward(m), PostForward(m).accessed_mem = 0)
      /\ manager' = [manager EXCEPT !.compute_idx = -1]
      /\ UNCHANGED <<cfg, grads_device, pos, running, hooks, version, iter, since>>
  BY DEF EndInference
<1>2. /\ CoreInv /\ Sound(m) /\ WorksInv /\ LayoutInv
      /\ \A k \in ParamKeys : ParamInv(k)
      /\ \A g \in Keys \ ParamKeys : GradInv(g)
      /\ version \in Nat /\ grads_device \in [Chunks -> {"cuda", "cpu"}]
  BY DEF IInv, ContentInv, CoreInv, IterationInv, PassInv
<1>3. ~running /\ hooks = {} /\ since = {}
  BY <1>1, <1>2 DEF CoreInv, PassInv, IterationInv
<1>4. m.works = {}
  BY <1>1, <1>2 DEF WorksInv, CoreInv, IterationInv
<1>5. /\ \A k : ~Settled(k) /\ ~Settled(k)' /\ ~Begun(k) /\ ~Begun(k)' /\ ~Over(k) /\ ~Over(k)'
      /\ \A k : Summed(k) = {} /\ Summed(k)' = {}
      /\ \A p : ~Active(p) /\ ~Active(p)'
  BY <1>1, <1>3 DEF Settled, Begun, Over, Summed, Active
<1>6. m.accessed \subseteq ParamKeys
  BY <1>2, <1>5 DEF GradInv, Sound, Managers
<1>7. /\ Sound(m') /\ m'.works = {} /\ m'.accessed \subseteq ParamKeys
      /\ \A k \in Keys : /\ m'.chunk[k].state = m.chunk[k].state
                         /\ HoldsWeights(k, m.chunk[k]) => HoldsWeights(k, m'.chunk[k])
      /\ \A g \in Keys \ ParamKeys : m'.chunk[g] = m.chunk[g]
  <2>1. CASE phase = "all gathered"
    BY <1>1, <1>2, <1>4, <1>6, <2>1
  <2>2. CASE phase = "inference"
    <3>1. PICK z : z = PostForward(m)
      OBVIOUS
    <3>2. /\ Sound(z) /\ Carried(m, z) /\ z.accessed = {} /\ z.accessed_mem = 0
          /\ z.works = m.works
          /\ \A g \in Keys \ ParamKeys : z.chunk[g] = m.chunk[g]
      BY ONLY IInv, <1>2, <1>3, <2>2, <3>1, PostForwardFacts
    <3>3. m' = Asserting(z, z.accessed_mem = 0)
      BY <1>1, <2>2, <3>1
    <3>4. m' = z
      BY <3>2, <3>3 DEF Asserting
    <3> QED BY <1>4, <3>2, <3>4 DEF Carried
  <2> QED BY <1>1, <2>1, <2>2
<1>8. ASSUME NEW k \in ParamKeys PROVE ParamInv(k)'
  <2>0. k \in Keys /\ ParamInv(k)
    BY <1>2, ParamKeysAreKeys
  <2>1. HoldsWeights(k, m.chunk[k])'
    <3>1. HoldsWeights(k, m'.chunk[k])
      BY <1>5, <1>7, <2>0, RestingParam
    <3> QED BY <1>1, <3>1 DEF HoldsWeights
  <2>2. ASSUME NEW p \in InChunk(k) PROVE StateInv(k, p, m.chunk[k].state[p])'
    <3>1. m.chunk[k].state[p] = "hold"
      BY <1>1, <1>5, <2>0 DEF ParamInv, StateInv
    <3>2. m'.chunk[k].state[p] = "hold"
      BY <1>7, <2>0, <3>1
    <3> QED BY <1>1, <1>3, <1>5, <3>2 DEF StateInv
  <2> QED BY <1>5, <2>1, <2>2 DEF ParamInv
<1>9. ASSUME NEW g \in Keys \ ParamKeys PROVE GradInv(g)'
  <2>1. GradInv(g) /\ m'.chunk[g] = m.chunk[g] /\ g \notin m'.accessed /\ cfg' = cfg
    BY <1>1, <1>2, <1>7
  <2>2. AllIn(m.chunk[g], {"hold"})' <=> AllIn(m.chunk[g], {"hold"})
    BY <2>1 DEF AllIn
  <2> QED BY <1>5, <2>1, <2>2 DEF GradInv
<1>10. WorksInv'
  <2>1. hooks' = {} /\ ~running' /\ phase' = "idle" /\ m'.works = {}
    BY <1>1, <1>3, <1>7
  <2> QED BY <2>1 DEF WorksInv
<1>11. LayoutInv' /\ Sound(m)'
  <2>1. manager'.layout = manager.layout
    BY <1>1, <1>2 DEF CoreInv, ListInv
  <2> QED BY <1>1, <1>2, <1>7, <2>1, LayoutKept, PrimedContents
<1> QED BY <1>8, <1>9, <1>10, <1>11 DEF ContentInv

\* So does a step that changes nothing.
LEMMA StutterContent ==
  ASSUME IInv, UNCHANGED vars
  PROVE  Sound(m)' /\ ContentInv'
<1>1. /\ UNCHANGED <<cfg, m, grads_device, phase, pos, running, hooks, manager, version, iter, since>>
      /\ UNCHANGED <<accumulating, overflow, bad, inferences, moved>>
  BY DEF vars
<1>2. /\ CoreInv /\ Sound(m) /\ WorksInv /\ LayoutInv
      /\ \A k \in ParamKeys : ParamInv(k)
      /\ \A g \in Keys \ ParamKeys : GradInv(g)
  BY DEF IInv, ContentInv
<1>3. /\ \A p : /\ Pending(p)' <=> Pending(p)
                /\ Active(p)' <=> Active(p)
      /\ ToSet(Current)' = ToSet(Current)
  BY <1>1 DEF Pending, Later, Active, Current, Ops
<1>4. ASSUME NEW k \in ParamKeys PROVE ParamInv(k)'
  <2>1. ParamInv(k) /\ m' = m
    BY <1>1, <1>2
  <2>2. Over(k)' <=> Over(k)
    BY ONLY <1>1, <1>3, SameStatus
  <2>3. \A p \in InChunk(k) : StateInv(k, p, m.chunk[k].state[p])'
    <3> SUFFICES ASSUME NEW p \in InChunk(k) PROVE StateInv(k, p, m.chunk[k].state[p])'
      OBVIOUS
    <3>1. StateInv(k, p, m.chunk[k].state[p])
      BY <2>1 DEF ParamInv
    <3> QED BY <1>1, <1>3, <2>1, <2>2, <3>1 DEF StateInv
  <2>4. /\ HoldsWeights(k, m.chunk[k]) => HoldsWeights(k, m'.chunk[k])
        /\ SameData(m.chunk[k], m'.chunk[k])
        /\ k \in m'.accessed <=> k \in m.accessed
    BY <2>1 DEF SameData
  <2> QED BY ONLY <1>1, <1>3, <2>1, <2>3, <2>4, k \in ParamKeys, ParamKept
<1>5. ASSUME NEW g \in Keys \ ParamKeys PROVE GradInv(g)'
  <2>1. GradInv(g) /\ m'.chunk[g] = m.chunk[g] /\ (g \in m'.accessed <=> g \in m.accessed)
    BY <1>1, <1>2
  <2> QED BY ONLY <1>1, <1>3, <2>1, g \in Keys \ ParamKeys, GradKept
<1>6. WorksInv'
  BY <1>1, <1>2, <1>3 DEF WorksInv, InHand, Param, ParamKeys
<1>7. LayoutInv' /\ Sound(m)'
  BY <1>1, <1>2, LayoutKept, PrimedContents
<1> QED BY <1>4, <1>5, <1>6, <1>7 DEF ContentInv

-----------------------------------------------------------------------------
(* The step.                                                               *)

\* optim_update puts the new weights where the chunk is, and the CPU copy is
\* no longer trusted.
LEMMA OptimUpdateFacts ==
  ASSUME NEW k \in ParamKeys, k \in Keys, NEW c, Well(k, c), NEW v \in Nat,
         NEW dev \in {"cuda", "cpu"}, Device(c) = dev, c.is_gathered => Kept(k),
         NEW d, d = OptimUpdate(k, c, v, dev)
  PROVE  /\ d \in ChunkType(k) /\ d.ok /\ d.is_gathered = c.is_gathered /\ d.cpu = c.cpu
         /\ d.cuda = None <=> c.cuda = None
         /\ d.state = c.state /\ ~d.cpu_vis
         /\ d.is_gathered => d.global # None /\ d.cuda = None /\ d.optim_sync
         /\ ~d.is_gathered => d.global = None
         /\ ~d.optim_sync => d.cuda = None /\ dev = "cpu"
         /\ Kept(k) => d.is_gathered
         /\ d.optim_sync => Payload(d) = Filled(k, Weight(v))
<1> DEFINE W == Filled(k, Weight(v))
<1>1. c \in ChunkType(k) /\ c.ok
  BY DEF Well
<1>2. W \in Contents(k) /\ W # None
  BY ValueFacts, NoneIsNoContent
<1>3. CASE c.is_gathered
  <2>1. d = [c EXCEPT !.global = W, !.optim_sync = TRUE]
    BY <1>3 DEF OptimUpdate
  <2> HIDE DEF W
  <2>2. /\ d \in ChunkType(k) /\ d.ok /\ d.is_gathered /\ d.cpu = c.cpu /\ d.cuda = c.cuda
        /\ d.state = c.state /\ d.cpu_vis = c.cpu_vis /\ d.global = W /\ d.optim_sync
    BY <1>1, <1>2, <1>3, <2>1 DEF ChunkType
  <2>3. c.cuda = None /\ ~c.cpu_vis
    BY <1>3 DEF Well
  <2>4. Payload(d) = W
    BY <2>2 DEF Payload
  <2> QED BY <1>2, <1>3, <2>2, <2>3, <2>4 DEF W
<1>4. CASE ~c.is_gathered /\ dev = "cuda"
  <2>1. OnCuda(c) /\ c.cuda # None
    BY <1>4 DEF Device, OnCuda
  <2>2. d = [[c EXCEPT !.cuda = W] EXCEPT !.optim_sync = TRUE, !.cpu_vis = FALSE]
    BY <1>4, <2>1 DEF OptimUpdate, Refreshed
  <2> HIDE DEF W
  <2>3. /\ d \in ChunkType(k) /\ d.ok /\ ~d.is_gathered /\ d.cpu = c.cpu /\ d.cuda = W
        /\ d.state = c.state /\ ~d.cpu_vis /\ d.global = c.global /\ d.optim_sync
    BY <1>1, <1>2, <1>4, <2>2 DEF ChunkType
  <2>4. c.global = None /\ ~Kept(k)
    BY <1>4 DEF Well
  <2>5. Payload(d) = W
    BY <1>2, <2>3 DEF Payload
  <2>6. d.is_gathered = c.is_gathered
    BY <1>1, <1>4, <2>3 DEF ChunkType
  <2> QED BY <1>2, <1>4, <2>1, <2>3, <2>4, <2>5, <2>6 DEF W
<1>5. CASE ~c.is_gathered /\ dev = "cpu"
  <2>1. ~OnCuda(c) /\ c.cuda = None
    BY <1>5 DEF Device, OnCuda
  <2>2. d = [c EXCEPT !.optim_sync = FALSE, !.cpu_vis = FALSE]
    BY <1>5, <2>1 DEF OptimUpdate, Refreshed, Asserting
  <2> HIDE DEF W
  <2>3. /\ d \in ChunkType(k) /\ d.ok /\ ~d.is_gathered /\ d.cpu = c.cpu /\ d.cuda = None
        /\ d.state = c.state /\ ~d.cpu_vis /\ d.global = c.global /\ ~d.optim_sync
    BY <1>1, <1>5, <2>1, <2>2 DEF ChunkType
  <2>4. c.global = None /\ ~Kept(k)
    BY <1>5 DEF Well
  <2>5. d.is_gathered = c.is_gathered
    BY <1>1, <1>5, <2>3 DEF ChunkType
  <2> QED BY <1>5, <2>1, <2>3, <2>4, <2>5
<1> QED BY <1>3, <1>4, <1>5

\* Where everything is when the step is taken.
InPlace(gone, device) ==
  /\ Sound(gone) /\ gone.accessed = m.accessed /\ gone.works = m.works
  /\ \A k \in ParamKeys : /\ gone.chunk[k].state = m.chunk[k].state
                          /\ Device(gone.chunk[k]) = device[k[1]]
  /\ \A g \in Keys \ ParamKeys : gone.chunk[g] = m.chunk[g]
  /\ \A c \in Chunks : Device(gone.chunk[GradKey(Param(c))]) = device[c]

\* Before the optimizer updates, what it moves is on the GPU.
LEMMA StepMoved ==
  ASSUME Supported, IInv, phase = "idle", since # {}, NEW X \in ToMove,
         NEW device, device = [c \in Chunks |-> IF c \in X THEN "cuda" ELSE grads_device[c]],
         NEW gone, gone = Move(m, {Param(c) : c \in X}, Everywhere("cuda"), FALSE)
  PROVE  InPlace(gone, device)
<1>1. /\ Sound(m) /\ version \in Nat /\ cfg \in Configs
      /\ \A k \in ParamKeys : ParamInv(k)
      /\ \A g \in Keys \ ParamKeys : GradInv(g)
      /\ grads_device \in [Chunks -> {"cuda", "cpu"}]
      /\ \A c \in Chunks : c \in cfg.kept => grads_device[c] = "cuda"
  BY DEF IInv, ContentInv, CoreInv, IterationInv, PassInv
<1>2. \A k : Settled(k) /\ ~Begun(k) /\ ~Over(k) /\ Summed(k) = since
  BY DEF Settled, Begun, Over, Summed
<1>3. PICK dev : dev = Everywhere("cuda")
  OBVIOUS
<1>4. dev \in [Chunks -> {"cuda", "cpu"}] /\ \A c \in Chunks : dev[c] = "cuda"
  BY <1>3 DEF Everywhere
<1>5. PICK S : S = {Param(c) : c \in X}
  OBVIOUS
<1>6. PICK T : T = Shifted(m, S, dev)
  OBVIOUS
<1>7. PICK force \in BOOLEAN : force = FALSE
  OBVIOUS
<1>8. /\ X \in SUBSET Chunks /\ \A c \in X : grads_device[c] = "cpu"
      /\ cfg.accumulate => X = {}
  <2>1. X \in SUBSET {c \in Chunks : grads_device[c] = "cpu"} \/ X = {}
    BY DEF ToMove
  <2>2. cfg.accumulate => ~cfg.margin
    BY <1>1 DEF Supported
  <2>3. cfg.accumulate => X = {}
    BY <2>2 DEF ToMove
  <2> QED BY <2>1, <2>3
<1>9. S \in SUBSET Keys /\ S \subseteq ParamKeys
  BY <1>5, <1>8, ParamFacts
<1>10. T \subseteq S /\ \A k \in T : ~cfg.accumulate
  BY <1>5, <1>6, <1>8 DEF Shifted
<1>11. PICK G : G = Total
  OBVIOUS
<1>12. Keeps(m, T, dev, force, G)
  <2>1. \A k \in T : HoldsGrads(k, m.chunk[k], G) /\ dev[k[1]] = "cuda"
    BY <1>1, <1>2, <1>4, <1>9, <1>10, <1>11, KeyFacts DEF ParamInv
  <2> QED BY <2>1 DEF Keeps
<1>13. Moved(m, gone, S, T, dev, force, G)
  <2>1. gone = Move(m, S, dev, force)
    BY <1>3, <1>5, <1>7
  <2> QED BY ONLY <1>1, <1>4, <1>6, <1>9, <1>12, <2>1, force \in BOOLEAN, MoveFacts
<1>14. /\ Sound(gone) /\ Carried(m, gone)
       /\ gone.accessed = m.accessed /\ gone.works = m.works
       /\ \A k \in Keys \ T : gone.chunk[k] = m.chunk[k]
       /\ \A k \in S : ~m.chunk[k].is_gathered => Device(gone.chunk[k]) = dev[k[1]]
  BY ONLY <1>13 DEF Moved
<1>15. \A g \in Keys \ ParamKeys : gone.chunk[g] = m.chunk[g]
  BY <1>9, <1>10, <1>14
<1>16. ASSUME NEW k \in ParamKeys
       PROVE  /\ gone.chunk[k].state = m.chunk[k].state
              /\ Device(gone.chunk[k]) = device[k[1]]
  <2>1. k \in Keys /\ k[1] \in Chunks /\ k = Param(k[1])
    BY ParamKeysAreKeys, KeyFacts
  <2>2. gone.chunk[k].state = m.chunk[k].state
    BY <1>14, <2>1 DEF Carried
  <2>3. k \notin m.accessed /\ Device(m.chunk[k]) = grads_device[k[1]]
    BY <1>1, <1>2 DEF ParamInv
  <2>4. CASE k[1] \in X
    <3>1. k \in S /\ ~Kept(k)
      BY <1>1, <1>5, <1>8, <2>1, <2>4 DEF Kept
    <3>2. ~m.chunk[k].is_gathered
      BY <1>1, <2>1, <2>3, <3>1 DEF Sound
    <3> QED BY <1>4, <1>14, <2>1, <2>2, <2>4, <3>1, <3>2
  <2>5. CASE k[1] \notin X
    <3>1. k \notin S
      <4>1. ASSUME NEW c \in X, k = Param(c) PROVE FALSE
        BY <1>8, <2>5, <4>1, ParamFacts
      <4> QED BY <1>5, <4>1
    <3>2. gone.chunk[k] = m.chunk[k]
      BY <1>10, <1>14, <2>1, <3>1
    <3> QED BY <2>1, <2>2, <2>3, <2>5, <3>2
  <2> QED BY <2>4, <2>5
<1>17. ASSUME NEW c \in Chunks PROVE Device(gone.chunk[GradKey(Param(c))]) = device[c]
  <2>1. /\ Param(c) \in ParamKeys /\ Param(c)[1] = c
        /\ GradOf(Param(c)) \in Keys \ ParamKeys /\ GradOf(Param(c))[1] = c
    BY ParamFacts
  <2>2. CASE ~cfg.accumulate
    BY <1>16, <2>1, <2>2 DEF GradKey
  <2>3. CASE cfg.accumulate
    <3>1. GradKey(Param(c)) = GradOf(Param(c)) /\ X = {}
      BY <1>8, <2>3 DEF GradKey
    <3>2. PICK g : g = GradOf(Param(c))
      OBVIOUS
    <3>3. Device(m.chunk[g]) = grads_device[c]
      <4>1. GradInv(g) /\ Summed(g) # {} /\ ~Begun(g)
        BY <1>1, <1>2, <2>1, <3>2
      <4>2. Device(m.chunk[g]) = grads_device[g[1]]
        BY <2>3, <4>1 DEF GradInv
      <4> QED BY <2>1, <3>2, <4>2
    <3>4. gone.chunk[g] = m.chunk[g]
      BY <1>15, <2>1, <3>2
    <3> QED BY <3>1, <3>2, <3>3, <3>4
  <2> QED BY <2>2, <2>3
<1> QED BY ONLY <1>14, <1>15, <1>16, <1>17 DEF InPlace

\* The optimizer step keeps the invariant.
LEMMA StepContent ==
  ASSUME Supported, IInv, Step
  PROVE  Sound(m)' /\ ContentInv'
<1>1. /\ CoreInv /\ Sound(m) /\ WorksInv /\ LayoutInv /\ version \in Nat /\ cfg \in Configs
      /\ \A k \in ParamKeys : ParamInv(k)
      /\ \A g \in Keys \ ParamKeys : GradInv(g)
      /\ grads_device \in [Chunks -> {"cuda", "cpu"}]
      /\ cfg.accumulate => ~overflow
      /\ overflow \in BOOLEAN
  BY DEF IInv, ContentInv, CoreInv, IterationInv, PassInv
<1>2. /\ phase = "idle" /\ since # {} /\ since' = {}
      /\ UNCHANGED <<cfg, phase, pos, running, hooks, manager, iter>>
  BY DEF Step
<1>3. PICK X \in ToMove :
        LET device == [c \in Chunks |-> IF c \in X THEN "cuda" ELSE grads_device[c]]
            gone == Move(m, {Param(c) : c \in X}, Everywhere("cuda"), FALSE)
            there == Asserting(gone, \A c \in Chunks :
                                Device(gone.chunk[GradKey(Param(c))]) = device[c])
        IN /\ grads_device' = device
           /\ IF overflow
                THEN /\ m' = IF cfg.accumulate THEN there ELSE Updated(there, version, device)
                     /\ UNCHANGED <<version, accumulating>>
                ELSE /\ m' = Updated(there, version + 1, device) /\ version' = version + 1
                     /\ accumulating' = FALSE
  BY DEF Step
<1>4. PICK device : device = [c \in Chunks |-> IF c \in X THEN "cuda" ELSE grads_device[c]]
  OBVIOUS
<1>5. PICK gone : gone = Move(m, {Param(c) : c \in X}, Everywhere("cuda"), FALSE)
  OBVIOUS
<1>6. /\ Sound(gone) /\ gone.accessed = m.accessed /\ gone.works = m.works
      /\ \A k \in ParamKeys : /\ gone.chunk[k].state = m.chunk[k].state
                              /\ Device(gone.chunk[k]) = device[k[1]]
      /\ \A g \in Keys \ ParamKeys : gone.chunk[g] = m.chunk[g]
      /\ \A c \in Chunks : Device(gone.chunk[GradKey(Param(c))]) = device[c]
  <2>1. InPlace(gone, device)
    BY ONLY Supported, IInv, <1>2, <1>4, <1>5, X \in ToMove, StepMoved
  <2> QED BY <2>1 DEF InPlace
<1>7. Asserting(gone, \A c \in Chunks : Device(gone.chunk[GradKey(Param(c))]) = device[c]) = gone
  BY <1>6 DEF Asserting
<1> DEFINE new == [k \in ParamKeys |-> OptimUpdate(k, gone.chunk[k], version', device[k[1]])]
<1>8. /\ grads_device' = device /\ version' \in Nat
      /\ m' = Put(gone, new)
  <2>1. /\ grads_device' = device
        /\ IF overflow
             THEN /\ m' = IF cfg.accumulate THEN gone ELSE Updated(gone, version, device)
                  /\ version' = version
             ELSE m' = Updated(gone, version + 1, device) /\ version' = version + 1
    BY ONLY <1>3, <1>4, <1>5, <1>7
  <2>2. m' = Updated(gone, version', device)
    BY <1>1, <2>1
  <2> QED BY <1>1, <2>1, <2>2 DEF Updated
<1>9. device \in [Chunks -> {"cuda", "cpu"}]
  BY <1>1, <1>4
<1>10. \A k : /\ Settled(k) /\ ~Begun(k) /\ ~Over(k) /\ Summed(k) = since
              /\ ~Settled(k)' /\ ~Begun(k)' /\ ~Over(k)' /\ Summed(k)' = {}
  BY <1>2 DEF Settled, Begun, Over, Summed
<1>11. ASSUME NEW k \in ParamKeys
       PROVE  /\ k \in Keys /\ new[k] \in ChunkType(k) /\ new[k].ok
              /\ new[k].is_gathered = gone.chunk[k].is_gathered
              /\ new[k].cpu = gone.chunk[k].cpu
              /\ new[k].cuda = None <=> gone.chunk[k].cuda = None
              /\ new[k].state = m.chunk[k].state /\ ~new[k].cpu_vis
              /\ new[k].is_gathered => new[k].global # None /\ new[k].cuda = None /\ new[k].optim_sync
              /\ ~new[k].is_gathered => new[k].global = None
              /\ ~new[k].optim_sync => new[k].cuda = None /\ device[k[1]] = "cpu"
              /\ Kept(k) => new[k].is_gathered
              /\ new[k].optim_sync => Payload(new[k]) = Filled(k, Weight(version'))
  <2>1. k \in Keys /\ k[1] \in Chunks
    BY ParamKeysAreKeys, KeyFacts
  <2>2. PICK dev \in {"cuda", "cpu"} : dev = device[k[1]]
    BY <1>9, <2>1
  <2>3. PICK c : c = gone.chunk[k]
    OBVIOUS
  <2>4. PICK v \in Nat : v = version'
    BY <1>8
  <2>5. PICK d : d = new[k]
    OBVIOUS
  <2>6. d = OptimUpdate(k, c, v, dev)
    BY <2>2, <2>3, <2>4, <2>5
  <2>7. Well(k, c) /\ Device(c) = dev /\ c.state = m.chunk[k].state
    BY <1>6, <2>1, <2>2, <2>3 DEF Sound
  <2>8. c.is_gathered => Kept(k)
    <3>1. k \notin gone.accessed
      BY <1>1, <1>6, <1>10 DEF ParamInv
    <3> QED BY <1>6, <2>1, <2>3, <3>1 DEF Sound
  <2> HIDE DEF new
  <2>9. /\ d \in ChunkType(k) /\ d.ok /\ d.is_gathered = c.is_gathered /\ d.cpu = c.cpu
        /\ d.cuda = None <=> c.cuda = None
        /\ d.state = c.state /\ ~d.cpu_vis
        /\ d.is_gathered => d.global # None /\ d.cuda = None /\ d.optim_sync
        /\ ~d.is_gathered => d.global = None
        /\ ~d.optim_sync => d.cuda = None /\ dev = "cpu"
        /\ Kept(k) => d.is_gathered
        /\ d.optim_sync => Payload(d) = Filled(k, Weight(v))
    BY ONLY <2>1, <2>6, <2>7, <2>8, k \in ParamKeys, v \in Nat, dev \in {"cuda", "cpu"},
       OptimUpdateFacts
  <2> QED BY ONLY <2>1, <2>2, <2>3, <2>4, <2>5, <2>7, <2>9
<1>12. new \in [ParamKeys -> ChunkRecords]
  <2>1. \A k \in ParamKeys : new[k] \in ChunkRecords
    BY <1>11 DEF ChunkRecords
  <2> QED BY <2>1
<1> HIDE DEF new
<1>13. /\ m' \in Managers /\ m'.accessed = m.accessed /\ m'.accessed_mem = gone.accessed_mem
       /\ m'.total = gone.total /\ m'.works = m.works /\ m'.ok = gone.ok
       /\ \A k \in Keys : m'.chunk[k] = IF k \in ParamKeys THEN new[k] ELSE gone.chunk[k]
  <2>1. PICK S \in SUBSET Keys : S = ParamKeys
    BY ParamKeysAreKeys
  <2>2. gone \in Managers /\ new \in [S -> ChunkRecords]
    BY <1>6, <1>12, <2>1 DEF Sound
  <2>3. /\ Put(gone, new) \in Managers
        /\ Put(gone, new).accessed = gone.accessed
        /\ Put(gone, new).accessed_mem = gone.accessed_mem
        /\ Put(gone, new).total = gone.total /\ Put(gone, new).works = gone.works
        /\ Put(gone, new).ok = gone.ok
        /\ \A k \in Keys : Put(gone, new).chunk[k] = IF k \in S THEN new[k] ELSE gone.chunk[k]
    BY ONLY <2>2, S \in SUBSET Keys, PutFacts
  <2> QED BY <1>6, <1>8, <2>1, <2>3
<1>14. /\ \A k \in ParamKeys : m'.chunk[k] = new[k]
       /\ \A g \in Keys \ ParamKeys : m'.chunk[g] = m.chunk[g] /\ m'.chunk[g] = gone.chunk[g]
  BY <1>6, <1>13, ParamKeysAreKeys
<1>15. Usage(m', Keys) = Usage(gone, Keys)
  <2>1. \A k \in Keys : /\ m'.chunk[k].is_gathered = gone.chunk[k].is_gathered
                        /\ m'.chunk[k].cuda = None <=> gone.chunk[k].cuda = None
                        /\ m'.chunk[k].cpu = None <=> gone.chunk[k].cpu = None
    BY <1>11, <1>14
  <2>2. PICK y : y = m'
    OBVIOUS
  <2>3. /\ {k \in Keys : y.chunk[k].is_gathered} = {k \in Keys : gone.chunk[k].is_gathered}
        /\ {k \in Keys : y.chunk[k].cuda # None} = {k \in Keys : gone.chunk[k].cuda # None}
        /\ {k \in Keys : y.chunk[k].cpu # None} = {k \in Keys : gone.chunk[k].cpu # None}
    BY <2>1, <2>2
  <2>4. Usage(y, Keys) = Usage(gone, Keys)
    BY <2>3 DEF Usage
  <2> QED BY <2>2, <2>4
<1>16. \A k : Kept(k)' <=> Kept(k)
  BY <1>2 DEF Kept
<1>17. \A k \in Keys : Well(k, m.chunk[k])'
  <2>1. ASSUME NEW k \in ParamKeys PROVE Well(k, m.chunk[k])'
    BY <1>8, <1>11, <1>14, <1>16 DEF Well, ParamKeys, ChunkType, Contents
  <2>2. ASSUME NEW g \in Keys \ ParamKeys PROVE Well(g, m.chunk[g])'
    <3>1. Well(g, m.chunk[g]) /\ m.chunk[g].optim_sync /\ m'.chunk[g] = m.chunk[g]
      BY <1>1, <1>14 DEF Sound, GradInv
    <3> QED BY <3>1 DEF Well, ParamKeys
  <2> QED BY <2>1, <2>2
<1>18. Sound(m)'
  <2>1. /\ m'.ok /\ m'.total = Usage(m', Keys)
        /\ m'.accessed_mem = GroupSize * Cardinality(m'.accessed)
    BY <1>6, <1>13, <1>15 DEF Sound
  <2>2. \A k \in Keys : ~Kept(k) => (m'.chunk[k].is_gathered <=> k \in m'.accessed)
    <3>1. \A k \in Keys : ~Kept(k) => (gone.chunk[k].is_gathered <=> k \in gone.accessed)
      BY <1>6 DEF Sound
    <3>2. \A k \in Keys : m'.chunk[k].is_gathered = gone.chunk[k].is_gathered
      BY <1>11, <1>14
    <3> QED BY <1>6, <1>13, <3>1, <3>2
  <2>3. \A k \in Keys : ~Kept(k)' => (m'.chunk[k].is_gathered <=> k \in m'.accessed)
    BY <1>16, <2>2
  <2> QED BY <1>13, <1>17, <2>1, <2>3 DEF Sound
<1>19. \A p : ~Active(p) /\ ~Active(p)' /\ p \notin hooks /\ p \notin hooks'
  BY <1>1, <1>2 DEF CoreInv, PassInv, Active
<1>20. ASSUME NEW k \in ParamKeys PROVE ParamInv(k)'
  <2>0. k \in Keys /\ ParamInv(k)
    BY <1>1, ParamKeysAreKeys
  <2>1. HoldsWeights(k, m.chunk[k])'
    BY <1>11, <1>14 DEF HoldsWeights, Payload
  <2>2. ASSUME NEW p \in InChunk(k) PROVE StateInv(k, p, m.chunk[k].state[p])'
    <3>1. m.chunk[k].state[p] = "hold"
      BY <1>2, <1>19, <2>0 DEF ParamInv, StateInv
    <3>2. m'.chunk[k].state[p] = "hold"
      BY <1>11, <1>14, <2>0, <3>1
    <3> QED BY <1>2, <1>19, <3>2 DEF StateInv
  <2> QED BY <1>10, <2>1, <2>2 DEF ParamInv
<1>21. ASSUME NEW g \in Keys \ ParamKeys PROVE GradInv(g)'
  <2>1. /\ GradInv(g) /\ m'.chunk[g] = m.chunk[g] /\ (g \in m'.accessed <=> g \in m.accessed)
        /\ cfg' = cfg
    BY <1>1, <1>2, <1>13, <1>14
  <2>2. AllIn(m.chunk[g], {"hold"})' <=> AllIn(m.chunk[g], {"hold"})
    BY <2>1 DEF AllIn
  <2> QED BY <1>10, <2>1, <2>2 DEF GradInv
<1>22. WorksInv'
  <2>1. hooks' = {} /\ ~running' /\ phase' = "idle" /\ m'.works = {}
    BY <1>1, <1>2, <1>13 DEF WorksInv, CoreInv, PassInv
  <2> QED BY <2>1 DEF WorksInv
<1>23. LayoutInv'
  BY <1>1, <1>2, LayoutKept
<1> QED BY <1>18, <1>20, <1>21, <1>22, <1>23 DEF ContentInv

-----------------------------------------------------------------------------
(* The hook of a gradient.                                                 *)

\* A gradient that is copied is that of the iteration.
LEMMA FirstGradient ==
  ASSUME iter \in 1 .. MaxIterations
  PROVE  Copied = Grad(Indicator({iter}))
<1>1. [NoGrad EXCEPT ![iter] = 1] = Indicator({iter})
  BY DEF NoGrad, Indicator
<1> QED BY <1>1 DEF Copied

\* One that is added makes one iteration more.
LEMMA NextGradient ==
  ASSUME iter \in 1 .. MaxIterations, iter \notin since
  PROVE  Added(Grad(Indicator(since))) = Grad(Indicator(since \cup {iter}))
<1> DEFINE f == Indicator(since)
<1>1. Grad(f).times = f /\ Grad(f) = [version |-> -2, times |-> f]
  BY DEF Grad
<1>2. f \in [1 .. MaxIterations -> Nat] /\ f[iter] = 0
  BY DEF Indicator
<1>3. Added(Grad(f)) = [version |-> -2, times |-> [f EXCEPT ![iter] = f[iter] + 1]]
  <2> HIDE DEF f
  <2> QED BY <1>1 DEF Added
<1>4. [f EXCEPT ![iter] = f[iter] + 1] = Indicator(since \cup {iter})
  <2> DEFINE u == [f EXCEPT ![iter] = f[iter] + 1]
             w == Indicator(since \cup {iter})
  <2>1. DOMAIN u = 1 .. MaxIterations /\ DOMAIN w = 1 .. MaxIterations
    BY DEF Indicator
  <2>2. ASSUME NEW i \in 1 .. MaxIterations PROVE u[i] = w[i]
    BY <1>2 DEF Indicator
  <2>3. u = [i \in 1 .. MaxIterations |-> u[i]] /\ w = [i \in 1 .. MaxIterations |-> w[i]]
    BY <1>2 DEF Indicator
  <2> HIDE DEF u, w
  <2>4. u = w
    BY <2>2, <2>3
  <2> QED BY <2>4 DEF u, w
<1> QED BY <1>3, <1>4 DEF Grad

\* What c becomes when p has v put into it.
StoredIn(k, c, p, v, d) ==
  /\ Well(k, d) /\ d.is_gathered /\ d.optim_sync /\ d.cuda = c.cuda /\ d.cpu = c.cpu
  /\ d.global \in Contents(k)
  /\ \A q \in InChunk(k) : /\ d.state[q] = IF q = p THEN "ready" ELSE c.state[q]
                           /\ d.global[q] = IF q = p THEN v ELSE c.global[q]

\* A gradient is put into a gathered chunk.
LEMMA StoredChunk ==
  ASSUME NEW k \in Keys, NEW c, Well(k, c), c.is_gathered, NEW p \in InChunk(k),
         c.state[p] = "hold_after_bwd", NEW v \in Values,
         NEW t, t = Trans(c, {p}, "ready"), NEW d, d = [t EXCEPT !.global[p] = v]
  PROVE  StoredIn(k, c, p, v, d)
<1> DEFINE w == [t.global EXCEPT ![p] = v]
<1>1. /\ Well(k, t) /\ t.is_gathered = c.is_gathered /\ t.global = c.global /\ t.cuda = c.cuda
      /\ t.cpu = c.cpu /\ t.optim_sync = c.optim_sync /\ t.cpu_vis = c.cpu_vis
      /\ \A q \in InChunk(k) :
           t.state[q] = IF q \in {p} /\ <<c.state[q], "ready">> \in StateTrans THEN "ready" ELSE c.state[q]
  <2>1. PICK P : P = {p}
    OBVIOUS
  <2>2. PICK s \in States : s = "ready"
    BY DEF States
  <2>3. /\ Well(k, Trans(c, P, s))
        /\ Trans(c, P, s).is_gathered = c.is_gathered /\ Trans(c, P, s).global = c.global
        /\ Trans(c, P, s).cuda = c.cuda /\ Trans(c, P, s).cpu = c.cpu
        /\ Trans(c, P, s).optim_sync = c.optim_sync /\ Trans(c, P, s).cpu_vis = c.cpu_vis
        /\ \A q \in InChunk(k) : Trans(c, P, s).state[q] =
             IF q \in P /\ <<c.state[q], s>> \in StateTrans THEN s ELSE c.state[q]
    BY ONLY Well(k, c), k \in Keys, s \in States, TransFacts
  <2> QED BY <2>1, <2>2, <2>3
<1>2. <<"hold_after_bwd", "ready">> \in StateTrans
  BY DEF StateTrans
<1>3. /\ c \in ChunkType(k) /\ c.global # None /\ c.global \in Contents(k)
      /\ c.cuda = None /\ c.optim_sync
  BY DEF Well, ChunkType
<1>4. d = [t EXCEPT !.global = w]
  <2>1. t \in ChunkType(k)
    BY <1>1 DEF Well
  <2> QED BY <2>1 DEF ChunkType
<1>5. w \in Contents(k) /\ \A q \in InChunk(k) : w[q] = IF q = p THEN v ELSE c.global[q]
  BY <1>1, <1>3 DEF Contents
<1>6. w # None
  BY <1>5, NoneIsNoContent
<1> HIDE DEF w
<1>7. /\ d \in ChunkType(k) /\ d.ok /\ d.is_gathered /\ d.global = w /\ d.cuda = t.cuda
      /\ d.cpu = t.cpu /\ d.optim_sync = t.optim_sync /\ d.cpu_vis = t.cpu_vis
      /\ d.state = t.state
  BY <1>1, <1>4, <1>5 DEF Well, ChunkType
<1>8. Well(k, d)
  BY <1>1, <1>3, <1>6, <1>7 DEF Well
<1>9. \A q \in InChunk(k) : d.state[q] = IF q = p THEN "ready" ELSE c.state[q]
  BY <1>1, <1>2, <1>7
<1> QED BY <1>1, <1>3, <1>5, <1>7, <1>8, <1>9 DEF StoredIn

\* What x becomes when p in chunk k has v put into it.
StoredAt(x, z, k, p, v) ==
  /\ Sound(z) /\ z.accessed = x.accessed /\ z.works = x.works
  /\ \A j \in Keys \ {k} : z.chunk[j] = x.chunk[j]
  /\ z.chunk[k].is_gathered /\ z.chunk[k].optim_sync /\ z.chunk[k].global \in Contents(k)
  /\ \A q \in InChunk(k) :
       /\ z.chunk[k].state[q] = IF q = p THEN "ready" ELSE x.chunk[k].state[q]
       /\ z.chunk[k].global[q] = IF q = p THEN v ELSE x.chunk[k].global[q]

\* copy_tensor_to_chunk_slice and add_tensor_to_chunk_slice do so.
LEMMA StoredFacts ==
  ASSUME NEW x, Sound(x), NEW k \in Keys, x.chunk[k].is_gathered, NEW p \in InChunk(k),
         x.chunk[k].state[p] = "hold_after_bwd", NEW v \in Values,
         v = IF accumulating THEN Added(x.chunk[k].global[p]) ELSE Copied,
         NEW z, z = Stored(x, k, p)
  PROVE  StoredAt(x, z, k, p, v)
<1>1. PICK c : c = x.chunk[k]
  OBVIOUS
<1>0. PICK t : t = Trans(c, {p}, "ready")
  OBVIOUS
<1> DEFINE new == [j \in {k} |-> [t EXCEPT !.global[p] =
                                    IF accumulating THEN Added(@) ELSE Copied]]
<1>2. Asserting(x.chunk[k], x.chunk[k].is_gathered) = c
  BY <1>1 DEF Asserting
<1>3. z = Put(x, new)
  BY <1>0, <1>2 DEF Stored
<1>4. PICK d : d = [t EXCEPT !.global[p] = v]
  OBVIOUS
<1>5. Well(k, c)
  BY <1>1 DEF Sound
<1>6. t.global = c.global
  <2>1. PICK P : P = {p}
    OBVIOUS
  <2>2. PICK s \in States : s = "ready"
    BY DEF States
  <2>3. Trans(c, P, s).global = c.global
    BY ONLY <1>5, k \in Keys, s \in States, TransFacts
  <2> QED BY <1>0, <2>1, <2>2, <2>3
<1>7. t \in ChunkType(k) /\ t.global \in Contents(k)
  <2>1. PICK P : P = {p}
    OBVIOUS
  <2>2. PICK s \in States : s = "ready"
    BY DEF States
  <2>3. Well(k, Trans(c, P, s))
    BY ONLY <1>5, k \in Keys, s \in States, TransFacts
  <2>4. t \in ChunkType(k)
    BY <1>0, <2>1, <2>2, <2>3 DEF Well
  <2>5. c.global \in Contents(k)
    BY <1>1, <1>5 DEF Well, ChunkType
  <2> QED BY <1>6, <2>4, <2>5
<1>8. new[k] = d
  <2>1. new[k] = [t EXCEPT !.global[p] = IF accumulating THEN Added(t.global[p]) ELSE Copied]
    BY <1>7 DEF ChunkType, Contents
  <2>2. (IF accumulating THEN Added(t.global[p]) ELSE Copied) = v
    BY <1>1, <1>6
  <2> QED BY <1>4, <2>1, <2>2
<1>9. /\ Well(k, d) /\ d.is_gathered /\ d.optim_sync /\ d.cuda = c.cuda /\ d.cpu = c.cpu
      /\ d.global \in Contents(k)
      /\ \A q \in InChunk(k) : /\ d.state[q] = IF q = p THEN "ready" ELSE c.state[q]
                               /\ d.global[q] = IF q = p THEN v ELSE c.global[q]
  <2>1. c.is_gathered /\ c.state[p] = "hold_after_bwd"
    BY <1>1
  <2>2. StoredIn(k, c, p, v, d)
    BY ONLY <1>0, <1>4, <1>5, <2>1, k \in Keys, p \in InChunk(k), v \in Values, StoredChunk
  <2> QED BY <2>2 DEF StoredIn
<1>10. PICK S \in SUBSET Keys : S = {k}
  OBVIOUS
<1>11. DOMAIN new = S /\ new = [j \in S |-> new[j]]
  BY <1>10
<1> HIDE DEF new
<1>12. \A j \in S : /\ Well(j, new[j]) /\ new[j].is_gathered = x.chunk[j].is_gathered
                    /\ new[j].cuda = None <=> x.chunk[j].cuda = None
                    /\ new[j].cpu = None <=> x.chunk[j].cpu = None
  <2>1. d.is_gathered = c.is_gathered
    BY <1>1, <1>5, <1>9 DEF Well, ChunkType
  <2> QED BY <1>1, <1>8, <1>9, <1>10, <2>1
<1>13. /\ Sound(z) /\ z.accessed = x.accessed /\ z.works = x.works
       /\ \A j \in Keys : z.chunk[j] = IF j \in S THEN new[j] ELSE x.chunk[j]
  BY ONLY Sound(x), S \in SUBSET Keys, <1>3, <1>11, <1>12, PutSound
<1>14. z.chunk[k] = d /\ \A j \in Keys \ {k} : z.chunk[j] = x.chunk[j]
  BY <1>8, <1>10, <1>13
<1> QED BY ONLY <1>1, <1>9, <1>13, <1>14 DEF StoredAt

\* What the hook of p changes of what is to come.
LEMMA HookStatus ==
  ASSUME IInv, NEW p \in hooks, hooks' = hooks \ {p},
         UNCHANGED <<cfg, grads_device, phase, pos, running, version, iter, since>>
  PROVE  /\ phase = "backward" /\ ~running /\ p \in Params /\ Pending(p) /\ ~Pending(p)'
         /\ \A q : q # p => (Pending(q)' <=> Pending(q))
         /\ iter \in 1 .. MaxIterations /\ iter \notin since
         /\ accumulating <=> cfg.accumulate /\ since # {}
         /\ cfg.accumulate \in BOOLEAN /\ (~cfg.accumulate => since = {})
         /\ Total = since \cup {iter} /\ Total' = Total
         /\ version \in Nat
<1>1. PassInv /\ IterationInv
  BY DEF IInv, CoreInv
<1>2. phase = "backward" /\ ~running /\ p \in Params /\ ~Later(p, pos)
  BY <1>1 DEF PassInv
<1>3. Pending(p) /\ ~Pending(p)' /\ \A q : q # p => (Pending(q)' <=> Pending(q))
  BY <1>2 DEF Pending, Later
<1>4. /\ iter \in 1 .. MaxIterations /\ iter \notin since /\ version \in Nat
      /\ accumulating <=> cfg.accumulate /\ since # {}
      /\ ~cfg.accumulate => since = {}
  BY <1>1, <1>2 DEF IterationInv
<1>5. cfg.accumulate \in BOOLEAN
  BY <1>1, GeminiAssumption DEF PassInv
<1>6. Total = since \cup {iter} /\ Total' = Total
  BY <1>2 DEF Total
<1> QED BY <1>2, <1>3, <1>4, <1>5, <1>6

\* The chunks of p, when its hook runs.
LEMMA HookStart ==
  ASSUME IInv, NEW p \in hooks, NEW k, k = Param(ChunkOf[p]), NEW g, g = GradOf(k)
  PROVE  /\ k \in ParamKeys /\ k \in Keys /\ g \in Keys \ ParamKeys /\ g[1] = k[1]
         /\ k[1] \in Chunks /\ GradOf(k) = g
         /\ p \in InChunk(k) /\ InChunk(g) = InChunk(k)
         /\ \A j \in Keys \ {k, g} : p \notin InChunk(j)
         /\ phase = "backward" /\ ~running /\ p \in Params /\ Pending(p) /\ ~Over(k) /\ ~Over(g)
         /\ k \in m.accessed /\ k \notin m.works
         /\ m.chunk[k].is_gathered /\ m.chunk[k].optim_sync
         /\ m.chunk[k].state[p] = "hold_after_bwd"
         /\ Sound(m) /\ ParamInv(k) /\ GradInv(g)
<1>1. PassInv /\ Sound(m) /\ WorksInv
  BY DEF IInv, CoreInv, ContentInv
<1>2. phase = "backward" /\ ~running /\ p \in Params /\ ChunkOf[p] \in Chunks
  BY <1>1, MemberFacts DEF PassInv
<1>3. /\ k \in ParamKeys /\ k \in Keys /\ g \in Keys \ ParamKeys /\ g[1] = ChunkOf[p]
      /\ k[1] = ChunkOf[p]
  BY <1>2, ParamFacts
<1>4. /\ p \in InChunk(k) /\ InChunk(g) = InChunk(k)
      /\ \A j \in Keys \ {k, g} : p \notin InChunk(j)
  <2>1. InChunk(g) = InChunk(k)
    BY <1>2, SameParams
  <2>2. /\ p \in InChunk(k)
        /\ \A j \in ParamKeys : p \in InChunk(j) => j = k
        /\ \A j \in Keys \ ParamKeys : p \in InChunk(j) => j = g
    BY ONLY <1>2, k = Param(ChunkOf[p]), g = GradOf(k), MemberFacts
  <2> QED BY <2>1, <2>2
<1>5. Pending(p) /\ ~Over(k) /\ ~Over(g)
  BY <1>4 DEF Pending, Over
<1>6. k \in m.accessed /\ k \notin m.works
  BY <1>1 DEF WorksInv, InHand
<1>7. ParamInv(k) /\ GradInv(g)
  BY <1>3 DEF IInv, ContentInv
<1>8. m.chunk[k].state[p] = "hold_after_bwd"
  BY <1>4, <1>7 DEF ParamInv, StateInv
<1>9. m.chunk[k].is_gathered /\ m.chunk[k].optim_sync
  <2>1. Well(k, m.chunk[k]) /\ (~Kept(k) => m.chunk[k].is_gathered)
    BY <1>1, <1>3, <1>6 DEF Sound
  <2> QED BY <1>3, <2>1 DEF Well
<1> QED BY <1>1, <1>2, <1>3, <1>4, <1>5, <1>6, <1>7, <1>8, <1>9

\* The other chunks, and all that is not about one chunk.
LEMMA HookContent ==
  ASSUME IInv, NEW p \in hooks, hooks' = hooks \ {p},
         UNCHANGED <<cfg, grads_device, phase, pos, running, manager, version, iter, since>>,
         NEW k, k = Param(ChunkOf[p]), NEW g, g = GradOf(k),
         Sound(m'), m'.works = m.works,
         \A j \in Keys \ {k, g} : /\ m'.chunk[j] = m.chunk[j]
                                  /\ j \in m'.accessed <=> j \in m.accessed,
         ParamInv(k)', GradInv(g)', Over(k)' \/ k \in m'.accessed
  PROVE  Sound(m)' /\ ContentInv'
<1>1. /\ k \in ParamKeys /\ k \in Keys /\ g \in Keys \ ParamKeys
      /\ \A j \in Keys \ {k, g} : p \notin InChunk(j)
      /\ phase = "backward" /\ ~running /\ k \notin m.works
  BY ONLY IInv, p \in hooks, k = Param(ChunkOf[p]), g = GradOf(k), HookStart
<1>2. \A q : q # p => (Pending(q)' <=> Pending(q)) /\ (q \in hooks' <=> q \in hooks)
  BY DEF Pending, Later
<1>3. /\ WorksInv /\ LayoutInv
      /\ \A j \in ParamKeys : ParamInv(j)
      /\ \A j \in Keys \ ParamKeys : GradInv(j)
  BY DEF IInv, ContentInv
<1>4. \A q : ~Active(q) /\ ~Active(q)'
  BY <1>1 DEF Active
<1>5. ASSUME NEW j \in ParamKeys PROVE ParamInv(j)'
  <2>1. CASE j = k
    BY <2>1
  <2>2. CASE j # k
    <3>1. j \in Keys \ {k, g} /\ ParamInv(j)
      BY <1>1, <1>3, <2>2, ParamKeysAreKeys
    <3>2. \A q \in InChunk(j) : q # p /\ (Pending(q)' <=> Pending(q))
      BY <1>1, <1>2, <3>1
    <3>3. Over(j)' <=> Over(j)
      BY <3>2, SameStatus
    <3>4. ASSUME NEW q \in InChunk(j) PROVE StateInv(j, q, m.chunk[j].state[q])'
      <4>1. StateInv(j, q, m.chunk[j].state[q]) /\ m'.chunk[j] = m.chunk[j]
        BY <3>1 DEF ParamInv
      <4> QED BY <1>2, <1>4, <3>2, <3>3, <4>1 DEF StateInv
    <3>5. /\ HoldsWeights(j, m.chunk[j]) => HoldsWeights(j, m'.chunk[j])
          /\ SameData(m.chunk[j], m'.chunk[j])
          /\ j \in m'.accessed <=> j \in m.accessed
      BY <3>1 DEF SameData
    <3>6. UNCHANGED <<cfg, grads_device, version, phase, since, iter>>
      OBVIOUS
    <3> QED BY ONLY <3>1, <3>2, <3>4, <3>5, <3>6, j \in ParamKeys, ParamKept
  <2> QED BY <2>1, <2>2
<1>6. ASSUME NEW j \in Keys \ ParamKeys PROVE GradInv(j)'
  <2>1. CASE j = g
    BY <2>1
  <2>2. CASE j # g
    <3>1. j \in Keys \ {k, g} /\ GradInv(j)
      BY <1>1, <1>3, <2>2
    <3>2. \A q \in InChunk(j) : Pending(q)' <=> Pending(q)
      BY <1>1, <1>2, <3>1
    <3>3. m'.chunk[j] = m.chunk[j] /\ (j \in m'.accessed <=> j \in m.accessed)
      BY <3>1
    <3>4. UNCHANGED <<cfg, grads_device, phase, since, iter>>
      OBVIOUS
    <3> QED BY ONLY <3>1, <3>2, <3>3, <3>4, j \in Keys \ ParamKeys, GradKept
  <2> QED BY <2>1, <2>2
<1>7. WorksInv'
  <2>1. m'.works \subseteq m'.accessed \cap ParamKeys
    BY <1>1, <1>3, ParamKeysAreKeys DEF WorksInv
  <2>2. ASSUME NEW q \in hooks' PROVE InHand(q)'
    <3>1. q \in hooks /\ InHand(q) /\ q \in Params
      BY <1>3 DEF WorksInv, IInv, CoreInv, PassInv
    <3>2. Param(ChunkOf[q]) \in ParamKeys /\ q \in InChunk(Param(ChunkOf[q]))
      BY <3>1, MemberFacts, ParamFacts
    <3>3. CASE Param(ChunkOf[q]) = k
      <4>1. Pending(q)'
        BY DEF Pending
      <4>2. ~Over(k)'
        BY <3>2, <3>3, <4>1 DEF Over, InChunk
      <4> QED BY <1>1, <3>3, <4>2 DEF InHand
    <3>4. CASE Param(ChunkOf[q]) # k
      <4>1. Param(ChunkOf[q]) \in Keys \ {k, g}
        BY <1>1, <3>2, <3>4, ParamKeysAreKeys
      <4>2. Param(ChunkOf[q])' = Param(ChunkOf[q])
        OBVIOUS
      <4> QED BY <3>1, <4>1, <4>2 DEF InHand
    <3> QED BY <3>3, <3>4
  <2>3. /\ ~running' /\ phase' = "backward"
        /\ cfg'.prefetch = 0 \/ phase' \in {"idle", "all gathered"} => m'.works = {}
    BY <1>1, <1>3 DEF WorksInv
  <2>4. \A q \in hooks' : InHand(q)'
    BY <2>2
  <2> QED BY <2>1, <2>3, <2>4 DEF WorksInv, ParamKeys
<1>8. LayoutInv'
  BY <1>3, LayoutKept
<1>9. Sound(m)'
  BY PrimedContents
<1> QED BY <1>5, <1>6, <1>7, <1>8, <1>9 DEF ContentInv

\* A chunk is put where the gradients of its kind go.
PutAway(z, w, j, G) ==
  /\ Sound(w) /\ w.accessed = z.accessed /\ w.works = z.works
  /\ \A i \in Keys \ {j} : w.chunk[i] = z.chunk[i]
  /\ w.chunk[j].state = z.chunk[j].state
  /\ HoldsGrads(j, z.chunk[j], G) => HoldsGrads(j, w.chunk[j], G)
  /\ HoldsWeights(j, z.chunk[j]) => HoldsWeights(j, w.chunk[j])
  /\ Device(w.chunk[j]) = grads_device[j[1]]

\* The move after a reduction puts the chunk away.
LEMMA PutAwayFacts ==
  ASSUME PassInv, version \in Nat, NEW z, Sound(z), NEW j \in Keys, NEW G,
         HoldsGrads(j, z.chunk[j], G) \/ HoldsWeights(j, z.chunk[j]),
         z.chunk[j].is_gathered => Kept(j),
         NEW w, w = Move(z, {j}, grads_device, ForceCopy)
  PROVE  PutAway(z, w, j, G)
<1>1. /\ grads_device \in [Chunks -> {"cuda", "cpu"}]
      /\ \A c \in Chunks : c \in cfg.kept => grads_device[c] = "cuda"
      /\ j[1] \in Chunks
  BY KeyFacts DEF PassInv
<1>2. PICK S \in SUBSET Keys : S = {j}
  OBVIOUS
<1>3. PICK dev \in [Chunks -> {"cuda", "cpu"}] : dev = grads_device
  BY <1>1
<1>4. PICK force \in BOOLEAN : force = ForceCopy /\ force
  BY DEF ForceCopy
<1>5. PICK T : T = Shifted(z, S, dev)
  OBVIOUS
<1>6. T \subseteq S
  BY <1>5 DEF Shifted
<1>7. Keeps(z, T, dev, force, G)
  BY <1>2, <1>4, <1>6 DEF Keeps
<1>8. Moved(z, w, S, T, dev, force, G)
  <2>1. w = Move(z, S, dev, force)
    BY <1>2, <1>3, <1>4
  <2> QED BY ONLY Sound(z), version \in Nat, S \in SUBSET Keys, dev \in [Chunks -> {"cuda", "cpu"}],
                  force \in BOOLEAN, <1>5, <1>7, <2>1, MoveFacts
<1>9. /\ Sound(w) /\ Carried(z, w) /\ w.accessed = z.accessed /\ w.works = z.works
      /\ \A k \in T : HoldsGrads(k, z.chunk[k], G) => HoldsGrads(k, w.chunk[k], G)
      /\ \A k \in Keys \ T : w.chunk[k] = z.chunk[k]
      /\ \A k \in S : ~z.chunk[k].is_gathered => Device(w.chunk[k]) = dev[k[1]]
  BY ONLY <1>4, <1>8 DEF Moved
<1>10. HoldsGrads(j, z.chunk[j], G) => HoldsGrads(j, w.chunk[j], G)
  BY <1>9
<1>11. /\ w.chunk[j].state = z.chunk[j].state
       /\ HoldsWeights(j, z.chunk[j]) => HoldsWeights(j, w.chunk[j])
  BY <1>9 DEF Carried
<1>12. Device(w.chunk[j]) = grads_device[j[1]]
  <2>1. CASE z.chunk[j].is_gathered
    <3>1. j \notin T
      BY <1>5, <2>1 DEF Shifted
    <3>2. w.chunk[j] = z.chunk[j] /\ grads_device[j[1]] = "cuda"
      BY <1>1, <1>9, <2>1, <3>1 DEF Kept
    <3> QED BY <2>1, <3>2 DEF Device, OnCuda
  <2>2. CASE ~z.chunk[j].is_gathered
    BY <1>2, <1>3, <1>9, <2>2
  <2> QED BY <2>1, <2>2
<1>13. \A i \in Keys \ {j} : w.chunk[i] = z.chunk[i]
  BY <1>2, <1>6, <1>9
<1> QED BY ONLY <1>9, <1>10, <1>11, <1>12, <1>13 DEF PutAway

\* Without accumulation: what the chunk of weights holds by then.
LEMMA PlainStored ==
  ASSUME IInv, NEW p \in hooks, hooks' = hooks \ {p}, ~cfg.accumulate,
         UNCHANGED <<cfg, grads_device, phase, pos, running, version, iter, since>>,
         NEW k, k = Param(ChunkOf[p]), NEW y, y = Stored(m, k, p)
  PROVE  /\ Sound(y) /\ y.accessed = m.accessed /\ y.works = m.works
         /\ \A j \in Keys \ {k} : y.chunk[j] = m.chunk[j]
         /\ y.chunk[k].is_gathered /\ y.chunk[k].global = Mixed(k)'
         /\ \A q \in InChunk(k) : y.chunk[k].state[q] = "ready" <=> ~Pending(q)'
         /\ \A q \in InChunk(k) : /\ q \in hooks' => y.chunk[k].state[q] = "hold_after_bwd"
                                  /\ Pending(q)' => y.chunk[k].state[q] \in {"hold", "hold_after_bwd"}
<1>1. PICK g : g = GradOf(k)
  OBVIOUS
<1>2. /\ k \in ParamKeys /\ k \in Keys /\ p \in InChunk(k)
      /\ phase = "backward" /\ ~running /\ p \in Params /\ Pending(p) /\ ~Over(k)
      /\ m.chunk[k].is_gathered /\ m.chunk[k].optim_sync
      /\ m.chunk[k].state[p] = "hold_after_bwd"
      /\ Sound(m) /\ ParamInv(k)
  BY ONLY IInv, p \in hooks, k = Param(ChunkOf[p]), <1>1, HookStart
<1>3. /\ ~Pending(p)'
      /\ \A q : q # p => (Pending(q)' <=> Pending(q))
      /\ iter \in 1 .. MaxIterations
      /\ accumulating <=> cfg.accumulate /\ since # {}
      /\ since = {}
      /\ Total = since \cup {iter} /\ Total' = Total
  BY HookStatus
<1>4. PICK v : v = Grad(Indicator(Total))
  OBVIOUS
<1>5. v = Copied /\ v \in Values
  <2>1. Total = {iter}
    BY <1>3
  <2>2. Copied = Grad(Indicator({iter}))
    BY ONLY <1>3, FirstGradient
  <2>3. Indicator(Total) \in [1 .. MaxIterations -> Nat]
    BY DEF Indicator
  <2> QED BY <1>4, <2>1, <2>2, <2>3, ValueFacts
<1>6. StoredAt(m, y, k, p, v)
  <2>1. v = IF accumulating THEN Added(m.chunk[k].global[p]) ELSE Copied
    BY <1>3, <1>5
  <2> QED BY ONLY <1>2, <1>5, <2>1, y = Stored(m, k, p), StoredFacts
<1>7. /\ Sound(y) /\ y.accessed = m.accessed /\ y.works = m.works
      /\ \A j \in Keys \ {k} : y.chunk[j] = m.chunk[j]
      /\ y.chunk[k].is_gathered /\ y.chunk[k].global \in Contents(k)
      /\ \A q \in InChunk(k) :
           /\ y.chunk[k].state[q] = IF q = p THEN "ready" ELSE m.chunk[k].state[q]
           /\ y.chunk[k].global[q] = IF q = p THEN v ELSE m.chunk[k].global[q]
  BY ONLY <1>6 DEF StoredAt
<1>8. ASSUME NEW q \in InChunk(k)
      PROVE  /\ y.chunk[k].state[q] = "ready" <=> ~Pending(q)'
             /\ q \in hooks' => y.chunk[k].state[q] = "hold_after_bwd"
             /\ Pending(q)' => y.chunk[k].state[q] \in {"hold", "hold_after_bwd"}
  <2>1. CASE q = p
    BY <1>3, <1>7, <2>1
  <2>2. CASE q # p
    <3>1. StateInv(k, q, m.chunk[k].state[q]) /\ ~Active(q)
      BY <1>2 DEF ParamInv, Active
    <3>2. y.chunk[k].state[q] = m.chunk[k].state[q] /\ (Pending(q)' <=> Pending(q))
      BY <1>3, <1>7, <2>2
    <3>3. /\ q \in hooks => m.chunk[k].state[q] = "hold_after_bwd"
          /\ Pending(q) => m.chunk[k].state[q] \in {"hold", "hold_after_bwd"}
          /\ ~Pending(q) => m.chunk[k].state[q] = "ready"
      BY <1>2, <3>1 DEF StateInv
    <3> QED BY <3>2, <3>3
  <2> QED BY <2>1, <2>2
<1>9. \A q \in InChunk(k) :
        m.chunk[k].global[q] = IF Pending(q) THEN Weight(version) ELSE v
  <2>1. CASE Begun(k)
    <3>1. m.chunk[k].global = Mixed(k)
      BY <1>2, <2>1 DEF ParamInv
    <3> QED BY <1>4, <3>1 DEF Mixed
  <2>2. CASE ~Begun(k)
    <3>1. HoldsWeights(k, m.chunk[k])
      BY <1>2, <2>2 DEF ParamInv, Settled
    <3>2. m.chunk[k].global = Filled(k, Weight(version))
      BY <1>2, <3>1 DEF HoldsWeights, Payload
    <3>3. \A q \in InChunk(k) : Pending(q)
      BY <1>2, <2>2 DEF Begun
    <3> QED BY <3>2, <3>3 DEF Filled
  <2> QED BY <2>1, <2>2
<1>10. y.chunk[k].global = Mixed(k)'
  <2>1. \A q \in InChunk(k) :
          y.chunk[k].global[q] = IF Pending(q)' THEN Weight(version) ELSE v
    BY <1>2, <1>3, <1>7, <1>9
  <2>2. Mixed(k)' = [q \in InChunk(k) |-> IF Pending(q)' THEN Weight(version) ELSE v]
    BY <1>3, <1>4 DEF Mixed
  <2>3. y.chunk[k].global = [q \in InChunk(k) |-> y.chunk[k].global[q]]
    BY <1>7 DEF Contents
  <2> QED BY ONLY <2>1, <2>2, <2>3
<1> QED BY ONLY <1>7, <1>8, <1>10

\* Without accumulation a gradient hook keeps the invariant.
LEMMA PlainHook ==
  ASSUME IInv, NEW p \in Params, GradHandle(p), ~cfg.accumulate
  PROVE  Sound(m)' /\ ContentInv'
<1>1. PICK k : k = Param(ChunkOf[p])
  OBVIOUS
<1>2. PICK g : g = GradOf(k)
  OBVIOUS
<1>3. PICK y : y = Stored(m, k, p)
  OBVIOUS
<1>4. PICK z : z = Reduce(y, k)
  OBVIOUS
<1>5. /\ p \in hooks /\ hooks' = hooks \ {p}
      /\ UNCHANGED <<cfg, grads_device, phase, pos, running, manager, version, iter, since>>
  BY DEF GradHandle
<1>6. /\ k \in ParamKeys /\ k \in Keys /\ g \in Keys \ ParamKeys /\ g[1] = k[1] /\ k[1] \in Chunks
      /\ p \in InChunk(k) /\ InChunk(g) = InChunk(k)
      /\ phase = "backward" /\ ~running
      /\ k \in m.accessed /\ k \notin m.works
      /\ m.chunk[k].state[p] = "hold_after_bwd" /\ Sound(m) /\ ParamInv(k) /\ GradInv(g)
  BY ONLY IInv, <1>1, <1>2, <1>5, HookStart
<1>7. m' = IF AllIn(y.chunk[k], {"ready"}) THEN AfterReduce(z, k) ELSE y
  <2>1. Asserting(m, m.chunk[k].state[p] = "hold_after_bwd") = m /\ GradKey(k) = k
    BY <1>6 DEF Asserting, GradKey
  <2> QED BY <1>1, <1>3, <1>4, <2>1 DEF GradHandle
<1>8. /\ Sound(y) /\ y.accessed = m.accessed /\ y.works = m.works
      /\ \A j \in Keys \ {k} : y.chunk[j] = m.chunk[j]
      /\ y.chunk[k].is_gathered /\ y.chunk[k].global = Mixed(k)'
      /\ \A q \in InChunk(k) : y.chunk[k].state[q] = "ready" <=> ~Pending(q)'
      /\ \A q \in InChunk(k) : /\ q \in hooks' => y.chunk[k].state[q] = "hold_after_bwd"
                               /\ Pending(q)' => y.chunk[k].state[q] \in {"hold", "hold_after_bwd"}
  BY ONLY IInv, ~cfg.accumulate, <1>1, <1>3, <1>5, PlainStored
<1>9. /\ ~Pending(p)' /\ Total' = Total /\ PassInv /\ version \in Nat
  <2>1. ~Pending(p)' /\ Total' = Total /\ version \in Nat
    BY ONLY IInv, <1>5, HookStatus
  <2> QED BY <2>1 DEF IInv, CoreInv
<1>10. /\ phase' = "backward" /\ cfg' = cfg /\ Begun(k)'
       /\ \A q : ~Active(q)'
  BY <1>5, <1>6, <1>9 DEF Begun, Active, InChunk
<1>11. AllIn(y.chunk[k], {"ready"}) <=> Over(k)'
  <2>1. DOMAIN y.chunk[k].state = InChunk(k)
    BY <1>6, <1>8 DEF Sound, Well, ChunkType
  <2>2. Over(k)' <=> \A q \in InChunk(k) : ~Pending(q)'
    BY <1>10 DEF Over, InChunk
  <2> QED BY ONLY <1>8, <2>1, <2>2 DEF AllIn
<1>12. ASSUME m'.chunk[g] = m.chunk[g], m'.accessed = m.accessed \/ m'.accessed = m.accessed \ {k}
       PROVE  GradInv(g)'
  <2>1. ~cfg'.accumulate /\ g # k
    BY <1>6, <1>10
  <2>2. m'.chunk[g].optim_sync /\ g \notin m'.accessed
    BY <1>6, <1>12, <2>1 DEF GradInv
  <2> QED BY <2>1, <2>2 DEF GradInv
<1>13. CASE ~Over(k)'
  <2>1. m' = y
    BY <1>7, <1>11, <1>13
  <2>2. ParamInv(k)'
    <3>1. ASSUME NEW q \in InChunk(k) PROVE StateInv(k, q, m.chunk[k].state[q])'
      <4>1. /\ m'.chunk[k].state[q] = "ready" <=> ~Pending(q)'
            /\ q \in hooks' => m'.chunk[k].state[q] = "hold_after_bwd"
            /\ Pending(q)' => m'.chunk[k].state[q] \in {"hold", "hold_after_bwd"}
        BY <1>8, <2>1
      <4> QED BY <1>10, <1>13, <4>1 DEF StateInv
    <3>2. ~Settled(k)'
      BY <1>10, <1>13 DEF Settled
    <3>3. k \in m'.accessed /\ m'.chunk[k].is_gathered /\ m'.chunk[k].global = Mixed(k)'
      BY <1>6, <1>8, <2>1
    <3> QED BY <1>10, <3>1, <3>2, <3>3 DEF ParamInv, InChunk
  <2>3. GradInv(g)'
    BY <1>6, <1>8, <1>12, <2>1
  <2>4. /\ Sound(m') /\ m'.works = m.works
        /\ \A j \in Keys \ {k, g} : /\ m'.chunk[j] = m.chunk[j]
                                    /\ j \in m'.accessed <=> j \in m.accessed
        /\ k \in m'.accessed
    BY <1>6, <1>8, <2>1
  <2> QED BY ONLY IInv, <1>1, <1>2, <1>5, <2>2, <2>3, <2>4, HookContent
<1>14. CASE Over(k)'
  <2>1. m' = Move(z, {k}, grads_device, ForceCopy)
    BY <1>7, <1>11, <1>14 DEF AfterReduce
  <2>2. /\ Sound(z) /\ z.accessed = y.accessed \ {k} /\ z.works = y.works
        /\ \A j \in Keys \ {k} : z.chunk[j] = y.chunk[j]
        /\ z.chunk[k].optim_sync /\ Payload(z.chunk[k]) = y.chunk[k].global
        /\ AllIn(z.chunk[k], {"hold"})
        /\ z.chunk[k].is_gathered <=> Kept(k)
    <3>1. k \in y.accessed
      BY <1>6, <1>8
    <3> QED BY ONLY <1>4, <1>8, <3>1, ReduceFacts
  <2>3. PICK G : G = Total
    OBVIOUS
  <2>4. HoldsGrads(k, z.chunk[k], G)
    <3>1. \A q \in InChunk(k) : ~Pending(q)'
      BY <1>14 DEF Over, InChunk
    <3>2. Mixed(k)' = [q \in InChunk(k) |-> IF Pending(q)' THEN Weight(version) ELSE Grad(Indicator(G))]
      BY <1>5, <1>9, <2>3 DEF Mixed
    <3>3. Mixed(k)' = Filled(k, Grad(Indicator(G)))
      BY <3>1, <3>2 DEF Filled
    <3> QED BY <1>8, <2>2, <3>3 DEF HoldsGrads
  <2>5. PICK w : w = m'
    OBVIOUS
  <2>6. PutAway(z, w, k, G)
    <3>1. w = Move(z, {k}, grads_device, ForceCopy)
      BY <2>1, <2>5
    <3> QED BY ONLY <1>6, <1>9, <2>2, <2>4, <3>1, PutAwayFacts
  <2>7. /\ Sound(m') /\ m'.accessed = z.accessed /\ m'.works = z.works
        /\ \A i \in Keys \ {k} : m'.chunk[i] = z.chunk[i]
        /\ m'.chunk[k].state = z.chunk[k].state
        /\ HoldsGrads(k, m'.chunk[k], G)
        /\ Device(m'.chunk[k]) = grads_device[k[1]]
    BY ONLY <2>4, <2>5, <2>6 DEF PutAway
  <2>8. ParamInv(k)'
    <3>1. ASSUME NEW q \in InChunk(k) PROVE StateInv(k, q, m.chunk[k].state[q])'
      <4>1. m'.chunk[k].state[q] = "hold"
        <5>1. DOMAIN z.chunk[k].state = InChunk(k)
          BY <1>6, <2>2 DEF Sound, Well, ChunkType
        <5> QED BY <2>2, <2>7, <5>1 DEF AllIn
      <4>2. ~Pending(q)' /\ q \notin hooks'
        BY <1>14 DEF Over, Pending, InChunk
      <4> QED BY <1>10, <1>14, <4>1, <4>2 DEF StateInv
    <3>2. (HoldsGrads(k, m.chunk[k], Total))'
      BY <1>9, <2>3, <2>7 DEF HoldsGrads
    <3>3. k \notin m'.accessed
      BY <2>2, <2>7
    <3>4. (Device(m.chunk[k]) = grads_device[k[1]])'
      BY <1>5, <2>7 DEF Device, OnCuda
    <3>5. Settled(k)'
      BY <1>14 DEF Settled
    <3> QED BY <1>10, <1>14, <3>1, <3>2, <3>3, <3>4, <3>5 DEF ParamInv, InChunk
  <2>9. GradInv(g)'
    BY <1>6, <1>8, <1>12, <2>2, <2>7
  <2>10. /\ m'.works = m.works
         /\ \A j \in Keys \ {k, g} : /\ m'.chunk[j] = m.chunk[j]
                                     /\ j \in m'.accessed <=> j \in m.accessed
    BY <1>6, <1>8, <2>2, <2>7
  <2> QED BY ONLY IInv, <1>1, <1>2, <1>5, <1>14, <2>7, <2>8, <2>9, <2>10, HookContent
<1> QED BY <1>13, <1>14

\* One state after the other.
LEMMA TwiceFacts ==
  ASSUME NEW k \in Keys, NEW c, Well(k, c), NEW p \in InChunk(k), NEW r \in States, NEW s \in States,
         <<c.state[p], r>> \in StateTrans, <<r, s>> \in StateTrans,
         NEW d, d = Trans(Trans(c, {p}, r), {p}, s)
  PROVE  /\ Well(k, d) /\ SameData(c, d)
         /\ \A q \in InChunk(k) : d.state[q] = IF q = p THEN s ELSE c.state[q]
<1>1. PICK P : P = {p}
  OBVIOUS
<1>2. PICK e : e = Trans(c, P, r)
  OBVIOUS
<1>3. /\ Well(k, e) /\ SameData(c, e)
      /\ \A q \in InChunk(k) :
           e.state[q] = IF q \in P /\ <<c.state[q], r>> \in StateTrans THEN r ELSE c.state[q]
  <2>1. /\ Well(k, Trans(c, P, r))
        /\ Trans(c, P, r).is_gathered = c.is_gathered /\ Trans(c, P, r).global = c.global
        /\ Trans(c, P, r).cuda = c.cuda /\ Trans(c, P, r).cpu = c.cpu
        /\ Trans(c, P, r).optim_sync = c.optim_sync /\ Trans(c, P, r).cpu_vis = c.cpu_vis
        /\ \A q \in InChunk(k) : Trans(c, P, r).state[q] =
             IF q \in P /\ <<c.state[q], r>> \in StateTrans THEN r ELSE c.state[q]
    BY ONLY Well(k, c), k \in Keys, r \in States, TransFacts
  <2> QED BY <1>2, <2>1 DEF SameData
<1>4. /\ Well(k, d) /\ SameData(e, d)
      /\ \A q \in InChunk(k) :
           d.state[q] = IF q \in P /\ <<e.state[q], s>> \in StateTrans THEN s ELSE e.state[q]
  <2>1. /\ Well(k, Trans(e, P, s))
        /\ Trans(e, P, s).is_gathered = e.is_gathered /\ Trans(e, P, s).global = e.global
        /\ Trans(e, P, s).cuda = e.cuda /\ Trans(e, P, s).cpu = e.cpu
        /\ Trans(e, P, s).optim_sync = e.optim_sync /\ Trans(e, P, s).cpu_vis = e.cpu_vis
        /\ \A q \in InChunk(k) : Trans(e, P, s).state[q] =
             IF q \in P /\ <<e.state[q], s>> \in StateTrans THEN s ELSE e.state[q]
    BY ONLY <1>3, k \in Keys, s \in States, TransFacts
  <2>2. d = Trans(e, P, s)
    BY <1>1, <1>2
  <2> QED BY <2>1, <2>2 DEF SameData
<1>5. SameData(c, d)
  BY <1>3, <1>4 DEF SameData
<1>6. \A q \in InChunk(k) : d.state[q] = IF q = p THEN s ELSE c.state[q]
  BY <1>1, <1>3, <1>4
<1> QED BY <1>4, <1>5, <1>6

\* A buffer of gradients that is being filled.
Opened(x, k, g, y) ==
  /\ Sound(y) /\ y.accessed = x.accessed \cup {g} /\ y.works = x.works
  /\ \A j \in Keys \ {g} : y.chunk[j] = x.chunk[j]
  /\ y.chunk[g].is_gathered /\ InUse(g, y.chunk[g])

\* What was put away is put back, by every rank into its own shard.
LEMMA RearrangeFacts ==
  ASSUME NEW k \in ParamKeys, NEW g, g = GradOf(k), g \in Keys, ~Kept(k), Sound(m),
         g \notin m.accessed, ~Kept(g),
         HoldsGrads(g, m.chunk[g], since), AllIn(m.chunk[g], {"hold"}),
         \A p \in InChunk(g) : Pending(p),
         NEW z, z = Rearrange(m, k)
  PROVE  Opened(m, k, g, z)
<1>1. PICK F : F = Filled(g, Grad(Indicator(since)))
  OBVIOUS
<1>2. F \in Contents(g) /\ F # None
  BY <1>1, GradsAreContent
<1>3. PICK old : old = m.chunk[g]
  OBVIOUS
<1>4. Payload(old) = F /\ old.optim_sync /\ ~old.is_gathered /\ Well(g, old)
  BY <1>1, <1>3 DEF HoldsGrads, Sound
<1>5. PICK n : n = IF old.is_gathered THEN GroupSize ELSE 1
  OBVIOUS
<1>6. [q \in InChunk(g) |-> [Payload(old)[q] EXCEPT
         !.times = [i \in 1 .. MaxIterations |-> n * @[i]]]] = F
  <2>1. n = 1
    BY <1>4, <1>5
  <2>2. PICK f : f = Indicator(since)
    OBVIOUS
  <2>3. f \in [1 .. MaxIterations -> Nat]
    BY <2>2 DEF Indicator
  <2>4. [i \in 1 .. MaxIterations |-> n * f[i]] = f
    BY <2>1, <2>3
  <2>5. [Grad(f) EXCEPT !.times = [i \in 1 .. MaxIterations |-> n * @[i]]] = Grad(f)
    <3>1. PICK G : G = Grad(f)
      OBVIOUS
    <3>2. G = [version |-> -2, times |-> f]
      BY <3>1 DEF Grad
    <3>3. [i \in 1 .. MaxIterations |-> n * G.times[i]] = f
      BY <2>4, <3>2
    <3>4. PICK h : h = [i \in 1 .. MaxIterations |-> n * G.times[i]]
      OBVIOUS
    <3>5. G \in Values /\ h = G.times
      BY <2>3, <3>2, <3>3, <3>4 DEF Values
    <3>6. [G EXCEPT !.times = h] = G
      BY ONLY <3>5 DEF Values
    <3> QED BY <3>1, <3>4, <3>6
  <2>6. F = [q \in InChunk(g) |-> Grad(f)]
    BY <1>1, <2>2 DEF Filled
  <2>7. PICK G : G = Grad(f)
    OBVIOUS
  <2>8. [q \in InChunk(g) |-> [F[q] EXCEPT !.times = [i \in 1 .. MaxIterations |-> n * @[i]]]]
          = [q \in InChunk(g) |-> G]
    <3>1. ASSUME NEW q \in InChunk(g)
          PROVE  [F[q] EXCEPT !.times = [i \in 1 .. MaxIterations |-> n * @[i]]] = G
      <4>1. F[q] = Grad(f)
        BY <2>6
      <4> QED BY <2>5, <2>7, <4>1
    <3> QED BY <3>1
  <2> QED BY <1>4, <2>6, <2>7, <2>8
<1>7. PICK y : y = InitGradChunk(m, k)
  OBVIOUS
<1>8. /\ Sound(y) /\ y.accessed = m.accessed \cup {g} /\ y.works = m.works
      /\ \A j \in Keys \ {g} : y.chunk[j] = m.chunk[j]
      /\ y.chunk[g].is_gathered /\ y.chunk[g].optim_sync
      /\ y.chunk[g].state = m.chunk[g].state
  <2>1. m.chunk[g].optim_sync
    BY <1>3, <1>4
  <2> QED BY ONLY Sound(m), k \in ParamKeys, g = GradOf(k), ~Kept(k), <1>7, <2>1, InitGradFacts
<1> DEFINE new == [j \in {g} |-> [y.chunk[j] EXCEPT !.global = F]]
<1>9. z = Put(y, new)
  <2>1. Asserting(m, Payload(old) # None) = m
    BY <1>2, <1>4 DEF Asserting
  <2>2. z = Put(InitGradChunk(Asserting(m, Payload(old) # None), k),
                [j \in {g} |-> [InitGradChunk(Asserting(m, Payload(old) # None), k).chunk[j]
                   EXCEPT !.global = [q \in InChunk(g) |-> [Payload(old)[q] EXCEPT
                     !.times = [i \in 1 .. MaxIterations |-> n * @[i]]]]]])
    BY <1>3, <1>5 DEF Rearrange
  <2> QED BY <1>6, <1>7, <2>1, <2>2
<1>10. PICK c : c = y.chunk[g]
  OBVIOUS
<1>11. PICK d : d = [c EXCEPT !.global = F]
  OBVIOUS
<1>12. new[g] = d
  BY <1>10, <1>11
<1>13. Well(g, c) /\ c.is_gathered /\ c \in ChunkType(g)
  BY <1>8, <1>10 DEF Sound, Well
<1>14. /\ d \in ChunkType(g) /\ d.global = F /\ d.is_gathered = c.is_gathered /\ d.cuda = c.cuda
       /\ d.cpu = c.cpu /\ d.optim_sync = c.optim_sync /\ d.cpu_vis = c.cpu_vis
       /\ d.state = c.state /\ d.ok = c.ok
  BY <1>2, <1>11, <1>13 DEF ChunkType
<1>15. Well(g, d)
  BY <1>2, <1>13, <1>14 DEF Well
<1>16. PICK S \in SUBSET Keys : S = {g}
  OBVIOUS
<1>17. DOMAIN new = S /\ new = [j \in S |-> new[j]]
  BY <1>16
<1> HIDE DEF new
<1>18. \A j \in S : /\ Well(j, new[j]) /\ new[j].is_gathered = y.chunk[j].is_gathered
                    /\ new[j].cuda = None <=> y.chunk[j].cuda = None
                    /\ new[j].cpu = None <=> y.chunk[j].cpu = None
  BY <1>10, <1>12, <1>14, <1>15, <1>16
<1>19. /\ Sound(z) /\ z.accessed = y.accessed /\ z.works = y.works
       /\ \A j \in Keys : z.chunk[j] = IF j \in S THEN new[j] ELSE y.chunk[j]
  <2>1. Sound(y)
    BY <1>8
  <2> QED BY ONLY <2>1, <1>9, <1>17, <1>18, S \in SUBSET Keys, PutSound
<1>20. z.chunk[g] = d /\ \A j \in Keys \ {g} : z.chunk[j] = m.chunk[j]
  BY <1>8, <1>12, <1>16, <1>19
<1>21. InUse(g, z.chunk[g])
  <2>1. DOMAIN m.chunk[g].state = InChunk(g)
    BY DEF Sound, Well, ChunkType
  <2>2. \A p \in InChunk(g) : z.chunk[g].state[p] = "hold"
    BY <1>8, <1>10, <1>14, <1>20, <2>1 DEF AllIn
  <2>3. \A p \in InChunk(g) : z.chunk[g].global[p] = Grad(Indicator(since))
    BY <1>1, <1>14, <1>20 DEF Filled
  <2> QED BY <2>2, <2>3 DEF InUse
<1> QED BY <1>8, <1>13, <1>14, <1>19, <1>20, <1>21 DEF Opened

\* With accumulation: the buffer that the gradient of p goes to.
BufferFor(x, k) ==
  IF ~accumulating THEN InitGradChunk(x, k)
  ELSE IF GradOf(k) \in x.accessed THEN x ELSE Rearrange(x, k)

\* The buffer is opened with the sum so far in it.
LEMMA BufferFacts ==
  ASSUME Supported, IInv, NEW p \in hooks, cfg.accumulate,
         NEW k, k = Param(ChunkOf[p]), NEW g, g = GradOf(k),
         NEW y, y = BufferFor(m, k)
  PROVE  Opened(m, k, g, y) /\ ~Kept(k) /\ ~Kept(g)
<1>1. /\ k \in ParamKeys /\ k \in Keys /\ g \in Keys \ ParamKeys /\ g[1] = k[1]
      /\ k[1] \in Chunks /\ phase = "backward" /\ ~Over(g) /\ Sound(m) /\ GradInv(g)
  BY ONLY IInv, p \in hooks, k = Param(ChunkOf[p]), g = GradOf(k), HookStart
<1>2. ~Kept(k) /\ ~Kept(g)
  <2>1. cfg \in Configs
    BY DEF IInv, CoreInv, PassInv
  <2> QED BY <2>1 DEF Supported, Kept
<1>3. /\ accumulating <=> since # {}
      /\ accumulating \in BOOLEAN
  BY DEF IInv, CoreInv, IterationInv
<1>4. /\ m.chunk[g].optim_sync
      /\ g \in m.accessed <=> Begun(g)
      /\ Begun(g) => InUse(g, m.chunk[g])
      /\ ~Begun(g) => AllIn(m.chunk[g], {"hold"})
      /\ ~Begun(g) /\ since # {} => HoldsGrads(g, m.chunk[g], since)
  BY <1>1 DEF GradInv, Summed
<1>5. m.chunk[g].is_gathered <=> g \in m.accessed
  BY <1>1, <1>2 DEF Sound
<1>6. ~Begun(g) => \A q \in InChunk(g) : Pending(q)
  BY <1>1 DEF Begun
<1>7. DOMAIN m.chunk[g].state = InChunk(g)
  BY <1>1 DEF Sound, Well, ChunkType
<1>8. CASE ~accumulating
  <2>1. y = InitGradChunk(m, k)
    BY <1>8 DEF BufferFor
  <2>2. /\ Sound(y) /\ y.accessed = m.accessed \cup {g} /\ y.works = m.works
        /\ \A j \in Keys \ {g} : y.chunk[j] = m.chunk[j]
        /\ y.chunk[g].is_gathered
        /\ y.chunk[g].state = m.chunk[g].state
        /\ y.chunk[g].global = IF m.chunk[g].is_gathered THEN m.chunk[g].global ELSE Garbage(g)
    <3>1. m.chunk[g].optim_sync
      BY <1>4
    <3> QED BY ONLY <1>1, <1>2, <2>1, <3>1, g = GradOf(k), InitGradFacts
  <2>3. InUse(g, y.chunk[g])
    <3>1. CASE Begun(g)
      <4>1. y.chunk[g].global = m.chunk[g].global
        BY <1>4, <1>5, <2>2, <3>1
      <4> QED BY <1>4, <2>2, <3>1, <4>1 DEF InUse
    <3>2. CASE ~Begun(g)
      <4>1. \A q \in InChunk(g) : y.chunk[g].state[q] = "hold"
        BY <1>4, <1>7, <2>2, <3>2 DEF AllIn
      <4> QED BY <1>3, <1>6, <1>8, <3>2, <4>1 DEF InUse
    <3> QED BY <3>1, <3>2
  <2> QED BY <1>2, <2>2, <2>3 DEF Opened
<1>9. CASE accumulating /\ g \in m.accessed
  <2>1. y = m /\ m.accessed \cup {g} = m.accessed
    BY <1>9 DEF BufferFor
  <2> QED BY <1>1, <1>2, <1>4, <1>5, <1>9, <2>1 DEF Opened
<1>10. CASE accumulating /\ g \notin m.accessed
  <2>1. y = Rearrange(m, k)
    BY <1>10 DEF BufferFor
  <2>2. HoldsGrads(g, m.chunk[g], since) /\ AllIn(m.chunk[g], {"hold"})
        /\ \A q \in InChunk(g) : Pending(q)
    BY <1>3, <1>4, <1>6, <1>10
  <2>3. Opened(m, k, g, y)
    BY ONLY <1>1, <1>2, <1>10, <2>1, <2>2, g = GradOf(k), RearrangeFacts
  <2> QED BY <1>2, <2>3
<1> QED BY <1>8, <1>9, <1>10

\* The buffer is in the state of the parameter's own hook, the weights are done.
ReadyFor(x, k, g, p, y) ==
  /\ Sound(y) /\ y.accessed = x.accessed \cup {g} /\ y.works = x.works
  /\ \A j \in Keys \ {k, g} : y.chunk[j] = x.chunk[j]
  /\ y.chunk[g].is_gathered /\ y.chunk[g].state[p] = "hold_after_bwd"
  /\ since # {} => y.chunk[g].global[p] = Grad(Indicator(since))
  /\ \A q \in InChunk(g) \ {p} :
       /\ Pending(q) => /\ y.chunk[g].state[q] = "hold"
                        /\ since # {} => y.chunk[g].global[q] = Grad(Indicator(since))
       /\ ~Pending(q) => /\ y.chunk[g].state[q] = "ready"
                         /\ y.chunk[g].global[q] = Grad(Indicator(Total))
  /\ SameData(x.chunk[k], y.chunk[k])
  /\ \A q \in InChunk(k) : y.chunk[k].state[q] = IF q = p THEN "hold" ELSE x.chunk[k].state[q]

\* When the gradient is to be stored, buffer and weights are ready for it.
LEMMA PreparedFacts ==
  ASSUME Supported, IInv, NEW p \in hooks, cfg.accumulate,
         NEW k, k = Param(ChunkOf[p]), NEW g, g = GradOf(k),
         NEW z, z = Prepared(m, k, p)
  PROVE  ReadyFor(m, k, g, p, z)
<1>1. /\ k \in ParamKeys /\ k \in Keys /\ g \in Keys \ ParamKeys /\ Pending(p)
      /\ p \in InChunk(k) /\ InChunk(g) = InChunk(k)
      /\ m.chunk[k].state[p] = "hold_after_bwd" /\ Sound(m)
  BY ONLY IInv, p \in hooks, k = Param(ChunkOf[p]), g = GradOf(k), HookStart
<1>2. PICK y : y = BufferFor(m, k)
  OBVIOUS
<1>3. /\ Sound(y) /\ y.accessed = m.accessed \cup {g} /\ y.works = m.works
      /\ \A j \in Keys \ {g} : y.chunk[j] = m.chunk[j]
      /\ y.chunk[g].is_gathered /\ InUse(g, y.chunk[g])
  <2>1. Opened(m, k, g, y)
    BY ONLY Supported, IInv, p \in hooks, cfg.accumulate, k = Param(ChunkOf[p]), g = GradOf(k),
            <1>2, BufferFacts
  <2> QED BY <2>1 DEF Opened
<1>4. g # k /\ y.chunk[k] = m.chunk[k] /\ p \in InChunk(g)
  BY <1>1, <1>3
<1> DEFINE new == [j \in {g, k} |->
                     IF j = g THEN Trans(Trans(y.chunk[j], {p}, "compute"), {p}, "hold_after_bwd")
                     ELSE Trans(Trans(y.chunk[j], {p}, "ready"), {p}, "hold")]
<1>5. z = Put(y, new)
  BY <1>2 DEF Prepared, BufferFor
<1>6. /\ Well(g, new[g]) /\ SameData(y.chunk[g], new[g])
      /\ \A q \in InChunk(g) : new[g].state[q] = IF q = p THEN "hold_after_bwd" ELSE y.chunk[g].state[q]
  <2>1. PICK r \in States : r = "compute"
    BY DEF States
  <2>2. PICK s \in States : s = "hold_after_bwd"
    BY DEF States
  <2>3. PICK c : c = y.chunk[g]
    OBVIOUS
  <2>4. PICK d : d = new[g]
    OBVIOUS
  <2>5. d = Trans(Trans(c, {p}, r), {p}, s)
    BY <2>1, <2>2, <2>3, <2>4
  <2>6. <<c.state[p], r>> \in StateTrans /\ <<r, s>> \in StateTrans /\ Well(g, c) /\ g \in Keys
    <3>1. c.state[p] = "hold"
      BY <1>1, <1>3, <1>4, <2>3 DEF InUse
    <3> QED BY <1>1, <1>3, <2>1, <2>2, <2>3, <3>1 DEF StateTrans, Sound
  <2> HIDE DEF new
  <2>7. /\ Well(g, d) /\ SameData(c, d)
        /\ \A q \in InChunk(g) : d.state[q] = IF q = p THEN s ELSE c.state[q]
    BY ONLY <1>4, <2>5, <2>6, r \in States, s \in States, TwiceFacts
  <2> QED BY <2>2, <2>3, <2>4, <2>7
<1>7. /\ Well(k, new[k]) /\ SameData(m.chunk[k], new[k])
      /\ \A q \in InChunk(k) : new[k].state[q] = IF q = p THEN "hold" ELSE m.chunk[k].state[q]
  <2>1. PICK r \in States : r = "ready"
    BY DEF States
  <2>2. PICK s \in States : s = "hold"
    BY DEF States
  <2>3. PICK c : c = m.chunk[k]
    OBVIOUS
  <2>4. PICK d : d = new[k]
    OBVIOUS
  <2>5. d = Trans(Trans(c, {p}, r), {p}, s)
    BY <1>4, <2>1, <2>2, <2>3, <2>4
  <2>6. <<c.state[p], r>> \in StateTrans /\ <<r, s>> \in StateTrans /\ Well(k, c) /\ k \in Keys
    BY <1>1, <2>1, <2>2, <2>3 DEF StateTrans, Sound
  <2> HIDE DEF new
  <2>7. /\ Well(k, d) /\ SameData(c, d)
        /\ \A q \in InChunk(k) : d.state[q] = IF q = p THEN s ELSE c.state[q]
    <3>1. p \in InChunk(k)
      BY <1>1
    <3> QED BY ONLY <2>5, <2>6, <3>1, r \in States, s \in States, TwiceFacts
  <2> QED BY <2>2, <2>3, <2>4, <2>7
<1>8. PICK S \in SUBSET Keys : S = {g, k}
  BY <1>1
<1>9. DOMAIN new = S /\ new = [j \in S |-> new[j]]
  BY <1>8
<1> HIDE DEF new
<1>10. \A j \in S : /\ Well(j, new[j]) /\ new[j].is_gathered = y.chunk[j].is_gathered
                    /\ new[j].cuda = None <=> y.chunk[j].cuda = None
                    /\ new[j].cpu = None <=> y.chunk[j].cpu = None
  BY <1>4, <1>6, <1>7, <1>8 DEF SameData
<1>11. /\ Sound(z) /\ z.accessed = y.accessed /\ z.works = y.works
       /\ \A j \in Keys : z.chunk[j] = IF j \in S THEN new[j] ELSE y.chunk[j]
  <2>1. Sound(y)
    BY <1>3
  <2>2. Countable(y, S, new)
    BY <1>10 DEF Countable
  <2>3. PutBack(y, S, new, z)
    BY ONLY <2>1, <2>2, <1>5, <1>9, S \in SUBSET Keys, PutSoundly
  <2> QED BY <2>3 DEF PutBack
<1>12. z.chunk[g] = new[g] /\ z.chunk[k] = new[k] /\ \A j \in Keys \ {k, g} : z.chunk[j] = m.chunk[j]
  BY <1>1, <1>3, <1>8, <1>11
<1>13. /\ z.chunk[g].is_gathered /\ z.chunk[g].global = y.chunk[g].global
       /\ z.chunk[g].state[p] = "hold_after_bwd"
       /\ \A q \in InChunk(g) \ {p} : z.chunk[g].state[q] = y.chunk[g].state[q]
  <2>1. new[g].is_gathered = y.chunk[g].is_gathered /\ new[g].global = y.chunk[g].global
    BY ONLY <1>6 DEF SameData
  <2>2. PICK d : d = new[g]
    OBVIOUS
  <2>3. /\ d.state[p] = "hold_after_bwd"
        /\ \A q \in InChunk(g) \ {p} : d.state[q] = y.chunk[g].state[q]
    BY ONLY <1>4, <1>6, <2>2
  <2> QED BY ONLY <1>3, <1>12, <2>1, <2>2, <2>3
<1>14. /\ since # {} => z.chunk[g].global[p] = Grad(Indicator(since))
       /\ \A q \in InChunk(g) \ {p} :
            /\ Pending(q) => /\ z.chunk[g].state[q] = "hold"
                             /\ since # {} => z.chunk[g].global[q] = Grad(Indicator(since))
            /\ ~Pending(q) => /\ z.chunk[g].state[q] = "ready"
                              /\ z.chunk[g].global[q] = Grad(Indicator(Total))
  BY <1>1, <1>3, <1>4, <1>13 DEF InUse
<1> QED BY <1>3, <1>7, <1>11, <1>12, <1>13, <1>14 DEF ReadyFor

\* With accumulation: what the buffer and the weights hold by then.
Filling(k, g, y) ==
  /\ Sound(y) /\ y.accessed = m.accessed \cup {g} /\ y.works = m.works
  /\ \A j \in Keys \ {k, g} : y.chunk[j] = m.chunk[j]
  /\ y.chunk[g].is_gathered /\ y.chunk[g].optim_sync /\ y.chunk[g].global \in Contents(g)
  /\ \A q \in InChunk(g) :
       /\ Pending(q)' => /\ y.chunk[g].state[q] = "hold"
                         /\ since # {} => y.chunk[g].global[q] = Grad(Indicator(since))
       /\ ~Pending(q)' => /\ y.chunk[g].state[q] = "ready"
                          /\ y.chunk[g].global[q] = Grad(Indicator(Total))
  /\ SameData(m.chunk[k], y.chunk[k])
  /\ \A q \in InChunk(k) : StateInv(k, q, y.chunk[k].state[q])'

\* Storing it takes the buffer one gradient further.
LEMMA BufferStored ==
  ASSUME Supported, IInv, NEW p \in hooks, hooks' = hooks \ {p}, cfg.accumulate,
         UNCHANGED <<cfg, grads_device, phase, pos, running, version, iter, since>>,
         NEW k, k = Param(ChunkOf[p]), NEW g, g = GradOf(k),
         NEW y, y = Stored(Prepared(m, k, p), g, p)
  PROVE  Filling(k, g, y)
<1>1. /\ k \in ParamKeys /\ k \in Keys /\ g \in Keys \ ParamKeys
      /\ p \in InChunk(k) /\ InChunk(g) = InChunk(k)
      /\ phase = "backward" /\ ~running /\ p \in Params /\ Pending(p) /\ ~Over(k)
      /\ Sound(m) /\ ParamInv(k)
  BY ONLY IInv, p \in hooks, k = Param(ChunkOf[p]), g = GradOf(k), HookStart
<1>2. /\ ~Pending(p)'
      /\ \A q : q # p => (Pending(q)' <=> Pending(q))
      /\ iter \in 1 .. MaxIterations /\ iter \notin since
      /\ accumulating <=> cfg.accumulate /\ since # {}
      /\ Total = since \cup {iter}
  BY HookStatus
<1>3. PICK x : x = Prepared(m, k, p)
  OBVIOUS
<1>4. /\ Sound(x) /\ x.accessed = m.accessed \cup {g} /\ x.works = m.works
      /\ \A j \in Keys \ {k, g} : x.chunk[j] = m.chunk[j]
      /\ x.chunk[g].is_gathered /\ x.chunk[g].state[p] = "hold_after_bwd"
      /\ since # {} => x.chunk[g].global[p] = Grad(Indicator(since))
      /\ \A q \in InChunk(g) \ {p} :
           /\ Pending(q) => /\ x.chunk[g].state[q] = "hold"
                            /\ since # {} => x.chunk[g].global[q] = Grad(Indicator(since))
           /\ ~Pending(q) => /\ x.chunk[g].state[q] = "ready"
                             /\ x.chunk[g].global[q] = Grad(Indicator(Total))
      /\ SameData(m.chunk[k], x.chunk[k])
      /\ \A q \in InChunk(k) : x.chunk[k].state[q] = IF q = p THEN "hold" ELSE m.chunk[k].state[q]
  <2>1. ReadyFor(m, k, g, p, x)
    BY ONLY Supported, IInv, p \in hooks, cfg.accumulate, k = Param(ChunkOf[p]), g = GradOf(k),
            <1>3, PreparedFacts
  <2> QED BY <2>1 DEF ReadyFor
<1>5. PICK v : v = Grad(Indicator(Total))
  OBVIOUS
<1>6. v \in Values
  <2>1. Indicator(Total) \in [1 .. MaxIterations -> Nat]
    BY DEF Indicator
  <2> QED BY <1>5, <2>1, ValueFacts
<1>7. v = IF accumulating THEN Added(x.chunk[g].global[p]) ELSE Copied
  <2>1. CASE since # {}
    <3>1. Added(Grad(Indicator(since))) = Grad(Indicator(since \cup {iter}))
      BY ONLY <1>2, NextGradient
    <3> QED BY <1>2, <1>4, <1>5, <2>1, <3>1
  <2>2. CASE since = {}
    <3>1. Total = {iter} /\ ~accumulating
      BY <1>2, <2>2
    <3>2. Copied = Grad(Indicator({iter}))
      BY ONLY <1>2, FirstGradient
    <3> QED BY <1>5, <3>1, <3>2
  <2> QED BY <2>1, <2>2
<1>8. StoredAt(x, y, g, p, v)
  <2>1. y = Stored(x, g, p) /\ g \in Keys /\ p \in InChunk(g)
    BY <1>1, <1>3
  <2>2. Sound(x) /\ x.chunk[g].is_gathered /\ x.chunk[g].state[p] = "hold_after_bwd"
    BY <1>4
  <2> QED BY ONLY <1>6, <1>7, <2>1, <2>2, StoredFacts
<1>9. /\ Sound(y) /\ y.accessed = x.accessed /\ y.works = x.works
      /\ \A j \in Keys \ {g} : y.chunk[j] = x.chunk[j]
      /\ y.chunk[g].is_gathered /\ y.chunk[g].optim_sync /\ y.chunk[g].global \in Contents(g)
      /\ \A q \in InChunk(g) :
           /\ y.chunk[g].state[q] = IF q = p THEN "ready" ELSE x.chunk[g].state[q]
           /\ y.chunk[g].global[q] = IF q = p THEN v ELSE x.chunk[g].global[q]
  BY ONLY <1>8 DEF StoredAt
<1>10. ASSUME NEW q \in InChunk(g)
       PROVE  /\ Pending(q)' => /\ y.chunk[g].state[q] = "hold"
                                /\ since # {} => y.chunk[g].global[q] = Grad(Indicator(since))
              /\ ~Pending(q)' => /\ y.chunk[g].state[q] = "ready"
                                 /\ y.chunk[g].global[q] = Grad(Indicator(Total))
  <2>1. CASE q = p
    BY <1>2, <1>5, <1>9, <2>1
  <2>2. CASE q # p
    <3>1. Pending(q)' <=> Pending(q)
      BY <1>2, <2>2
    <3>2. y.chunk[g].state[q] = x.chunk[g].state[q] /\ y.chunk[g].global[q] = x.chunk[g].global[q]
      BY <1>9, <2>2
    <3> QED BY <1>4, <2>2, <3>1, <3>2
  <2> QED BY <2>1, <2>2
<1>11. y.chunk[k] = x.chunk[k]
  BY <1>1, <1>9
<1>12. ASSUME NEW q \in InChunk(k) PROVE StateInv(k, q, y.chunk[k].state[q])'
  <2>1. y.chunk[k].state[q] = IF q = p THEN "hold" ELSE m.chunk[k].state[q]
    BY <1>4, <1>11
  <2>2. ~Active(q) /\ ~Active(q)' /\ phase' = "backward" /\ cfg'.accumulate
    BY <1>1 DEF Active
  <2>3. CASE q = p
    <3>1. q \notin hooks' /\ ~Pending(q)'
      BY <1>2, <2>3
    <3> QED BY <2>1, <2>2, <2>3, <3>1 DEF StateInv
  <2>4. CASE q # p
    <3>1. (Pending(q)' <=> Pending(q)) /\ (q \in hooks' <=> q \in hooks)
      BY <1>2, <2>4
    <3>2. StateInv(k, q, m.chunk[k].state[q])
      BY <1>1 DEF ParamInv
    <3> QED BY <1>1, <2>1, <2>2, <2>4, <3>1, <3>2 DEF StateInv
  <2> QED BY <2>3, <2>4
<1>13. y.accessed = m.accessed \cup {g} /\ y.works = m.works
       /\ \A j \in Keys \ {k, g} : y.chunk[j] = m.chunk[j]
  BY <1>4, <1>9
<1>14. SameData(m.chunk[k], y.chunk[k])
  BY <1>4, <1>11
<1> QED BY ONLY <1>9, <1>10, <1>12, <1>13, <1>14 DEF Filling

\* With accumulation a gradient hook keeps the invariant.
LEMMA BufferHook ==
  ASSUME Supported, IInv, NEW p \in Params, GradHandle(p), cfg.accumulate
  PROVE  Sound(m)' /\ ContentInv'
<1>1. PICK k : k = Param(ChunkOf[p])
  OBVIOUS
<1>2. PICK g : g = GradOf(k)
  OBVIOUS
<1>3. PICK y : y = Stored(Prepared(m, k, p), g, p)
  OBVIOUS
<1>4. PICK z : z = Reduce(y, g)
  OBVIOUS
<1>5. /\ p \in hooks /\ hooks' = hooks \ {p}
      /\ UNCHANGED <<cfg, grads_device, phase, pos, running, manager, version, iter, since>>
  BY DEF GradHandle
<1>6. /\ k \in ParamKeys /\ k \in Keys /\ g \in Keys \ ParamKeys /\ g[1] = k[1] /\ k[1] \in Chunks
      /\ p \in InChunk(k) /\ InChunk(g) = InChunk(k)
      /\ phase = "backward" /\ ~running /\ ~Over(k)
      /\ k \in m.accessed /\ k \notin m.works
      /\ m.chunk[k].is_gathered /\ m.chunk[k].optim_sync
      /\ m.chunk[k].state[p] = "hold_after_bwd" /\ Sound(m) /\ ParamInv(k)
  BY ONLY IInv, <1>1, <1>2, <1>5, HookStart
<1>7. m' = IF AllIn(y.chunk[g], {"ready"}) THEN AfterReduce(z, k) ELSE y
  <2>1. Asserting(m, m.chunk[k].state[p] = "hold_after_bwd") = m /\ GradKey(k) = g
    BY <1>2, <1>6 DEF Asserting, GradKey
  <2> QED BY <1>1, <1>3, <1>4, <2>1 DEF GradHandle
<1>8. /\ Sound(y) /\ y.accessed = m.accessed \cup {g} /\ y.works = m.works
      /\ \A j \in Keys \ {k, g} : y.chunk[j] = m.chunk[j]
      /\ y.chunk[g].is_gathered /\ y.chunk[g].optim_sync /\ y.chunk[g].global \in Contents(g)
      /\ \A q \in InChunk(g) :
           /\ Pending(q)' => /\ y.chunk[g].state[q] = "hold"
                             /\ since # {} => y.chunk[g].global[q] = Grad(Indicator(since))
           /\ ~Pending(q)' => /\ y.chunk[g].state[q] = "ready"
                              /\ y.chunk[g].global[q] = Grad(Indicator(Total))
      /\ SameData(m.chunk[k], y.chunk[k])
      /\ \A q \in InChunk(k) : StateInv(k, q, y.chunk[k].state[q])'
  <2>1. Filling(k, g, y)
    BY ONLY Supported, IInv, cfg.accumulate, <1>1, <1>2, <1>3, <1>5, BufferStored
  <2> QED BY <2>1 DEF Filling
<1>9. /\ ~Pending(p)' /\ Total' = Total /\ PassInv /\ version \in Nat
  <2>1. ~Pending(p)' /\ Total' = Total /\ version \in Nat
    BY ONLY IInv, <1>5, HookStatus
  <2> QED BY <2>1 DEF IInv, CoreInv
<1>10. /\ phase' = "backward" /\ cfg' = cfg /\ Begun(k)' /\ Begun(g)'
       /\ Over(k)' <=> Over(g)'
  <2>1. /\ Begun(k)' <=> \E q \in InChunk(k) : ~Pending(q)'
        /\ Begun(g)' <=> \E q \in InChunk(g) : ~Pending(q)'
        /\ Over(k)' <=> \A q \in InChunk(k) : ~Pending(q)'
        /\ Over(g)' <=> \A q \in InChunk(g) : ~Pending(q)'
    BY <1>5, <1>6 DEF Begun, Over, InChunk
  <2> QED BY <1>5, <1>6, <1>9, <2>1
<1>11. AllIn(y.chunk[g], {"ready"}) <=> Over(g)'
  <2>1. DOMAIN y.chunk[g].state = InChunk(g)
    BY <1>6, <1>8 DEF Sound, Well, ChunkType
  <2>2. Over(g)' <=> \A q \in InChunk(g) : ~Pending(q)'
    BY <1>10 DEF Over, InChunk
  <2> QED BY ONLY <1>8, <2>1, <2>2 DEF AllIn
<1>12. HoldsWeights(k, y.chunk[k])
  <2>1. HoldsWeights(k, m.chunk[k])
    BY <1>6 DEF ParamInv
  <2> QED BY ONLY <1>8, <2>1, SameDataHolds
<1>13. y.chunk[k].is_gathered /\ ~Kept(k) /\ ~Kept(g)
  <2>1. cfg \in Configs
    BY <1>9 DEF PassInv
  <2> QED BY <1>6, <1>8, <2>1 DEF Supported, Kept, SameData
<1>14. CASE ~Over(g)'
  <2>1. m' = y
    BY <1>7, <1>11, <1>14
  <2>2. ParamInv(k)'
    <3>1. ASSUME NEW q \in InChunk(k) PROVE StateInv(k, q, m.chunk[k].state[q])'
      <4>1. StateInv(k, q, y.chunk[k].state[q])'
        BY <1>8
      <4> QED BY <2>1, <4>1 DEF StateInv
    <3>2. HoldsWeights(k, m.chunk[k])'
      BY <1>5, <1>12, <2>1 DEF HoldsWeights
    <3>3. ~Settled(k)'
      BY <1>10, <1>14 DEF Settled
    <3> QED BY <1>10, <3>1, <3>2, <3>3 DEF ParamInv, InChunk
  <2>3. GradInv(g)'
    <3>1. InUse(g, m.chunk[g])'
      <4>1. ASSUME NEW q \in InChunk(g)
            PROVE  /\ Pending(q)' => /\ m'.chunk[g].state[q] = "hold"
                                     /\ since' # {} => m'.chunk[g].global[q] = Grad(Indicator(since'))
                   /\ ~Pending(q)' => /\ m'.chunk[g].state[q] = "ready"
                                      /\ m'.chunk[g].global[q] = Grad(Indicator(Total'))
        BY <1>5, <1>8, <1>9, <2>1
      <4> QED BY <4>1 DEF InUse, InChunk
    <3> QED BY <1>8, <1>10, <1>14, <2>1, <3>1 DEF GradInv
  <2>4. /\ Sound(m') /\ m'.works = m.works
        /\ \A j \in Keys \ {k, g} : /\ m'.chunk[j] = m.chunk[j]
                                    /\ j \in m'.accessed <=> j \in m.accessed
        /\ k \in m'.accessed
    BY <1>6, <1>8, <2>1
  <2> QED BY ONLY IInv, <1>1, <1>2, <1>5, <2>2, <2>3, <2>4, HookContent
<1>15. CASE Over(g)'
  <2>1. \A q \in InChunk(g) : ~Pending(q)'
    BY <1>15 DEF Over, InChunk
  <2>2. /\ Sound(z) /\ z.accessed = y.accessed \ {g} /\ z.works = y.works
        /\ \A j \in Keys \ {g} : z.chunk[j] = y.chunk[j]
        /\ z.chunk[g].optim_sync /\ Payload(z.chunk[g]) = y.chunk[g].global
        /\ AllIn(z.chunk[g], {"hold"})
        /\ ~z.chunk[g].is_gathered
    <3>1. Sound(y) /\ g \in y.accessed /\ y.chunk[g].is_gathered
      BY <1>8
    <3>2. /\ Sound(z) /\ z.accessed = y.accessed \ {g} /\ z.works = y.works
          /\ \A j \in Keys \ {g} : z.chunk[j] = y.chunk[j]
          /\ z.chunk[g].optim_sync /\ Payload(z.chunk[g]) = y.chunk[g].global
          /\ AllIn(z.chunk[g], {"hold"})
          /\ z.chunk[g].is_gathered <=> Kept(g)
      BY ONLY <1>4, <3>1, ReduceFacts
    <3> QED BY <1>13, <3>2
  <2>3. PICK G : G = Total
    OBVIOUS
  <2>4. HoldsGrads(g, z.chunk[g], G)
    <3>1. y.chunk[g].global = [q \in InChunk(g) |-> y.chunk[g].global[q]]
      BY <1>8 DEF Contents
    <3>2. \A q \in InChunk(g) : y.chunk[g].global[q] = Grad(Indicator(G))
      BY <1>8, <2>1, <2>3
    <3>3. y.chunk[g].global = Filled(g, Grad(Indicator(G)))
      BY ONLY <3>1, <3>2 DEF Filled
    <3> QED BY <2>2, <3>3 DEF HoldsGrads
  <2>5. \A q \in InChunk(k) : y.chunk[k].state[q] = "hold"
    BY <1>6, <1>8, <1>10, <2>1 DEF StateInv
  <2>6. PICK u : u = Release(z, {k})
    OBVIOUS
  <2>7. /\ Sound(u) /\ Carried(z, u) /\ u.accessed = z.accessed \ {k} /\ u.works = z.works
        /\ ~u.chunk[k].is_gathered
        /\ \A j \in Keys \ {k} : u.chunk[j] = z.chunk[j]
    <3>1. PICK S \in SUBSET Keys : S = {k}
      BY <1>6
    <3>2. PICK R : R = {j \in S \cap z.accessed : CanRelease(j, z.chunk[j])}
      OBVIOUS
    <3>3. z.chunk[k] = y.chunk[k] /\ k \in z.accessed
      BY <1>6, <1>8, <2>2
    <3>4. CanRelease(k, z.chunk[k])
      <4>1. DOMAIN y.chunk[k].state = InChunk(k)
        BY <1>6, <1>8 DEF Sound, Well, ChunkType
      <4> QED BY <1>13, <2>5, <3>3, <4>1 DEF CanRelease, AllIn
    <3>5. R = {k}
      BY <3>1, <3>2, <3>3, <3>4
    <3>6. Sound(z) /\ \A j \in R : HoldsWeights(j, z.chunk[j])
      BY <1>12, <2>2, <3>3, <3>5
    <3>7. /\ Sound(Release(z, S)) /\ Carried(z, Release(z, S))
          /\ Release(z, S).accessed = z.accessed \ R /\ Release(z, S).works = z.works
          /\ \A j \in R : ~Release(z, S).chunk[j].is_gathered
          /\ \A j \in Keys \ R : Release(z, S).chunk[j] = z.chunk[j]
      BY ONLY <1>9, <3>2, <3>6, S \in SUBSET Keys, ReleaseFacts
    <3> QED BY <2>6, <3>1, <3>5, <3>7
  <2>8. PICK w : w = Move(u, {g}, grads_device, ForceCopy)
    OBVIOUS
  <2>9. PutAway(u, w, g, G)
    <3>1. Sound(u) /\ g \in Keys /\ ~u.chunk[g].is_gathered /\ HoldsGrads(g, u.chunk[g], G)
      BY <1>6, <2>2, <2>4, <2>7
    <3> QED BY ONLY <1>9, <2>8, <3>1, PutAwayFacts
  <2>10. /\ Sound(w) /\ w.accessed = u.accessed /\ w.works = u.works
         /\ \A i \in Keys \ {g} : w.chunk[i] = u.chunk[i]
         /\ w.chunk[g].state = u.chunk[g].state
         /\ HoldsGrads(g, u.chunk[g], G) => HoldsGrads(g, w.chunk[g], G)
         /\ Device(w.chunk[g]) = grads_device[g[1]]
    BY ONLY <2>9 DEF PutAway
  <2>11. /\ HoldsWeights(k, w.chunk[k]) /\ ~w.chunk[k].is_gathered
         /\ w.chunk[k].state = y.chunk[k].state
    <3>1. w.chunk[k] = u.chunk[k] /\ z.chunk[k] = y.chunk[k]
      BY <1>6, <2>2, <2>10
    <3>2. HoldsWeights(k, u.chunk[k]) /\ u.chunk[k].state = z.chunk[k].state
      BY <1>6, <1>12, <2>7, <3>1 DEF Carried
    <3> QED BY <2>7, <3>1, <3>2
  <2>12. PICK e : e = m'
    OBVIOUS
  <2>13. e = Move(w, {k}, grads_device, ForceCopy)
    BY <1>2, <1>7, <1>11, <1>13, <1>15, <2>6, <2>8, <2>12 DEF AfterReduce, Follow
  <2>14. PutAway(w, e, k, G)
    <3>1. Sound(w) /\ k \in Keys
      BY <1>6, <2>10
    <3> QED BY ONLY <1>9, <2>11, <2>13, <3>1, PutAwayFacts
  <2>15. /\ Sound(m') /\ m'.accessed = w.accessed /\ m'.works = w.works
         /\ \A i \in Keys \ {k} : m'.chunk[i] = w.chunk[i]
         /\ m'.chunk[k].state = w.chunk[k].state
         /\ HoldsWeights(k, m'.chunk[k])
         /\ Device(m'.chunk[k]) = grads_device[k[1]]
    BY ONLY <2>11, <2>12, <2>14 DEF PutAway
  <2>16. /\ m'.accessed = m.accessed \ {k, g} /\ m'.works = m.works
         /\ \A j \in Keys \ {k, g} : m'.chunk[j] = m.chunk[j]
         /\ m'.chunk[g] = w.chunk[g]
    <3>1. m'.accessed = (((m.accessed \cup {g}) \ {g}) \ {k}) /\ m'.works = m.works
      BY <1>8, <2>2, <2>7, <2>10, <2>15
    <3>2. \A j \in Keys \ {k, g} : m'.chunk[j] = m.chunk[j]
      BY <1>8, <2>2, <2>7, <2>10, <2>15
    <3>3. m'.chunk[g] = w.chunk[g]
      BY <1>6, <2>15
    <3> QED BY <3>1, <3>2, <3>3
  <2>17. ParamInv(k)'
    <3>1. ASSUME NEW q \in InChunk(k) PROVE StateInv(k, q, m.chunk[k].state[q])'
      <4>1. StateInv(k, q, y.chunk[k].state[q])'
        BY <1>8
      <4>2. m'.chunk[k].state[q] = y.chunk[k].state[q]
        BY <2>11, <2>15
      <4> QED BY <4>1, <4>2 DEF StateInv
    <3>2. HoldsWeights(k, m.chunk[k])'
      BY <1>5, <2>15 DEF HoldsWeights
    <3>3. k \notin m'.accessed
      BY <2>16
    <3>4. (Device(m.chunk[k]) = grads_device[k[1]])'
      BY <1>5, <2>15 DEF Device, OnCuda
    <3> QED BY <1>10, <3>1, <3>2, <3>3, <3>4 DEF ParamInv, InChunk
  <2>18. GradInv(g)'
    <3>1. HoldsGrads(g, m'.chunk[g], G) /\ Device(m'.chunk[g]) = grads_device[g[1]]
      BY <1>6, <2>4, <2>7, <2>10, <2>16
    <3>2. AllIn(m'.chunk[g], {"hold"})
      <4>1. m'.chunk[g].state = z.chunk[g].state
        BY <1>6, <2>7, <2>10, <2>16
      <4> QED BY <2>2, <4>1 DEF AllIn
    <3>3. g \notin m'.accessed /\ m'.chunk[g].optim_sync
      BY <2>16, <3>1 DEF HoldsGrads
    <3>4. Summed(g)' = G
      BY <1>9, <1>15, <2>3 DEF Summed
    <3>5. (HoldsGrads(g, m.chunk[g], Summed(g)) /\ Device(m.chunk[g]) = grads_device[g[1]])'
      BY <1>5, <3>1, <3>4 DEF HoldsGrads, Device, OnCuda
    <3>6. AllIn(m.chunk[g], {"hold"})'
      BY <3>2 DEF AllIn
    <3> QED BY <1>15, <3>3, <3>5, <3>6 DEF GradInv
  <2>19. \A j \in Keys \ {k, g} : /\ m'.chunk[j] = m.chunk[j]
                                  /\ j \in m'.accessed <=> j \in m.accessed
    BY <2>16
  <2>20. Over(k)' /\ Sound(m') /\ m'.works = m.works
    BY <1>10, <1>15, <2>15, <2>16
  <2> QED BY ONLY IInv, <1>1, <1>2, <1>5, <2>17, <2>18, <2>19, <2>20, HookContent
<1> QED BY <1>14, <1>15

\* A gradient hook keeps the invariant.
LEMMA GradHandleContent ==
  ASSUME Supported, IInv, NEW p \in Params, GradHandle(p)
  PROVE  Sound(m)' /\ ContentInv'
BY PlainHook, BufferHook

-----------------------------------------------------------------------------
(* The invariant.                                                          *)

\* A chunk as it is made, by init_model_weights and by init_grad_chunk.
LEMMA FirstChunk ==
  ASSUME Init, NEW k \in Keys, NEW c, c = m.chunk[k]
  PROVE  /\ Well(k, c) /\ c.cuda = None /\ c.optim_sync
         /\ c.is_gathered <=> k \in ParamKeys /\ Kept(k)
         /\ c.cpu # None <=> k \in ParamKeys /\ ~Kept(k)
         /\ \A p \in InChunk(k) : c.state[p] = "hold"
         /\ k \in ParamKeys => HoldsWeights(k, c)
         /\ k \in ParamKeys => Device(c) = IF Kept(k) THEN "cuda" ELSE "cpu"
<1>1. PICK W : W = Filled(k, Weight(0))
  OBVIOUS
<1>2. W \in Contents(k) /\ W # None /\ version = 0
  <2>1. 0 \in Int
    OBVIOUS
  <2> QED BY <1>1, <2>1, ValueFacts, NoneIsNoContent DEF Init
<1>3. PICK h : h = Filled(k, "hold")
  OBVIOUS
<1>4. h \in [InChunk(k) -> States] /\ \A p \in InChunk(k) : h[p] = "hold"
  BY <1>3 DEF Filled, States
<1>5. PICK none : none = [is_gathered |-> FALSE, global |-> None, cuda |-> None, cpu |-> None,
                          optim_sync |-> TRUE, cpu_vis |-> FALSE, state |-> h, ok |-> TRUE]
  OBVIOUS
<1>6. c = IF k[2] = "grad" THEN none
          ELSE IF Kept(k) THEN [none EXCEPT !.is_gathered = TRUE, !.global = W]
          ELSE [none EXCEPT !.cpu = W, !.cpu_vis = TRUE]
  <2>1. m.chunk = [j \in Keys |->
             LET weights == Filled(j, Weight(0))
                 nothing == [is_gathered |-> FALSE, global |-> None, cuda |-> None,
                          cpu |-> None, optim_sync |-> TRUE, cpu_vis |-> FALSE,
                          state |-> Filled(j, "hold"), ok |-> TRUE]
             IN IF j[2] = "grad" THEN nothing
                ELSE IF Kept(j) THEN [nothing EXCEPT !.is_gathered = TRUE, !.global = weights]
                ELSE [nothing EXCEPT !.cpu = weights, !.cpu_vis = TRUE]]
    BY DEF Init
  <2>2. c = LET weights == Filled(k, Weight(0))
                nothing == [is_gathered |-> FALSE, global |-> None, cuda |-> None,
                          cpu |-> None, optim_sync |-> TRUE, cpu_vis |-> FALSE,
                          state |-> Filled(k, "hold"), ok |-> TRUE]
            IN IF k[2] = "grad" THEN nothing
               ELSE IF Kept(k) THEN [nothing EXCEPT !.is_gathered = TRUE, !.global = weights]
               ELSE [nothing EXCEPT !.cpu = weights, !.cpu_vis = TRUE]
    BY <2>1
  <2> QED BY <1>1, <1>3, <1>5, <2>2
<1>7. k \in ParamKeys <=> k[2] # "grad"
  <2>1. k \in ParamKeys => k[2] = "param"
    BY DEF ParamKeys, Param
  <2>2. k \notin ParamKeys => k[2] = "grad"
    <3>1. GradOf(Param(k[1]))[2] = "grad"
      BY DEF GradOf
    <3> QED BY <3>1, KeyFacts
  <2> QED BY <2>1, <2>2
<1>8. CASE k \notin ParamKeys
  <2>1. c = none
    BY <1>6, <1>7, <1>8
  <2>2. /\ c \in ChunkType(k) /\ ~c.is_gathered /\ c.global = None /\ c.cuda = None /\ c.cpu = None
        /\ c.optim_sync /\ ~c.cpu_vis /\ c.state = h /\ c.ok
    BY <1>4, <1>5, <2>1 DEF ChunkType
  <2> QED BY <1>4, <1>8, <2>2 DEF Well
<1>9. CASE k \in ParamKeys /\ Kept(k)
  <2>1. c = [none EXCEPT !.is_gathered = TRUE, !.global = W]
    BY <1>6, <1>7, <1>9
  <2>2. /\ c \in ChunkType(k) /\ c.is_gathered /\ c.global = W /\ c.cuda = None /\ c.cpu = None
        /\ c.optim_sync /\ ~c.cpu_vis /\ c.state = h /\ c.ok
    BY <1>2, <1>4, <1>5, <2>1 DEF ChunkType
  <2>3. HoldsWeights(k, c) /\ Device(c) = "cuda"
    BY <1>1, <1>2, <2>2 DEF HoldsWeights, Payload, Device, OnCuda
  <2> QED BY <1>2, <1>4, <1>9, <2>2, <2>3 DEF Well
<1>10. CASE k \in ParamKeys /\ ~Kept(k)
  <2>1. c = [none EXCEPT !.cpu = W, !.cpu_vis = TRUE]
    BY <1>6, <1>7, <1>10
  <2>2. /\ c \in ChunkType(k) /\ ~c.is_gathered /\ c.global = None /\ c.cuda = None /\ c.cpu = W
        /\ c.optim_sync /\ c.cpu_vis /\ c.state = h /\ c.ok
    BY <1>2, <1>4, <1>5, <2>1 DEF ChunkType
  <2>3. HoldsWeights(k, c) /\ Device(c) = "cpu"
    BY <1>1, <1>2, <2>2 DEF HoldsWeights, Payload, Device, OnCuda
  <2> QED BY <1>2, <1>4, <1>10, <2>2, <2>3 DEF Well
<1> QED BY <1>8, <1>9, <1>10

\* The invariant holds at first.
LEMMA IInvInit ==
  ASSUME Init
  PROVE  IInv
<1>1. /\ CoreInv
      /\ phase = "idle" /\ ~running /\ hooks = {} /\ since = {} /\ manager.layout = <<>>
      /\ version = 0
  BY CoreInit DEF Init
<1>2. \A k \in Keys :
        /\ Well(k, m.chunk[k]) /\ m.chunk[k].cuda = None /\ m.chunk[k].optim_sync
        /\ m.chunk[k].is_gathered <=> k \in ParamKeys /\ Kept(k)
        /\ m.chunk[k].cpu # None <=> k \in ParamKeys /\ ~Kept(k)
        /\ \A p \in InChunk(k) : m.chunk[k].state[p] = "hold"
        /\ k \in ParamKeys => HoldsWeights(k, m.chunk[k])
  <2> SUFFICES ASSUME NEW k \in Keys
               PROVE  /\ Well(k, m.chunk[k]) /\ m.chunk[k].cuda = None /\ m.chunk[k].optim_sync
                      /\ m.chunk[k].is_gathered <=> k \in ParamKeys /\ Kept(k)
                      /\ m.chunk[k].cpu # None <=> k \in ParamKeys /\ ~Kept(k)
                      /\ \A p \in InChunk(k) : m.chunk[k].state[p] = "hold"
                      /\ k \in ParamKeys => HoldsWeights(k, m.chunk[k])
    OBVIOUS
  <2>1. PICK c : c = m.chunk[k]
    OBVIOUS
  <2>2. /\ Well(k, c) /\ c.cuda = None /\ c.optim_sync
        /\ c.is_gathered <=> k \in ParamKeys /\ Kept(k)
        /\ c.cpu # None <=> k \in ParamKeys /\ ~Kept(k)
        /\ \A p \in InChunk(k) : c.state[p] = "hold"
        /\ k \in ParamKeys => HoldsWeights(k, c)
    BY ONLY Init, <2>1, k \in Keys, FirstChunk
  <2> QED BY ONLY <2>1, <2>2
<1>3. PICK ch : ch = m.chunk
  OBVIOUS
<1>4. ch \in [Keys -> ChunkRecords]
  <2>1. \A k \in Keys : ch[k] \in ChunkRecords
    BY <1>2, <1>3, WellIsRecord
  <2>2. DOMAIN ch = Keys /\ ch = [k \in Keys |-> ch[k]]
    BY <1>3 DEF Init
  <2> QED BY <2>1, <2>2
<1>5. PICK a : a = GroupSize * Cardinality({k \in ParamKeys : Kept(k)})
  OBVIOUS
<1>6. PICK b : b = Cardinality({k \in ParamKeys : ~Kept(k)})
  OBVIOUS
<1>7. m = [chunk |-> ch, accessed |-> {}, accessed_mem |-> 0,
           total |-> [cuda |-> a, cpu |-> b], works |-> {}, ok |-> TRUE]
  BY <1>3, <1>5, <1>6 DEF Init
<1>8. /\ {k \in Keys : m.chunk[k].is_gathered} = {k \in ParamKeys : Kept(k)}
      /\ {k \in Keys : m.chunk[k].cuda # None} = {}
      /\ {k \in Keys : m.chunk[k].cpu # None} = {k \in ParamKeys : ~Kept(k)}
  BY <1>2, ParamKeysAreKeys
<1>9. Cardinality({}) = 0
  BY FS_EmptySet
<1>10. a \in Int /\ b \in Int
  <2>1. /\ {k \in ParamKeys : Kept(k)} \in SUBSET Keys
        /\ {k \in ParamKeys : ~Kept(k)} \in SUBSET Keys
    BY ParamKeysAreKeys
  <2>2. PICK A \in SUBSET Keys : A = {k \in ParamKeys : Kept(k)}
    BY <2>1
  <2>3. PICK B \in SUBSET Keys : B = {k \in ParamKeys : ~Kept(k)}
    BY <2>1
  <2>4. Cardinality(A) \in Nat /\ Cardinality(B) \in Nat /\ GroupSize \in Nat
    BY Split, GeminiAssumption
  <2>5. GroupSize * Cardinality(A) \in Int
    BY ONLY <2>4
  <2> QED BY <1>5, <1>6, <2>2, <2>3, <2>4, <2>5
<1>11. Usage(m, Keys) = [cuda |-> a, cpu |-> b]
  <2>1. Usage(m, Keys) = [cuda |-> a + 0, cpu |-> b]
    BY <1>5, <1>6, <1>8, <1>9 DEF Usage
  <2>2. a + 0 = a
    BY <1>10
  <2> QED BY <2>1, <2>2
<1>12. Sound(m)
  <2>1. m \in Managers /\ m.ok /\ m.accessed = {} /\ m.accessed_mem = 0
        /\ m.total = [cuda |-> a, cpu |-> b]
    BY <1>4, <1>7, <1>10 DEF Managers
  <2>2. m.accessed_mem = GroupSize * Cardinality(m.accessed)
    BY <1>9, <2>1, GeminiAssumption
  <2>3. \A k \in Keys : ~Kept(k) => (m.chunk[k].is_gathered <=> k \in m.accessed)
    BY <1>2, <2>1
  <2> QED BY <1>2, <1>11, <2>1, <2>2, <2>3 DEF Sound
<1>13. \A k : ~Settled(k) /\ ~Begun(k) /\ ~Over(k) /\ Summed(k) = {}
  BY <1>1 DEF Settled, Begun, Over, Summed
<1>14. m.works = {} /\ m.accessed = {}
  BY <1>7
<1>15. ASSUME NEW k \in ParamKeys PROVE ParamInv(k)
  <2>1. k \in Keys /\ HoldsWeights(k, m.chunk[k])
    BY <1>2, ParamKeysAreKeys
  <2>2. \A p \in InChunk(k) : StateInv(k, p, m.chunk[k].state[p])
    BY <1>1, <1>2, <2>1 DEF StateInv, Active
  <2> QED BY <1>13, <2>1, <2>2 DEF ParamInv
<1>16. ASSUME NEW g \in Keys \ ParamKeys PROVE GradInv(g)
  <2>1. DOMAIN m.chunk[g].state = InChunk(g)
    BY <1>2 DEF Well, ChunkType
  <2>2. AllIn(m.chunk[g], {"hold"})
    BY <1>2, <2>1 DEF AllIn
  <2> QED BY <1>2, <1>13, <1>14, <2>2 DEF GradInv
<1>17. WorksInv
  BY <1>1, <1>14 DEF WorksInv
<1>18. LayoutInv
  <2>1. DOMAIN manager.layout = {}
    BY <1>1
  <2> QED BY <2>1 DEF LayoutInv
<1> QED BY <1>1, <1>12, <1>15, <1>16, <1>17, <1>18 DEF IInv, ContentInv

\* Every step keeps the invariant: a lemma for each action.
LEMMA IInvNext ==
  ASSUME Supported, IInv, [Next]_vars
  PROVE  IInv'
<1>1. PassInv /\ IterationInv /\ ListInv
  BY DEF IInv, CoreInv
<1>2. PassInv'
  BY <1>1, PassNext
<1>3. IterationInv'
  BY <1>1, IterationNext
<1>4. ListInv'
  BY <1>1, ListNext
<1>5. CoreInv'
  BY <1>2, <1>3, <1>4 DEF CoreInv
<1>6. Sound(m)' /\ ContentInv'
  <2>1. CASE PreOp
    BY <2>1, PreOpContent
  <2>2. CASE PostOp
    BY <2>2, PostOpContent
  <2>3. ASSUME NEW p \in Params, GradHandle(p) PROVE Sound(m)' /\ ContentInv'
    BY <2>3, GradHandleContent
  <2>4. CASE StartForward
    BY <2>4, StartForwardContent
  <2>5. CASE StartBackward
    BY <2>5, StartBackwardContent
  <2>6. CASE PostBackward
    BY <2>6, PostBackwardContent
  <2>7. CASE StartInference
    BY <1>3, <2>7, StartInferenceContent
  <2>8. CASE EndInference
    BY <2>8, EndInferenceContent
  <2>9. CASE Step
    BY <2>9, StepContent
  <2>10. CASE UNCHANGED vars
    BY <2>10, StutterContent
  <2> QED BY <2>1, <2>2, <2>3, <2>4, <2>5, <2>6, <2>7, <2>8, <2>9, <2>10 DEF Next
<1> QED BY <1>5, <1>6 DEF IInv

-----------------------------------------------------------------------------
(* What follows.                                                           *)

\* A chunk that is accessed holds the weights, of a parameter at least whose
\* gradient has not come.
LEMMA WeightsThere ==
  ASSUME IInv, NEW p \in Params, NEW k, k = Param(ChunkOf[p]),
         k \in m.accessed, ~Settled(k), phase = "backward" => Pending(p)
  PROVE  m.chunk[k].is_gathered /\ m.chunk[k].global[p] = Weight(version)
<1>1. /\ k \in ParamKeys /\ k \in Keys /\ p \in InChunk(k)
  BY MemberFacts, ParamFacts, ParamKeysAreKeys
<1>2. /\ Well(k, m.chunk[k]) /\ (~Kept(k) => m.chunk[k].is_gathered) /\ ParamInv(k)
      /\ cfg.accumulate \in BOOLEAN
  BY <1>1, GeminiAssumption DEF IInv, ContentInv, Sound, CoreInv, PassInv
<1>3. m.chunk[k].is_gathered /\ m.chunk[k].optim_sync
  BY <1>1, <1>2 DEF Well
<1>4. CASE ~cfg.accumulate /\ Begun(k)
  <2>1. m.chunk[k].global = Mixed(k) /\ Pending(p)
    BY <1>2, <1>4 DEF ParamInv, Begun, Settled
  <2> QED BY <1>1, <1>3, <2>1 DEF Mixed
<1>5. CASE cfg.accumulate \/ ~Begun(k)
  <2>1. HoldsWeights(k, m.chunk[k])
    BY <1>2, <1>5 DEF ParamInv
  <2>2. m.chunk[k].global = Filled(k, Weight(version))
    BY <1>3, <2>1 DEF HoldsWeights, Payload
  <2> QED BY <1>1, <1>3, <2>2 DEF Filled
<1> QED BY <1>4, <1>5

\* The invariant implies that operators compute on weights.
LEMMA ComputesOnWeightsHolds ==
  ASSUME IInv
  PROVE  ComputesOnWeights
<1>1. CoreInv /\ PassInv /\ IterationInv /\ WorksInv
  BY DEF IInv, CoreInv, ContentInv
<1>2. ASSUME running, NEW p \in ToSet(Current)
      PROVE  LET k == Param(ChunkOf[p]) IN
             /\ m.chunk[k].is_gathered /\ k \notin m.works
             /\ m.chunk[k].global[p] = Weight(version)
  <2>1. phase \in {"forward", "backward", "inference"} /\ pos < Len(Ops)
    BY <1>1, <1>2 DEF PassInv
  <2>2. /\ ToSet(Current) \subseteq Params
        /\ \A q \in ToSet(Current) : phase = "backward" => Later(q, pos)
    BY <1>1, <2>1, CurrentFacts
  <2>3. PICK k : k = Param(ChunkOf[p])
    OBVIOUS
  <2>4. k \in m.accessed /\ k \notin m.works /\ p \in Params /\ (phase = "backward" => Pending(p))
    BY <1>1, <1>2, <2>2, <2>3 DEF WorksInv, InHand, Pending
  <2>5. ~Settled(k)
    <3>1. p \in InChunk(k)
      BY <2>3, <2>4, MemberFacts
    <3> QED BY <2>1, <2>4, <3>1 DEF Settled, Over
  <2>6. m.chunk[k].is_gathered /\ m.chunk[k].global[p] = Weight(version)
    BY ONLY IInv, <2>3, <2>4, <2>5, WeightsThere
  <2> QED BY <2>3, <2>4, <2>6
<1>3. ASSUME phase = "all gathered", NEW p \in Params
      PROVE  LET k == Param(ChunkOf[p]) IN
             /\ m.chunk[k].is_gathered /\ k \notin m.works
             /\ m.chunk[k].global[p] = Weight(version)
  <2>1. PICK k : k = Param(ChunkOf[p])
    OBVIOUS
  <2>2. k \in m.accessed /\ k \notin m.works
    BY <1>1, <1>3, <2>1, MemberFacts, ParamFacts DEF WorksInv
  <2>3. ~Settled(k)
    BY <1>3 DEF Settled, Over
  <2>4. m.chunk[k].is_gathered /\ m.chunk[k].global[p] = Weight(version)
    BY ONLY IInv, <1>3, <2>1, <2>2, <2>3, p \in Params, WeightsThere
  <2> QED BY <2>1, <2>2, <2>4
<1>4. running => phase # "all gathered"
  BY <1>1 DEF PassInv
<1> QED BY <1>2, <1>3, <1>4 DEF ComputesOnWeights

\* The invariant implies that a step has all gradients.
LEMMA GradsCompleteHolds ==
  ASSUME IInv
  PROVE  GradsComplete
<1> SUFFICES ASSUME phase = "idle", since # {}, NEW p \in Params
             PROVE  Payload(m.chunk[GradKey(Param(ChunkOf[p]))])[p] = Grad(Indicator(since))
  BY DEF GradsComplete, Indicator
<1>1. PICK k : k = Param(ChunkOf[p])
  OBVIOUS
<1>2. PICK g : g = GradOf(k)
  OBVIOUS
<1>3. /\ k \in ParamKeys /\ k \in Keys /\ p \in InChunk(k)
      /\ g \in Keys \ ParamKeys /\ p \in InChunk(g)
  BY <1>1, <1>2, MemberFacts, ParamFacts, ParamKeysAreKeys
<1>4. ParamInv(k) /\ GradInv(g)
  BY <1>3 DEF IInv, ContentInv
<1>5. Settled(k) /\ Total = since /\ ~Begun(g) /\ Summed(g) = since
  BY DEF Settled, Total, Begun, Summed, Over
<1>6. CASE ~cfg.accumulate
  <2>1. Payload(m.chunk[k]) = Filled(k, Grad(Indicator(since)))
    BY <1>4, <1>5, <1>6 DEF ParamInv, HoldsGrads
  <2> QED BY <1>1, <1>3, <1>6, <2>1 DEF GradKey, Filled
<1>7. CASE cfg.accumulate
  <2>1. Payload(m.chunk[g]) = Filled(g, Grad(Indicator(since)))
    BY <1>4, <1>5, <1>7 DEF GradInv, HoldsGrads
  <2> QED BY <1>1, <1>2, <1>3, <1>7, <2>1 DEF GradKey, Filled
<1> QED BY <1>6, <1>7

\* Whatever the chunks, the operators, the configurations, the evictions and
\* the number of ranks, every state is one of IInv.
THEOREM GeminiInvariant ==
  ASSUME Supported
  PROVE  Spec => []IInv
<1>1. Init => IInv
  BY IInvInit
<1>2. IInv /\ [Next]_vars => IInv'
  BY IInvNext
<1> QED BY <1>1, <1>2, PTL DEF Spec

\* An operator never computes with anything but the weights of the last step,
\* gathered and arrived, whatever the placement policy evicted, moved and
\* fetched ahead in between (pre_op, access_chunks, adjust_layout, grad_handle).
THEOREM OperatorsComputeOnWeights ==
  ASSUME Supported
  PROVE  Spec => []ComputesOnWeights
<1>1. Spec => []IInv
  BY GeminiInvariant
<1>2. IInv => ComputesOnWeights
  BY ComputesOnWeightsHolds
<1> QED BY <1>1, <1>2, PTL

\* The optimizer steps with the gradient of each iteration since the last step
\* once, for every parameter (grad_handle, init_grad_chunk, rearrange_
\* accumulated_grad_chunk, reduce_chunk), in whatever order the hooks come.
THEOREM StepsWithAllGradients ==
  ASSUME Supported
  PROVE  Spec => []GradsComplete
<1>1. Spec => []IInv
  BY GeminiInvariant
<1>2. IInv => GradsComplete
  BY GradsCompleteHolds
<1> QED BY <1>1, <1>2, PTL

\* The totals that ChunkManager keeps by adding and subtracting are what the
\* chunks take up, and the accessed chunks are those gathered.
THEOREM ManagerAccountsForMemory ==
  ASSUME Supported
  PROVE  Spec => []MemoryAccounted
<1>1. Spec => []IInv
  BY GeminiInvariant
<1>2. IInv => MemoryAccounted
  BY DEF IInv, Sound, MemoryAccounted
<1> QED BY <1>1, <1>2, PTL

\* No assertion of Chunk, ChunkManager, GeminiDDP and GeminiOptimizer fails.
THEOREM NoAssertionFails ==
  ASSUME Supported
  PROVE  Spec => []NeverRaises
<1>1. Spec => []IInv
  BY GeminiInvariant
<1>2. IInv => NeverRaises
  BY DEF IInv, Sound, Well, NeverRaises, Fine
<1> QED BY <1>1, <1>2, PTL
=============================================================================
