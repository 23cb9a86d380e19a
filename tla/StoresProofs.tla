----------------------------- MODULE StoresProofs -----------------------------
(***************************************************************************)
(* What is proved of the things the gateway keeps (MCStores): the memories *)
(* of the memory plugin, the access keys, the stored credentials and the   *)
(* conversations, each by itself, and then the invariants of the run that  *)
(* puts them side by side with what operators are shown (ViewProofs).      *)
(***************************************************************************)
EXTENDS MCStores, ViewProofs

-----------------------------------------------------------------------------
(* The facts of the memory plugin are kept, recalled by their own profile    *)
(* and gone when they are said to be.                                        *)

Stages == {"make", "add", "count", "delete", "recount"}
Working == [at : Stages, bank : Banks, fact : Facts, listed : BOOLEAN, before : Nat, crossed : BOOLEAN]

(* Well-formed tables and threads (LanceDBMemoryBackend).                    *)
MemoryTypes ==
  /\ memoryTables \in [Banks -> [exists : BOOLEAN, facts : SUBSET Facts]]
  /\ minds \in [Minds -> Working \cup {Thinking}]
  /\ owner \in [Facts -> Banks \cup {"nobody"}]
  /\ kept \subseteq Facts /\ gone \subseteq Facts

(* A fact is in the table of the profile that retained it and in no other.   *)
FactsHaveOwners ==
  /\ \A p \in Banks : \A f \in memoryTables[p].facts : owner[f] = p
  /\ \A f \in kept \cup gone : owner[f] # "nobody"

(* A retain has a fact of its own; a forget is about one that was retained.  *)
Retaining(m) == minds[m].at \in {"make", "add"}
Forgetting(m) == minds[m].at \in {"count", "delete", "recount"}
FactsAreFresh ==
  \A m \in Minds :
    /\ Retaining(m) => owner[minds[m].fact] = "nobody"
    /\ Retaining(m) => \A n \in Minds \ {m} : minds[n].at # "idle" => minds[n].fact # minds[m].fact
    /\ Forgetting(m) => owner[minds[m].fact] # "nobody"

(* Between the two counts of a forget that nothing crosses the table only    *)
(* loses the fact, so that fewer rows mean that it was there.                *)
CountsAreTrue ==
  \A m \in Minds : ~Forgetting(m) \/ minds[m].crossed \/
    LET p == minds[m].bank  f == minds[m].fact  n == Cardinality(memoryTables[p].facts) IN
    /\ minds[m].at = "delete" => minds[m].before <= n
    /\ minds[m].at = "recount" => f \notin memoryTables[p].facts /\ (owner[f] # p => minds[m].before <= n)

MemoryInvariant ==
  MemoryTypes /\ FactsHaveOwners /\ FactsAreFresh /\ CountsAreTrue /\ FactsAreKept /\ DeletedIsGone

LEMMA MemoryStarts == MemoryInit => MemoryInvariant
BY MemoryAssumption DEF MemoryInit, MemoryInvariant, MemoryTypes, FactsHaveOwners, FactsAreFresh, CountsAreTrue,
   FactsAreKept, DeletedIsGone, NoTable, Thinking, Retaining, Forgetting

(* Counting the facts of a table.                                            *)
LEMMA Counting ==
  ASSUME NEW S \in SUBSET Facts, NEW f \in Facts
  PROVE  /\ Cardinality(S) \in Nat
         /\ Cardinality(S \cup {f}) \in Nat /\ Cardinality(S) <= Cardinality(S \cup {f})
         /\ f \notin S => Cardinality(S \ {f}) = Cardinality(S)
<1>1. IsFiniteSet(S) /\ IsFiniteSet(S \cup {f})
  BY MemoryAssumption, FS_Subset
<1>2. Cardinality(S) \in Nat /\ Cardinality(S \cup {f}) \in Nat
  BY <1>1, FS_CardinalityType
<1>3. Cardinality(S) <= Cardinality(S \cup {f})
  BY <1>1, FS_Subset
<1>4. f \notin S => S \ {f} = S
  OBVIOUS
<1> QED BY <1>2, <1>3, <1>4

-----------------------------------------------------------------------------
LEMMA RetainingBeginsWell ==
  ASSUME MemoryInvariant, NEW m \in Minds, NEW p \in Banks, NEW f \in Facts, NEW ok \in BOOLEAN,
         RetainBegins(m, p, f, ok)
  PROVE  MemoryInvariant'
<1> USE DEF MemoryInvariant
<1> DEFINE r == [at |-> "make", bank |-> p, fact |-> f, listed |-> ok /\ memoryTables[p].exists, before |-> 0, crossed |-> FALSE]
<1>1. /\ minds[m] = Thinking /\ minds' = [minds EXCEPT ![m] = r] /\ f \in Unused
      /\ UNCHANGED <<memoryTables, owner, kept, gone, overwritten>>
  BY DEF RetainBegins, Begin
<1>2. r \in Working
  BY DEF Working, Stages, MemoryTypes
<1>3. owner[f] = "nobody" /\ \A n \in Minds : minds[n].at # "idle" => minds[n].fact # f
  BY <1>1 DEF Unused
<1>4. MemoryTypes'
  BY <1>1, <1>2 DEF MemoryTypes
<1>5. FactsHaveOwners' /\ FactsAreKept' /\ DeletedIsGone'
  BY <1>1 DEF FactsHaveOwners, FactsAreKept, DeletedIsGone
<1>6. FactsAreFresh'
  BY <1>1, <1>3 DEF FactsAreFresh, MemoryTypes, Retaining, Forgetting
<1>7. CountsAreTrue'
  BY <1>1 DEF CountsAreTrue, MemoryTypes, Forgetting
<1> QED BY <1>4, <1>5, <1>6, <1>7

(* A thread that goes on leaves the others where they are.                   *)
LEMMA GoingOn ==
  ASSUME MemoryTypes, NEW m \in Minds, NEW at \in Stages, minds[m] \in Working, GoesOn(m, at)
  PROVE  /\ minds' \in [Minds -> Working \cup {Thinking}]
         /\ minds'[m] = [minds[m] EXCEPT !.at = at]
         /\ \A n \in Minds \ {m} :
              /\ minds'[n] = minds[n] \/ (minds[n] \in Working /\ minds'[n] = [minds[n] EXCEPT !.crossed = TRUE])
              /\ minds[n].at # "idle" /\ minds[n].bank = minds[m].bank => minds'[n].crossed
<1>1. \A n \in Minds : minds[n] \in Working \/ (minds[n] = Thinking /\ Thinking.at = "idle")
  BY DEF MemoryTypes, Thinking
<1>2. \A n \in Minds \ {m} :
        minds'[n] = IF minds[n].at # "idle" /\ minds[n].bank = minds[m].bank THEN [minds[n] EXCEPT !.crossed = TRUE] ELSE minds[n]
  BY DEF GoesOn
<1>3. minds' = [n \in Minds |-> minds'[n]] /\ minds'[m] = [minds[m] EXCEPT !.at = at]
  BY DEF GoesOn
<1>4. ASSUME NEW n \in Minds PROVE minds'[n] \in Working \cup {Thinking}
  <2>1. CASE n = m
    BY <1>3, <2>1 DEF Working
  <2>2. CASE n # m
    BY <1>1, <1>2, <2>2 DEF Working
  <2> QED BY <2>1, <2>2
<1>5. ASSUME NEW n \in Minds \ {m}
      PROVE  /\ minds'[n] = minds[n] \/ (minds[n] \in Working /\ minds'[n] = [minds[n] EXCEPT !.crossed = TRUE])
             /\ minds[n].at # "idle" /\ minds[n].bank = minds[m].bank => minds'[n].crossed
  BY <1>1, <1>2 DEF Working
<1> QED BY <1>3, <1>4, <1>5

LEMMA GoingOnKeepsFacts ==
  ASSUME MemoryTypes, FactsAreFresh, NEW m \in Minds, NEW at \in Stages, minds[m] \in Working, GoesOn(m, at),
         <<minds[m].at, at>> \in {<<"make", "add">>, <<"delete", "recount">>}, UNCHANGED owner
  PROVE  FactsAreFresh'
<1>1. /\ minds'[m] = [minds[m] EXCEPT !.at = at]
      /\ \A n \in Minds \ {m} :
           minds'[n] = minds[n] \/ (minds[n] \in Working /\ minds'[n] = [minds[n] EXCEPT !.crossed = TRUE])
  BY GoingOn
<1>2. ASSUME NEW n \in Minds
      PROVE  (Retaining(n)' => Retaining(n)) /\ (Forgetting(n)' => Forgetting(n))
             /\ (minds'[n].at # "idle" => minds[n].at # "idle" /\ minds'[n].fact = minds[n].fact)
  <2>1. CASE n = m
    BY <1>1, <2>1 DEF Retaining, Forgetting, Working
  <2>2. CASE n # m /\ minds'[n] = minds[n]
    BY <2>2 DEF Retaining, Forgetting
  <2>3. CASE n # m /\ minds[n] \in Working /\ minds'[n] = [minds[n] EXCEPT !.crossed = TRUE]
    BY <2>3 DEF Retaining, Forgetting, Working
  <2> QED BY <1>1, <2>1, <2>2, <2>3
<1>3. \A n \in Minds : Retaining(n) \/ Forgetting(n) => minds[n].at # "idle"
  BY DEF Retaining, Forgetting
<1>4. \A n \in Minds : Retaining(n)' \/ Forgetting(n)' => minds'[n].at # "idle"
  BY DEF Retaining, Forgetting
<1> QED BY <1>2, <1>3, <1>4 DEF FactsAreFresh

LEMMA MakingKeepsFacts ==
  ASSUME MemoryInvariant, NEW m \in Minds, MakeTable(m)
  PROVE  MemoryInvariant'
<1> USE DEF MemoryInvariant
<1> DEFINE p == minds[m].bank
<1>1. /\ minds[m].at = "make" /\ GoesOn(m, "add") /\ UNCHANGED <<owner, kept, gone>>
      /\ \/ UNCHANGED <<memoryTables, overwritten>>
         \/ /\ memoryTables' = [memoryTables EXCEPT ![p] = [exists |-> TRUE, facts |-> {}]]
            /\ overwritten' = overwritten \cup memoryTables[p].facts
  BY DEF MakeTable
<1>2. minds[m] \in Working /\ "add" \in Stages
  BY <1>1 DEF MemoryTypes, Thinking, Stages
<1>3. p \in Banks
  BY <1>2 DEF Working
<1>4. /\ minds' \in [Minds -> Working \cup {Thinking}]
      /\ minds'[m] = [minds[m] EXCEPT !.at = "add"]
      /\ \A n \in Minds \ {m} :
           /\ minds'[n] = minds[n] \/ (minds[n] \in Working /\ minds'[n] = [minds[n] EXCEPT !.crossed = TRUE])
           /\ minds[n].at # "idle" /\ minds[n].bank = minds[m].bank => minds'[n].crossed
  BY <1>1, <1>2, GoingOn
<1>5. MemoryTypes'
  <2>1. memoryTables' \in [Banks -> [exists : BOOLEAN, facts : SUBSET Facts]]
    <3>1. [exists |-> TRUE, facts |-> {}] \in [exists : BOOLEAN, facts : SUBSET Facts]
      OBVIOUS
    <3> QED BY <1>1, <1>3, <3>1 DEF MemoryTypes
  <2> QED BY <1>1, <1>4, <2>1 DEF MemoryTypes
<1>6. \A q \in Banks : memoryTables'[q].facts = memoryTables[q].facts \/
        (q = p /\ memoryTables'[q].facts = {} /\ memoryTables[p].facts \subseteq overwritten')
  BY <1>1, <1>3 DEF MemoryTypes
<1>7. FactsHaveOwners' /\ DeletedIsGone'
  BY <1>1, <1>6 DEF FactsHaveOwners, DeletedIsGone
<1>8. FactsAreKept'
  <2>1. overwritten \subseteq overwritten'
    BY <1>1
  <2>2. \A f \in kept : owner[f] \in Banks
    BY DEF FactsHaveOwners, MemoryTypes
  <2> QED BY <1>1, <1>6, <2>1, <2>2 DEF FactsAreKept
<1>9. FactsAreFresh'
  BY <1>1, <1>2, GoingOnKeepsFacts
<1>10. CountsAreTrue'
  <2> SUFFICES ASSUME NEW n \in Minds, Forgetting(n)', ~minds'[n].crossed
               PROVE  LET q == minds'[n].bank  f == minds'[n].fact  c == Cardinality(memoryTables'[q].facts) IN
                      /\ minds'[n].at = "delete" => minds'[n].before <= c
                      /\ minds'[n].at = "recount" => f \notin memoryTables'[q].facts /\ (owner'[f] # q => minds'[n].before <= c)
    BY DEF CountsAreTrue
  <2>1. n # m
    BY <1>2, <1>4 DEF Forgetting, Working
  <2>2. minds'[n] = minds[n]
    <3>1. \A r \in Working : [r EXCEPT !.crossed = TRUE].crossed
      BY DEF Working
    <3> QED BY <1>4, <2>1, <3>1
  <2>3. minds[n].at # "idle" /\ minds[n] \in Working
    BY <2>2 DEF Forgetting, MemoryTypes, Thinking
  <2>4. minds[n].bank # p
    BY <1>4, <2>1, <2>3
  <2>5. memoryTables'[minds[n].bank].facts = memoryTables[minds[n].bank].facts
    BY <1>6, <2>3, <2>4 DEF Working
  <2> QED BY <1>1, <2>2, <2>5 DEF CountsAreTrue, Forgetting
<1> QED BY <1>5, <1>7, <1>8, <1>9, <1>10

LEMMA AddingKeepsFacts ==
  ASSUME MemoryInvariant, NEW m \in Minds, AddFact(m)
  PROVE  MemoryInvariant'
<1> USE DEF MemoryInvariant
<1> DEFINE p == minds[m].bank
           f == minds[m].fact
<1>1. /\ minds[m].at = "add" /\ minds' = [minds EXCEPT ![m] = Thinking]
      /\ memoryTables' = [memoryTables EXCEPT ![p].facts = @ \cup {f}]
      /\ owner' = [owner EXCEPT ![f] = p] /\ kept' = kept \cup {f}
      /\ UNCHANGED <<gone, overwritten>>
  BY DEF AddFact, Done
<1>2. minds[m] \in Working /\ p \in Banks /\ f \in Facts
  BY <1>1 DEF MemoryTypes, Thinking, Working
<1>3. /\ owner[f] = "nobody" /\ p # "nobody"
      /\ \A n \in Minds \ {m} : minds[n].at # "idle" => minds[n].fact # f
  BY <1>1, <1>2, MemoryAssumption DEF FactsAreFresh, Retaining
<1>4. MemoryTypes'
  BY <1>1, <1>2 DEF MemoryTypes
<1>5. \A q \in Banks : memoryTables'[q].facts = IF q = p THEN memoryTables[q].facts \cup {f} ELSE memoryTables[q].facts
  BY <1>1, <1>2 DEF MemoryTypes
<1>6. \A g \in Facts : owner'[g] = IF g = f THEN p ELSE owner[g]
  BY <1>1, <1>2 DEF MemoryTypes
<1>7. FactsHaveOwners'
  <2>1. ASSUME NEW q \in Banks, NEW g \in memoryTables'[q].facts PROVE owner'[g] = q
    <3>1. CASE g \in memoryTables[q].facts
      <4>1. g \in Facts /\ owner[g] = q /\ g # f
        BY <1>3, <3>1, MemoryAssumption DEF FactsHaveOwners, MemoryTypes
      <4> QED BY <1>6, <4>1
    <3>2. CASE g \notin memoryTables[q].facts
      BY <1>2, <1>5, <1>6, <3>2
    <3> QED BY <3>1, <3>2
  <2>2. ASSUME NEW g \in kept' \cup gone' PROVE owner'[g] # "nobody"
    BY <1>1, <1>2, <1>3, <1>6, <2>2 DEF FactsHaveOwners, MemoryTypes
  <2> QED BY <2>1, <2>2 DEF FactsHaveOwners
<1>8. FactsAreKept'
  <2>1. \A g \in kept : g \in Facts /\ owner[g] \in Banks /\ g # f
    BY <1>3 DEF FactsHaveOwners, MemoryTypes
  <2> QED BY <1>1, <1>2, <1>5, <1>6, <2>1 DEF FactsAreKept
<1>9. DeletedIsGone'
  <2>1. f \notin gone
    BY <1>3 DEF FactsHaveOwners
  <2> QED BY <1>1, <1>5, <2>1 DEF DeletedIsGone
<1>10. Thinking.at = "idle" /\ \A n \in Minds \ {m} : minds'[n] = minds[n]
  BY <1>1 DEF Thinking, MemoryTypes
<1>11. minds'[m].at = "idle"
  BY <1>1, <1>10 DEF MemoryTypes
<1>12. \A n \in Minds \ {m} : minds[n].at # "idle" => minds[n] \in Working
  BY <1>10 DEF MemoryTypes
<1>13. FactsAreFresh'
  <2>1. ASSUME NEW n \in Minds
        PROVE  /\ Retaining(n)' => owner'[minds'[n].fact] = "nobody"
               /\ Retaining(n)' => \A o \in Minds \ {n} : minds'[o].at # "idle" => minds'[o].fact # minds'[n].fact
               /\ Forgetting(n)' => owner'[minds'[n].fact] # "nobody"
    <3>1. CASE n = m
      BY <1>11, <3>1 DEF Retaining, Forgetting
    <3>2. CASE n # m
      <4>1. minds'[n] = minds[n] /\ (Retaining(n)' <=> Retaining(n)) /\ (Forgetting(n)' <=> Forgetting(n))
        BY <1>10, <3>2 DEF Retaining, Forgetting
      <4>2. Retaining(n) \/ Forgetting(n) => minds[n].fact \in Facts /\ minds[n].fact # f
        BY <1>3, <1>12, <3>2 DEF Retaining, Forgetting, Working
      <4>3. Retaining(n) \/ Forgetting(n) => owner'[minds[n].fact] = owner[minds[n].fact]
        BY <1>6, <4>2
      <4> QED BY <1>10, <1>11, <4>1, <4>3 DEF FactsAreFresh
    <3> QED BY <3>1, <3>2
  <2> QED BY <2>1 DEF FactsAreFresh
<1>14. CountsAreTrue'
  <2> SUFFICES ASSUME NEW n \in Minds, Forgetting(n)', ~minds'[n].crossed
               PROVE  LET q == minds'[n].bank  g == minds'[n].fact  c == Cardinality(memoryTables'[q].facts) IN
                      /\ minds'[n].at = "delete" => minds'[n].before <= c
                      /\ minds'[n].at = "recount" => g \notin memoryTables'[q].facts /\ (owner'[g] # q => minds'[n].before <= c)
    BY DEF CountsAreTrue
  <2> DEFINE q == minds[n].bank
             g == minds[n].fact
  <2>1. n # m /\ minds'[n] = minds[n] /\ minds[n] \in Working /\ Forgetting(n)
    BY <1>10, <1>11, <1>12 DEF Forgetting
  <2>2. q \in Banks /\ g \in Facts /\ g # f /\ minds[n].before \in Nat
    BY <1>3, <2>1 DEF Working, Forgetting
  <2>3. /\ Cardinality(memoryTables[q].facts) \in Nat /\ Cardinality(memoryTables'[q].facts) \in Nat
        /\ Cardinality(memoryTables[q].facts) <= Cardinality(memoryTables'[q].facts)
    <3>1. memoryTables[q].facts \in SUBSET Facts
      BY <2>2 DEF MemoryTypes
    <3>2. memoryTables'[q].facts = memoryTables[q].facts \/ memoryTables'[q].facts = memoryTables[q].facts \cup {f}
      BY <1>5, <2>2
    <3>3. ASSUME NEW S \in SUBSET Facts, NEW T, T = S \/ T = S \cup {f}
          PROVE  Cardinality(S) \in Nat /\ Cardinality(T) \in Nat /\ Cardinality(S) <= Cardinality(T)
      <4>1. f \in Facts
        BY <1>2
      <4> HIDE DEF f
      <4>2. Cardinality(S) \in Nat /\ Cardinality(S \cup {f}) \in Nat /\ Cardinality(S) <= Cardinality(S \cup {f})
        BY <4>1, Counting
      <4>3. CASE T = S
        BY <4>2, <4>3
      <4>4. CASE T = S \cup {f}
        BY <4>2, <4>4
      <4> QED BY <3>3, <4>3, <4>4
    <3> QED BY <3>1, <3>2, <3>3
  <2>4. owner'[g] = owner[g] /\ (g \in memoryTables'[q].facts => g \in memoryTables[q].facts)
    BY <1>5, <1>6, <2>2
  <2>5. ~minds[n].crossed
    BY <2>1
  <2>6. /\ minds[n].at = "delete" => minds[n].before <= Cardinality(memoryTables[q].facts)
        /\ minds[n].at = "recount" => g \notin memoryTables[q].facts
                                      /\ (owner[g] # q => minds[n].before <= Cardinality(memoryTables[q].facts))
    BY <2>1, <2>5 DEF CountsAreTrue
  <2> QED BY <2>1, <2>2, <2>3, <2>4, <2>6
<1> QED BY <1>4, <1>7, <1>8, <1>9, <1>13, <1>14

LEMMA ResettingKeepsFacts ==
  ASSUME MemoryInvariant, NEW m \in Minds, minds' = [minds EXCEPT ![m] = Thinking],
         UNCHANGED <<memoryTables, owner, kept, overwritten>>,
         gone' \subseteq Facts, \A f \in gone' \ gone : owner[f] # "nobody" /\ \A p \in Banks : f \notin memoryTables[p].facts
  PROVE  MemoryInvariant'
<1> USE DEF MemoryInvariant
<1>1. MemoryTypes'
  BY DEF MemoryTypes
<1>2. FactsHaveOwners' /\ FactsAreKept' /\ DeletedIsGone'
  BY DEF FactsHaveOwners, FactsAreKept, DeletedIsGone
<1>3. Thinking.at = "idle"
  BY DEF Thinking
<1>4. minds'[m].at = "idle" /\ \A n \in Minds \ {m} : minds'[n] = minds[n]
  BY <1>3 DEF MemoryTypes
<1>5. FactsAreFresh' /\ CountsAreTrue'
  BY <1>4 DEF FactsAreFresh, CountsAreTrue, Retaining, Forgetting
<1> QED BY <1>1, <1>2, <1>5

LEMMA ForgettingBeginsWell ==
  ASSUME MemoryInvariant, NEW m \in Minds, NEW p \in Banks, NEW f \in Facts, NEW ok \in BOOLEAN,
         ForgetBegins(m, p, f, ok)
  PROVE  MemoryInvariant'
<1> USE DEF MemoryInvariant
<1> DEFINE r == [at |-> "count", bank |-> p, fact |-> f, listed |-> TRUE, before |-> 0, crossed |-> FALSE]
<1>1. /\ owner[f] # "nobody" /\ minds[m] = Thinking /\ UNCHANGED <<memoryTables, owner, kept, gone, overwritten>>
      /\ minds' = [minds EXCEPT ![m] = r] \/ UNCHANGED minds
  BY DEF ForgetBegins, Begin
<1>2. r \in Working
  BY DEF Working, Stages
<1>3. MemoryTypes'
  BY <1>1, <1>2 DEF MemoryTypes
<1>4. FactsHaveOwners' /\ FactsAreKept' /\ DeletedIsGone'
  BY <1>1 DEF FactsHaveOwners, FactsAreKept, DeletedIsGone
<1>5. FactsAreFresh'
  BY <1>1 DEF FactsAreFresh, MemoryTypes, Retaining, Forgetting
<1>6. CountsAreTrue'
  BY <1>1 DEF CountsAreTrue, MemoryTypes, Forgetting
<1> QED BY <1>3, <1>4, <1>5, <1>6

LEMMA CountingKeepsFacts ==
  ASSUME MemoryInvariant, NEW m \in Minds, CountBefore(m)
  PROVE  MemoryInvariant'
<1> USE DEF MemoryInvariant
<1> DEFINE c == Cardinality(memoryTables[minds[m].bank].facts)
<1>1. /\ minds[m].at = "count" /\ minds' = [minds EXCEPT ![m] = [minds[m] EXCEPT !.at = "delete", !.before = c]]
      /\ UNCHANGED <<memoryTables, owner, kept, gone, overwritten>>
  BY DEF CountBefore
<1>2. minds[m] \in Working
  BY <1>1 DEF MemoryTypes, Thinking
<1>3. c \in Nat
  BY <1>2, Counting DEF MemoryTypes, Working
<1>4. [minds[m] EXCEPT !.at = "delete", !.before = c] \in Working
  BY <1>2, <1>3 DEF Working, Stages
<1>5. /\ minds'[m].at = "delete" /\ minds'[m].bank = minds[m].bank /\ minds'[m].fact = minds[m].fact /\ minds'[m].before = c
      /\ \A n \in Minds \ {m} : minds'[n] = minds[n]
  BY <1>1, <1>2 DEF MemoryTypes, Working
<1>6. MemoryTypes'
  BY <1>1, <1>4 DEF MemoryTypes
<1>7. FactsHaveOwners' /\ FactsAreKept' /\ DeletedIsGone'
  BY <1>1 DEF FactsHaveOwners, FactsAreKept, DeletedIsGone
<1>8. FactsAreFresh'
  BY <1>1, <1>5 DEF FactsAreFresh, Retaining, Forgetting
<1>9. CountsAreTrue'
  BY <1>1, <1>3, <1>5 DEF CountsAreTrue, Forgetting
<1> QED BY <1>6, <1>7, <1>8, <1>9

LEMMA DeletingKeepsFacts ==
  ASSUME MemoryInvariant, NEW m \in Minds, DeleteFact(m)
  PROVE  MemoryInvariant'
<1> USE DEF MemoryInvariant
<1> DEFINE p == minds[m].bank
           f == minds[m].fact
<1>1. /\ minds[m].at = "delete" /\ GoesOn(m, "recount")
      /\ memoryTables' = [memoryTables EXCEPT ![p].facts = @ \ {f}]
      /\ kept' = IF owner[f] = p THEN kept \ {f} ELSE kept
      /\ UNCHANGED <<owner, gone, overwritten>>
  BY DEF DeleteFact
<1>2. minds[m] \in Working /\ "recount" \in Stages
  BY <1>1 DEF MemoryTypes, Thinking, Stages
<1>3. p \in Banks /\ f \in Facts /\ minds[m].before \in Nat
  BY <1>2 DEF Working
<1>4. /\ minds' \in [Minds -> Working \cup {Thinking}]
      /\ minds'[m] = [minds[m] EXCEPT !.at = "recount"]
      /\ \A n \in Minds \ {m} :
           /\ minds'[n] = minds[n] \/ (minds[n] \in Working /\ minds'[n] = [minds[n] EXCEPT !.crossed = TRUE])
           /\ minds[n].at # "idle" /\ minds[n].bank = minds[m].bank => minds'[n].crossed
  BY <1>1, <1>2, GoingOn
<1>5. MemoryTypes'
  BY <1>1, <1>3, <1>4 DEF MemoryTypes
<1>6. \A q \in Banks : memoryTables'[q].facts = IF q = p THEN memoryTables[q].facts \ {f} ELSE memoryTables[q].facts
  BY <1>1, <1>3 DEF MemoryTypes
<1>7. FactsHaveOwners' /\ DeletedIsGone'
  BY <1>1, <1>6 DEF FactsHaveOwners, DeletedIsGone
<1>8. FactsAreKept'
  <2>1. \A g \in kept : owner[g] \in Banks
    BY DEF FactsHaveOwners, MemoryTypes
  <2> QED BY <1>1, <1>6, <2>1 DEF FactsAreKept
<1>9. FactsAreFresh'
  BY <1>1, <1>2, GoingOnKeepsFacts
<1>10. ASSUME NEW n \in Minds, Forgetting(n)', ~minds'[n].crossed
       PROVE  LET q == minds'[n].bank  g == minds'[n].fact  c == Cardinality(memoryTables'[q].facts) IN
              /\ minds'[n].at = "delete" => minds'[n].before <= c
              /\ minds'[n].at = "recount" => g \notin memoryTables'[q].facts /\ (owner'[g] # q => minds'[n].before <= c)
  <2>1. CASE n = m
    <3>1. minds'[n].at = "recount" /\ minds'[n].bank = p /\ minds'[n].fact = f /\ minds'[n].before = minds[m].before
          /\ ~minds[m].crossed
      BY <1>2, <1>4, <1>10, <2>1 DEF Working
    <3>2. minds[m].before <= Cardinality(memoryTables[p].facts)
      BY <1>1, <3>1 DEF CountsAreTrue, Forgetting
    <3>3. ASSUME owner[f] # p PROVE memoryTables'[p].facts = memoryTables[p].facts
      BY <1>3, <1>6, <3>3 DEF FactsHaveOwners
    <3>4. f \notin memoryTables'[p].facts
      BY <1>3, <1>6
    <3> QED BY <1>1, <3>1, <3>2, <3>3, <3>4
  <2>2. CASE n # m
    <3>1. minds'[n] = minds[n]
      <4>1. \A r \in Working : [r EXCEPT !.crossed = TRUE].crossed
        BY DEF Working
      <4> QED BY <1>4, <1>10, <2>2, <4>1
    <3>2. minds[n].at # "idle" /\ minds[n] \in Working
      BY <1>10, <3>1 DEF Forgetting, MemoryTypes, Thinking
    <3>3. minds[n].bank # p
      BY <1>4, <1>10, <2>2, <3>2
    <3>4. memoryTables'[minds[n].bank].facts = memoryTables[minds[n].bank].facts
      BY <1>6, <3>2, <3>3 DEF Working
    <3> QED BY <1>1, <1>10, <3>1, <3>4 DEF CountsAreTrue, Forgetting
  <2> QED BY <2>1, <2>2
<1>11. CountsAreTrue'
  BY <1>10 DEF CountsAreTrue
<1> QED BY <1>5, <1>7, <1>8, <1>9, <1>11

LEMMA RecountingKeepsFacts ==
  ASSUME MemoryInvariant, NEW m \in Minds, CountAfter(m)
  PROVE  MemoryInvariant'
<1> USE DEF MemoryInvariant
<1> DEFINE p == minds[m].bank
           f == minds[m].fact
           n == Cardinality(memoryTables[p].facts)
<1>1. /\ minds[m].at = "recount" /\ minds' = [minds EXCEPT ![m] = Thinking]
      /\ gone' = IF n < minds[m].before /\ ~minds[m].crossed THEN gone \cup {f} ELSE gone
      /\ UNCHANGED <<memoryTables, owner, kept, overwritten>>
  BY DEF CountAfter, Done
<1>2. minds[m] \in Working /\ p \in Banks /\ f \in Facts /\ minds[m].before \in Nat
  BY <1>1 DEF MemoryTypes, Thinking, Working
<1>3. n \in Nat
  BY <1>2, Counting DEF MemoryTypes
<1>4. owner[f] # "nobody"
  BY <1>1 DEF FactsAreFresh, Forgetting
<1>5. ASSUME n < minds[m].before, ~minds[m].crossed PROVE \A q \in Banks : f \notin memoryTables[q].facts
  <2>1. f \notin memoryTables[p].facts /\ (owner[f] # p => minds[m].before <= n)
    BY <1>1, <1>5 DEF CountsAreTrue, Forgetting
  <2>2. owner[f] = p
    BY <1>2, <1>3, <1>5, <2>1
  <2> QED BY <2>1, <2>2 DEF FactsHaveOwners
<1>6. gone' \subseteq Facts /\ \A g \in gone' \ gone : owner[g] # "nobody" /\ \A q \in Banks : g \notin memoryTables[q].facts
  BY <1>1, <1>2, <1>4, <1>5 DEF MemoryTypes
<1> QED BY <1>1, <1>6, ResettingKeepsFacts

-----------------------------------------------------------------------------
LEMMA MemoryStays == MemoryInvariant /\ [MemoryNext]_memoryVars => MemoryInvariant'
<1> SUFFICES ASSUME MemoryInvariant, [MemoryNext]_memoryVars PROVE MemoryInvariant'
  OBVIOUS
<1>1. ASSUME NEW m \in Minds, MakeTable(m) \/ AddFact(m) \/ CountBefore(m) \/ DeleteFact(m) \/ CountAfter(m)
      PROVE  MemoryInvariant'
  BY <1>1, MakingKeepsFacts, AddingKeepsFacts, CountingKeepsFacts, DeletingKeepsFacts, RecountingKeepsFacts
<1>2. ASSUME NEW m \in Minds, AddFails(m) PROVE MemoryInvariant'
  <2>1. gone' \subseteq Facts /\ gone' \ gone = {}
    BY <1>2 DEF AddFails, MemoryInvariant, MemoryTypes
  <2> QED BY <1>2, <2>1, ResettingKeepsFacts DEF AddFails, Done
<1>3. ASSUME NEW m \in Minds, NEW p \in Banks, NEW f \in Facts, NEW ok \in BOOLEAN,
             RetainBegins(m, p, f, ok) \/ ForgetBegins(m, p, f, ok)
      PROVE  MemoryInvariant'
  BY <1>3, RetainingBeginsWell, ForgettingBeginsWell
<1>4. CASE Switch \/ UNCHANGED memoryVars
  BY <1>4 DEF Switch, memoryVars, MemoryInvariant, MemoryTypes, FactsHaveOwners, FactsAreFresh, CountsAreTrue,
     FactsAreKept, DeletedIsGone, Retaining, Forgetting
<1> QED BY <1>1, <1>2, <1>3, <1>4 DEF MemoryNext

LEMMA RecallIsRight == MemoryInvariant => RecallIsOwnAndFiltered
<1> SUFFICES ASSUME MemoryInvariant, NEW p \in Banks, NEW tag \in BOOLEAN, NEW ok \in BOOLEAN,
                    NEW s \in Recall(p, tag, ok, 2), NEW f \in s
             PROVE  owner[f] = p /\ (tag /\ ok => f \in Tagged)
  BY DEF RecallIsOwnAndFiltered
<1>1. f \in Filtered(p, tag, ok)
  BY DEF Recall
<1>2. f \in memoryTables[p].facts /\ (tag /\ ok => f \in Tagged)
  BY <1>1 DEF Filtered
<1> QED BY <1>2 DEF MemoryInvariant, FactsHaveOwners

(* What stands where when a message is put before others, or in place of the *)
(* first one.                                                                *)
LEMMA Prepending ==
  ASSUME NEW M, NEW b \in M, NEW r \in Seq(M)
  PROVE  /\ Len(<<b>> \o r) = Len(r) + 1
         /\ \A i \in DOMAIN r : (<<b>> \o r)[i + 1] = r[i]
OBVIOUS

LEMMA Replacing ==
  ASSUME NEW M, NEW b \in M, NEW r \in Seq(M), r # <<>>
  PROVE  /\ Len(<<b>> \o Tail(r)) = Len(r)
         /\ \A i \in DOMAIN r : (<<b>> \o Tail(r))[i] = IF i = 1 THEN b ELSE r[i]
OBVIOUS

(* A request gets no facts, or gets them in front or in its prompt.          *)
LEMMA InjectionIsRight == InjectionKeepsTheRequest
<1> SUFFICES ASSUME NEW r \in Requests, NEW s
             PROVE  \E cut \in 0..1 :
                      /\ Len(Injected(r, s)) = Len(r) + cut
                      /\ \A i \in DOMAIN r : Injected(r, s)[i + cut].text = r[i].text /\ Injected(r, s)[i + cut].role = r[i].role
  BY DEF InjectionKeepsTheRequest
<1> DEFINE user == [role |-> "user", text |-> "u", block |-> {}]
           system == [role |-> "system", text |-> "s", block |-> {}]
           block == [role |-> "system", text |-> "", block |-> s]
           prompt == [r[1] EXCEPT !.block = s]
           M == {user, system, block, prompt}
<1>1. r = <<user>> \/ r = <<system, user>>
  BY DEF Requests
<1>2. r \in Seq(M) /\ block \in M /\ prompt \in M
  <2>1. user \in M /\ system \in M /\ block \in M /\ prompt \in M
    OBVIOUS
  <2> HIDE DEF user, system, block, prompt, M
  <2>2. <<user>> \in Seq(M) /\ <<system, user>> \in Seq(M)
    BY <2>1
  <2> QED BY <1>1, <2>1, <2>2
<1>3. DOMAIN r = 1..Len(r) /\ Len(r) \in Nat /\ \A i \in DOMAIN r : i + 0 = i
  <2>1. r \in Seq(M)
    BY <1>2
  <2> HIDE DEF user, system, block, prompt, M
  <2> QED BY <2>1
<1>4. prompt.text = r[1].text /\ prompt.role = r[1].role
  <2>1. r[1] = user \/ r[1] = system
    BY <1>1
  <2> QED BY <2>1
<1> HIDE DEF user, system, block, prompt, M
<1>5. CASE s = {}
  <2>1. Injected(r, s) = r
    BY <1>5 DEF Injected
  <2>2. 0 \in 0..1 /\ Len(r) = Len(r) + 0 /\ \A i \in DOMAIN r : r[i + 0].text = r[i].text /\ r[i + 0].role = r[i].role
    BY <1>3
  <2> QED BY <2>1, <2>2
<1>6. CASE s # {} /\ r # <<>> /\ r[1].role = "system"
  <2>1. Injected(r, s) = <<prompt>> \o Tail(r)
    BY <1>6 DEF Injected, prompt
  <2>2. Len(<<prompt>> \o Tail(r)) = Len(r) /\ \A i \in DOMAIN r : (<<prompt>> \o Tail(r))[i] = IF i = 1 THEN prompt ELSE r[i]
    BY <1>2, <1>6, Replacing
  <2> QED BY <1>3, <1>4, <2>1, <2>2
<1>7. CASE s # {} /\ ~(r # <<>> /\ r[1].role = "system")
  <2>1. Injected(r, s) = <<block>> \o r
    BY <1>7 DEF Injected, block
  <2>2. Len(<<block>> \o r) = Len(r) + 1 /\ \A i \in DOMAIN r : (<<block>> \o r)[i + 1] = r[i]
    BY <1>2, Prepending
  <2> QED BY <2>1, <2>2
<1> QED BY <1>5, <1>6, <1>7

(* For any profiles, facts and threads: an acknowledged fact is in the table *)
(* of its profile until it is forgotten or a retain made the table anew, a   *)
(* recall sees the profile's own facts, an injection takes no message away,  *)
(* and a fact said to be deleted is gone (LanceDBMemoryBackend).             *)
THEOREM MemoryIsAlwaysKept == MemorySpec => []MemoryIsKept
<1>1. MemoryInvariant => MemoryIsKept
  BY RecallIsRight, InjectionIsRight DEF MemoryInvariant, MemoryIsKept
<1> QED BY MemoryStarts, MemoryStays, <1>1, PTL DEF MemorySpec

-----------------------------------------------------------------------------
(* Access keys.                                                              *)

KeyRecords ==
  [secret : Secrets, allowed : SUBSET AccessProfiles, status : {"active", "revoked"}, expired : BOOLEAN, root : Secrets]
Visits == [at : {"auth", "admitted", "refused"}, secret : Secrets, profile : AccessProfiles, late : BOOLEAN]

(* A table of keys, given the secrets that were withdrawn: one row of each   *)
(* secret, the row a key descends from with the same rights, and of each     *)
(* withdrawn secret a row that is not active.                                *)
KeysSound(rows, out) ==
  /\ rows \in Seq(KeyRecords)
  /\ \A i, j \in DOMAIN rows : rows[i].secret = rows[j].secret => i = j
  /\ \A i \in DOMAIN rows : \E j \in DOMAIN rows : rows[j].secret = rows[i].root /\ rows[j].allowed = rows[i].allowed
  /\ \A s \in out : \E i \in DOMAIN rows : rows[i].secret = s /\ rows[i].status = "revoked"

(* A request that is late came with a withdrawn secret and was not let in.   *)
LateStayOut ==
  \A c \in Clients : visits[c] # NoVisit /\ visits[c].late =>
    visits[c].secret \in withdrawn /\ (visits[c].at = "admitted" => visits[c].profile \in OpenProfiles)

AccessInvariant ==
  /\ KeysSound(keyRows, withdrawn)
  /\ legacyFile \subseteq LegacySecrets
  /\ visits \in [Clients -> Visits \cup {NoVisit}]
  /\ LateStayOut

(* A key of a secret that has no row is added, as its own root or with the   *)
(* rights of its root's row (create_key, rotate_key).                        *)
LEMMA KeyIsAdded ==
  ASSUME NEW rows, NEW out, KeysSound(rows, out), NEW k \in KeyRecords,
         \A i \in DOMAIN rows : rows[i].secret # k.secret,
         \/ k.root = k.secret
         \/ \E j \in DOMAIN rows : rows[j].root = k.root /\ rows[j].allowed = k.allowed
  PROVE  KeysSound(Append(rows, k), out)
<1> DEFINE new == Append(rows, k)
<1>1. rows \in Seq(KeyRecords) /\ Len(rows) \in Nat /\ DOMAIN rows = 1..Len(rows)
  BY DEF KeysSound
<1>0. /\ \A i, j \in DOMAIN rows : rows[i].secret = rows[j].secret => i = j
      /\ \A i \in DOMAIN rows : \E j \in DOMAIN rows : rows[j].secret = rows[i].root /\ rows[j].allowed = rows[i].allowed
      /\ \A s \in out : \E i \in DOMAIN rows : rows[i].secret = s /\ rows[i].status = "revoked"
  BY DEF KeysSound
<1>2. /\ new \in Seq(KeyRecords) /\ DOMAIN new = 1..(Len(rows) + 1)
      /\ \A i \in DOMAIN rows : new[i] = rows[i]
      /\ new[Len(rows) + 1] = k
  BY <1>1
<1>3. DOMAIN new = DOMAIN rows \cup {Len(rows) + 1} /\ Len(rows) + 1 \notin DOMAIN rows
  BY <1>1, <1>2
<1> HIDE DEF new
<1>4. \A i, j \in DOMAIN new : new[i].secret = new[j].secret => i = j
  <2>1. \A i, j \in DOMAIN rows : new[i].secret = new[j].secret => i = j
    BY <1>0, <1>2
  <2> QED BY <2>1, <1>2, <1>3
<1>5. ASSUME NEW i \in DOMAIN new
      PROVE  \E j \in DOMAIN new : new[j].secret = new[i].root /\ new[j].allowed = new[i].allowed
  <2>1. CASE i \in DOMAIN rows
    <3>1. PICK j \in DOMAIN rows : rows[j].secret = rows[i].root /\ rows[j].allowed = rows[i].allowed
      BY <2>1, <1>0
    <3> QED BY <3>1, <2>1, <1>2, <1>3
  <2>2. CASE i = Len(rows) + 1 /\ k.root = k.secret
    BY <2>2, <1>2, <1>3
  <2>3. CASE i = Len(rows) + 1 /\ \E j \in DOMAIN rows : rows[j].root = k.root /\ rows[j].allowed = k.allowed
    <3>1. PICK j \in DOMAIN rows : rows[j].root = k.root /\ rows[j].allowed = k.allowed
      BY <2>3
    <3>2. PICK n \in DOMAIN rows : rows[n].secret = rows[j].root /\ rows[n].allowed = rows[j].allowed
      BY <1>0
    <3> QED BY <3>1, <3>2, <2>3, <1>2, <1>3
  <2> QED BY <2>1, <2>2, <2>3, <1>3
<1>6. \A s \in out : \E i \in DOMAIN new : new[i].secret = s /\ new[i].status = "revoked"
  <2>1. ASSUME NEW s \in out
        PROVE  \E i \in DOMAIN new : new[i].secret = s /\ new[i].status = "revoked"
    <3>1. PICK i \in DOMAIN rows : rows[i].secret = s /\ rows[i].status = "revoked"
      BY <1>0
    <3> QED BY <3>1, <1>2, <1>3
  <2> QED BY <2>1
<1> QED BY <1>2, <1>4, <1>5, <1>6 DEF KeysSound, new

(* Rows are revoked or expire, and what is said to be withdrawn is revoked   *)
(* (rotate_key, revoke_key).                                                 *)
LEMMA KeyIsMarked ==
  ASSUME NEW rows, NEW out, KeysSound(rows, out), NEW marked, NEW leaving, NEW n \in DOMAIN rows,
         \/ marked = [rows EXCEPT ![n].status = "revoked"] /\ leaving \in {out, out \cup {rows[n].secret}}
         \/ marked = [rows EXCEPT ![n].expired = TRUE] /\ leaving = out
  PROVE  /\ KeysSound(marked, leaving)
         /\ DOMAIN marked = DOMAIN rows
         /\ \A i \in DOMAIN rows : /\ marked[i].secret = rows[i].secret /\ marked[i].root = rows[i].root
                                   /\ marked[i].allowed = rows[i].allowed
<1>0. /\ rows \in Seq(KeyRecords)
      /\ \A i, j \in DOMAIN rows : rows[i].secret = rows[j].secret => i = j
      /\ \A i \in DOMAIN rows : \E j \in DOMAIN rows : rows[j].secret = rows[i].root /\ rows[j].allowed = rows[i].allowed
      /\ \A s \in out : \E i \in DOMAIN rows : rows[i].secret = s /\ rows[i].status = "revoked"
  BY DEF KeysSound
<1>1. Len(rows) \in Nat /\ DOMAIN rows = 1..Len(rows) /\ \A i \in DOMAIN rows : rows[i] \in KeyRecords
  BY <1>0
<1>2. PICK k : /\ marked = [rows EXCEPT ![n] = k] /\ k \in KeyRecords
               /\ k.secret = rows[n].secret /\ k.root = rows[n].root /\ k.allowed = rows[n].allowed
               /\ rows[n].status = "revoked" => k.status = "revoked"
               /\ leaving = out \/ (leaving = out \cup {rows[n].secret} /\ k.status = "revoked")
  <2>1. rows[n] \in KeyRecords
    BY <1>1
  <2>2. CASE marked = [rows EXCEPT ![n].status = "revoked"] /\ leaving \in {out, out \cup {rows[n].secret}}
    <3>1. marked = [rows EXCEPT ![n] = [rows[n] EXCEPT !.status = "revoked"]]
      BY <2>2
    <3>2. [rows[n] EXCEPT !.status = "revoked"] \in KeyRecords
      BY <2>1 DEF KeyRecords
    <3> QED BY <3>1, <3>2, <2>1, <2>2 DEF KeyRecords
  <2>3. CASE marked = [rows EXCEPT ![n].expired = TRUE] /\ leaving = out
    <3>1. marked = [rows EXCEPT ![n] = [rows[n] EXCEPT !.expired = TRUE]]
      BY <2>3
    <3>2. [rows[n] EXCEPT !.expired = TRUE] \in KeyRecords
      BY <2>1 DEF KeyRecords
    <3> QED BY <3>1, <3>2, <2>1, <2>3 DEF KeyRecords
  <2> QED BY <2>2, <2>3
<1>3. /\ DOMAIN marked = DOMAIN rows /\ marked \in Seq(KeyRecords)
      /\ \A i \in DOMAIN rows : marked[i] = IF i = n THEN k ELSE rows[i]
  BY <1>0, <1>1, <1>2
<1>4. \A i \in DOMAIN rows :
         /\ marked[i].secret = rows[i].secret /\ marked[i].root = rows[i].root
         /\ marked[i].allowed = rows[i].allowed
         /\ rows[i].status = "revoked" => marked[i].status = "revoked"
  BY <1>2, <1>3
<1>5. \A s \in leaving : \E i \in DOMAIN marked : marked[i].secret = s /\ marked[i].status = "revoked"
  BY <1>0, <1>2, <1>3, <1>4
<1>6. \A i, j \in DOMAIN marked : marked[i].secret = marked[j].secret => i = j
  BY <1>0, <1>3, <1>4
<1>7. \A i \in DOMAIN marked : \E j \in DOMAIN marked : marked[j].secret = marked[i].root /\ marked[j].allowed = marked[i].allowed
  BY <1>0, <1>3, <1>4
<1> QED BY <1>3, <1>4, <1>5, <1>6, <1>7 DEF KeysSound

(* The legacy keys that have no row yet are added, each once                 *)
(* (_migrate_legacy_keys).                                                   *)
LEMMA KeysAreMigrated ==
  ASSUME KeysSound(keyRows, withdrawn), legacyFile \subseteq LegacySecrets,
         keyRows' = keyRows \o SetToSeq({KeyRow(s, LegacyAllowed, s) : s \in legacyFile \ KnownSecrets})
  PROVE  KeysSound(keyRows', withdrawn)
<1> DEFINE coming == legacyFile \ KnownSecrets
           brought == {KeyRow(s, LegacyAllowed, s) : s \in coming}
           list == SetToSeq(brought)
<1>0. /\ keyRows \in Seq(KeyRecords)
      /\ \A i, j \in DOMAIN keyRows : keyRows[i].secret = keyRows[j].secret => i = j
      /\ \A i \in DOMAIN keyRows : \E j \in DOMAIN keyRows :
            keyRows[j].secret = keyRows[i].root /\ keyRows[j].allowed = keyRows[i].allowed
      /\ \A s \in withdrawn : \E i \in DOMAIN keyRows : keyRows[i].secret = s /\ keyRows[i].status = "revoked"
  BY DEF KeysSound
<1>1. IsFiniteSet(brought)
  <2>1. IsFiniteSet(coming)
    BY KeysAssumption, FS_Subset
  <2>2. IsFiniteSet({KeyRow(s, LegacyAllowed, s) : s \in coming})
    <3> DEFINE write == [s \in coming |-> KeyRow(s, LegacyAllowed, s)]
    <3>1. write \in Surjection(coming, brought)
      BY DEF Surjection
    <3> HIDE DEF write
    <3> QED BY <3>1, <2>1, FS_Surjection DEF ExistsSurjection
  <2> QED BY <2>2
<1>2. PICK f \in [1..Cardinality(brought) -> brought] : IsInjective(f)
  BY <1>1, FS_CardinalityType DEF ExistsBijection, Bijection, Injection
<1>3. list \in [1..Cardinality(brought) -> brought] /\ IsInjective(list)
  BY <1>2 DEF SetToSeq
<1>4. Cardinality(brought) \in Nat
  BY <1>1, FS_CardinalityType
<1>5. \A r \in brought : /\ r \in KeyRecords /\ r.secret \notin KnownSecrets /\ r.root = r.secret
                         /\ r = KeyRow(r.secret, LegacyAllowed, r.secret)
  <2>1. ASSUME NEW r \in brought
        PROVE  /\ r \in KeyRecords /\ r.secret \notin KnownSecrets /\ r.root = r.secret
               /\ r = KeyRow(r.secret, LegacyAllowed, r.secret)
    <3>1. PICK s \in coming : r = KeyRow(s, LegacyAllowed, s)
      BY <2>1
    <3>2. s \in Secrets /\ s \notin KnownSecrets
      BY DEF Secrets
    <3> QED BY <3>1, <3>2 DEF KeyRow, KeyRecords, LegacyAllowed
  <2> QED BY <2>1
<1>6. list \in Seq(KeyRecords) /\ Len(list) = Cardinality(brought) /\ DOMAIN list = 1..Cardinality(brought)
  <2>1. list \in [1..Cardinality(brought) -> KeyRecords]
    BY <1>3, <1>5
  <2> QED BY <2>1, <1>4
<1>7. \A i, j \in DOMAIN list : list[i].secret = list[j].secret => i = j
  <2>1. \A i \in DOMAIN list : list[i] \in brought
    BY <1>3
  <2>2. \A i, j \in DOMAIN list : list[i].secret = list[j].secret => list[i] = list[j]
    BY <2>1, <1>5
  <2> QED BY <2>2, <1>3 DEF IsInjective
<1>8. \A i \in DOMAIN list : list[i].secret \notin KnownSecrets /\ list[i].root = list[i].secret
  BY <1>3, <1>5
<1> HIDE DEF list
<1> DEFINE n == Len(keyRows)  m == Len(list)  new == keyRows \o list
<1>17. n \in Nat /\ m \in Nat /\ DOMAIN keyRows = 1..n /\ DOMAIN list = 1..m
  BY <1>0, <1>4, <1>6
<1>18. new \in Seq(KeyRecords) /\ Len(new) = n + m
  BY <1>0, <1>6
<1>9. /\ n \in Nat /\ m \in Nat /\ DOMAIN keyRows = 1..n /\ DOMAIN list = 1..m
      /\ new \in Seq(KeyRecords) /\ DOMAIN new = 1..(n + m)
      /\ \A i \in 1..n : new[i] = keyRows[i]
      /\ \A i \in 1..m : new[n + i] = list[i]
  <2>1. \A i \in 1..n : new[i] = keyRows[i]
    BY <1>0, <1>6, <1>17
  <2>2. \A i \in 1..m : new[n + i] = list[i]
    BY <1>0, <1>6, <1>17
  <2> QED BY <2>1, <2>2, <1>17, <1>18
<1>10. keyRows' = new
  BY DEF list
<1> HIDE DEF new, n, m
<1>11. \A i \in DOMAIN new : i \in 1..n \/ (i - n \in 1..m /\ new[i] = list[i - n])
  BY <1>9
<1>12. \A i \in 1..n : new[i].secret \in KnownSecrets
  BY <1>9 DEF KnownSecrets
<1>13. \A i, j \in DOMAIN new : new[i].secret = new[j].secret => i = j
  <2> SUFFICES ASSUME NEW i \in DOMAIN new, NEW j \in DOMAIN new, new[i].secret = new[j].secret
               PROVE  i = j
    OBVIOUS
  <2>1. CASE i \in 1..n /\ j \in 1..n
    <3>1. i \in DOMAIN keyRows /\ j \in DOMAIN keyRows /\ keyRows[i].secret = keyRows[j].secret
      BY <2>1, <1>9
    <3> QED BY <3>1, <1>0
  <2>2. CASE i \notin 1..n /\ j \notin 1..n
    <3>1. i - n = j - n
      BY <2>2, <1>7, <1>9, <1>11
    <3> QED BY <3>1, <1>9
  <2>3. CASE i \in 1..n /\ j \notin 1..n
    BY <2>3, <1>8, <1>9, <1>11, <1>12
  <2>4. CASE i \notin 1..n /\ j \in 1..n
    BY <2>4, <1>8, <1>9, <1>11, <1>12
  <2> QED BY <2>1, <2>2, <2>3, <2>4
<1>14. ASSUME NEW i \in DOMAIN new
       PROVE  \E j \in DOMAIN new : new[j].secret = new[i].root /\ new[j].allowed = new[i].allowed
  <2>1. CASE i \in 1..n
    <3>1. PICK j \in DOMAIN keyRows : keyRows[j].secret = keyRows[i].root /\ keyRows[j].allowed = keyRows[i].allowed
      BY <2>1, <1>0, <1>9
    <3> QED BY <3>1, <2>1, <1>9
  <2>2. CASE i \notin 1..n
    BY <2>2, <1>8, <1>9, <1>11
  <2> QED BY <2>1, <2>2
<1>15. ASSUME NEW s \in withdrawn
       PROVE  \E i \in DOMAIN new : new[i].secret = s /\ new[i].status = "revoked"
  <2>1. PICK i \in DOMAIN keyRows : keyRows[i].secret = s /\ keyRows[i].status = "revoked"
    BY <1>0
  <2> QED BY <2>1, <1>9
<1>16. KeysSound(new, withdrawn)
  BY <1>9, <1>13, <1>14, <1>15 DEF KeysSound
<1> QED BY <1>10, <1>16

LEMMA KeysStart == AccessInit => AccessInvariant
BY DEF AccessInit, AccessInvariant, KeysSound, LateStayOut

(* An admin's step, whose rows and withdrawn secrets are sound, leaves what  *)
(* the visitors were told standing.                                          *)
LEMMA VisitorsRest ==
  ASSUME AccessInvariant, UNCHANGED visits, withdrawn \subseteq withdrawn'
  PROVE  LateStayOut'
BY DEF AccessInvariant, LateStayOut

(* A withdrawn secret is not validated, and so lets nobody in.               *)
LEMMA WithdrawnIsRefused ==
  ASSUME AccessInvariant, NEW s \in withdrawn
  PROVE  RowOf(s) = 0
<1>1. KeysSound(keyRows, withdrawn)
  BY DEF AccessInvariant
<1>2. PICK i \in DOMAIN keyRows : keyRows[i].secret = s /\ keyRows[i].status = "revoked"
  BY <1>1 DEF KeysSound
<1>3. \A j \in DOMAIN keyRows : keyRows[j].secret = s => j = i
  BY <1>1, <1>2 DEF KeysSound
<1>4. {j \in DOMAIN keyRows : keyRows[j].secret = s /\ keyRows[j].status = "active"} = {}
  BY <1>2, <1>3
<1> QED BY <1>4 DEF RowOf

LEMMA KeysStay ==
  ASSUME AccessInvariant, [AccessNext]_accessVars
  PROVE  AccessInvariant'
<1>1. /\ KeysSound(keyRows, withdrawn) /\ legacyFile \subseteq LegacySecrets
      /\ visits \in [Clients -> Visits \cup {NoVisit}]
  BY DEF AccessInvariant
<1>2. LateStayOut
  BY DEF AccessInvariant
<1>3. CASE Migrate
  BY <1>1, <1>3, KeysAreMigrated, VisitorsRest DEF Migrate, AccessInvariant, accessBounds
<1>4. CASE AccessCrash
  <2>1. KeysSound(keyRows, withdrawn)'
    BY <1>1, <1>4 DEF AccessCrash
  <2>2. (visits \in [Clients -> Visits \cup {NoVisit}])' /\ LateStayOut'
    BY <1>4 DEF AccessCrash, LateStayOut
  <2> QED BY <2>1, <2>2, <1>1, <1>4 DEF AccessCrash, AccessInvariant
<1>5. ASSUME NEW ok \in BOOLEAN, RenameFile(ok)
      PROVE  AccessInvariant'
  BY <1>1, <1>5, VisitorsRest DEF RenameFile, AccessInvariant, accessBounds
<1>6. ASSUME NEW s \in FreshSecrets, NEW a \in {Everything, AccessProfiles \ OpenProfiles}, CreateKey(s, a)
      PROVE  AccessInvariant'
  <2>1. KeyRow(s, a, s) \in KeyRecords /\ KeyRow(s, a, s).secret = s /\ KeyRow(s, a, s).root = s
    BY DEF KeyRow, KeyRecords, Secrets, Everything
  <2>2. \A i \in DOMAIN keyRows : keyRows[i].secret # s
    BY <1>6 DEF CreateKey, Fresh, KnownSecrets
  <2>3. KeysSound(keyRows', withdrawn)
    BY <1>1, <1>6, <2>1, <2>2, KeyIsAdded DEF CreateKey
  <2> QED BY <1>1, <1>6, <2>3, VisitorsRest DEF CreateKey, AdminOp, AccessInvariant
<1>7. ASSUME NEW s \in FreshSecrets, NEW i \in DOMAIN keyRows, RotateKey(i, s)
      PROVE  AccessInvariant'
  <2> DEFINE marked == [keyRows EXCEPT ![i].status = "revoked"]
             k == [KeyRow(s, keyRows[i].allowed, keyRows[i].root) EXCEPT !.expired = keyRows[i].expired]
  <2>1. keyRows[i] \in KeyRecords
    BY <1>1 DEF KeysSound
  <2>2. k \in KeyRecords /\ k.secret = s /\ k.root = keyRows[i].root /\ k.allowed = keyRows[i].allowed
    BY <2>1 DEF KeyRow, KeyRecords, Secrets
  <2>3. /\ KeysSound(marked, withdrawn') /\ DOMAIN marked = DOMAIN keyRows
        /\ \A n \in DOMAIN keyRows : /\ marked[n].secret = keyRows[n].secret /\ marked[n].root = keyRows[n].root
                                      /\ marked[n].allowed = keyRows[n].allowed
    <3>1. withdrawn' \in {withdrawn, withdrawn \cup {keyRows[i].secret}}
      BY <1>7 DEF RotateKey
    <3> QED BY <1>1, <3>1, KeyIsMarked
  <2>4. \A n \in DOMAIN marked : marked[n].secret # s
    BY <1>7, <2>3 DEF RotateKey, Fresh, KnownSecrets
  <2>5. \E n \in DOMAIN marked : marked[n].root = k.root /\ marked[n].allowed = k.allowed
    BY <2>2, <2>3
  <2>6. keyRows' = Append(marked, k)
    BY <1>7 DEF RotateKey
  <2> HIDE DEF marked, k
  <2>7. KeysSound(keyRows', withdrawn')
    BY <2>2, <2>3, <2>4, <2>5, <2>6, KeyIsAdded
  <2> QED BY <1>1, <1>7, <2>7, VisitorsRest DEF RotateKey, AdminOp, AccessInvariant
<1>8. ASSUME NEW i \in DOMAIN keyRows, RevokeKey(i)
      PROVE  AccessInvariant'
  <2>1. KeysSound(keyRows', withdrawn')
    <3> DEFINE marked == [keyRows EXCEPT ![i].status = "revoked"]
    <3>1. keyRows' = marked /\ withdrawn' \in {withdrawn, withdrawn \cup {keyRows[i].secret}}
      BY <1>8 DEF RevokeKey
    <3>2. /\ KeysSound(marked, withdrawn') /\ DOMAIN marked = DOMAIN keyRows
          /\ \A n \in DOMAIN keyRows : /\ marked[n].secret = keyRows[n].secret /\ marked[n].root = keyRows[n].root
                                        /\ marked[n].allowed = keyRows[n].allowed
      <4>1. withdrawn' \in {withdrawn, withdrawn \cup {keyRows[i].secret}}
        BY <3>1
      <4> QED BY <1>1, <4>1, KeyIsMarked
    <3> QED BY <3>1, <3>2
  <2> QED BY <1>1, <1>8, <2>1, VisitorsRest DEF RevokeKey, AdminOp, AccessInvariant
<1>9. ASSUME NEW i \in DOMAIN keyRows, KeyExpires(i)
      PROVE  AccessInvariant'
  <2>1. KeysSound(keyRows', withdrawn')
    BY <1>1, <1>9, KeyIsMarked DEF KeyExpires
  <2> QED BY <1>1, <1>9, <2>1, VisitorsRest DEF KeyExpires, AccessInvariant
<1>10. ASSUME NEW c \in Clients, Authenticate(c)
       PROVE  AccessInvariant'
  <2>1. visits[c] \in Visits /\ visits[c] # NoVisit
    BY <1>1, <1>10 DEF Authenticate, NoVisit
  <2> DEFINE v == visits[c]
             in == v.profile \in OpenProfiles \/ (managerUp /\ RowOf(v.secret) # 0 /\ MayUse(RowOf(v.secret), v.profile))
             to == IF in THEN "admitted" ELSE "refused"
  <2>2. visits' = [visits EXCEPT ![c] = [v EXCEPT !.at = to]]
    BY <1>10 DEF Authenticate
  <2>3. [v EXCEPT !.at = to] \in Visits
    BY <2>1 DEF Visits
  <2>4. v.late => v.secret \in withdrawn /\ (in => v.profile \in OpenProfiles)
    BY <1>2, <2>1, WithdrawnIsRefused DEF LateStayOut
  <2>5. to = "admitted" => in
    OBVIOUS
  <2> HIDE DEF in, to
  <2>6. /\ visits' \in [Clients -> Visits \cup {NoVisit}]
        /\ \A d \in Clients : visits'[d] = IF d = c THEN [v EXCEPT !.at = to] ELSE visits[d]
    BY <1>1, <2>2, <2>3
  <2>7. /\ [v EXCEPT !.at = to].late = v.late /\ [v EXCEPT !.at = to].secret = v.secret
        /\ [v EXCEPT !.at = to].profile = v.profile /\ [v EXCEPT !.at = to].at = to
    BY <2>1 DEF Visits
  <2>8. withdrawn' = withdrawn /\ keyRows' = keyRows /\ legacyFile' = legacyFile
    BY <1>10 DEF Authenticate
  <2>9. LateStayOut'
    BY <1>2, <2>4, <2>5, <2>6, <2>7, <2>8 DEF LateStayOut
  <2> QED BY <1>1, <2>6, <2>8, <2>9 DEF AccessInvariant
<1>11. ASSUME NEW c \in Clients, VisitEnds(c)
       PROVE  AccessInvariant'
  <2>1. /\ visits' \in [Clients -> Visits \cup {NoVisit}]
        /\ \A d \in Clients : visits'[d] = IF d = c THEN NoVisit ELSE visits[d]
    BY <1>1, <1>11 DEF VisitEnds
  <2>2. LateStayOut'
    BY <1>2, <1>11, <2>1 DEF VisitEnds, LateStayOut
  <2> QED BY <1>1, <1>11, <2>1, <2>2 DEF VisitEnds, AccessInvariant
<1>12. ASSUME NEW c \in Clients, NEW s \in Secrets, NEW p \in AccessProfiles, PresentKey(c, s, p)
       PROVE  AccessInvariant'
  <2> DEFINE v == [at |-> "auth", secret |-> s, profile |-> p, late |-> s \in withdrawn]
  <2>1. v \in Visits /\ (v.late => s \in withdrawn) /\ v.at = "auth" /\ v.secret = s
    <3>1. \A b \in BOOLEAN : [at |-> "auth", secret |-> s, profile |-> p, late |-> b] \in Visits
      BY DEF Visits
    <3>2. (s \in withdrawn) \in BOOLEAN
      OBVIOUS
    <3> QED BY <3>1, <3>2
  <2>2. visits' = [visits EXCEPT ![c] = v]
    BY <1>12 DEF PresentKey
  <2> HIDE DEF v
  <2>3. /\ visits' \in [Clients -> Visits \cup {NoVisit}]
        /\ \A d \in Clients : visits'[d] = IF d = c THEN v ELSE visits[d]
    BY <1>1, <2>1, <2>2
  <2>4. withdrawn' = withdrawn /\ keyRows' = keyRows /\ legacyFile' = legacyFile
    BY <1>12 DEF PresentKey
  <2>5. LateStayOut'
    BY <1>2, <2>1, <2>3, <2>4 DEF LateStayOut
  <2> QED BY <1>1, <2>3, <2>4, <2>5 DEF AccessInvariant
<1>13. CASE UNCHANGED accessVars
  BY <1>1, <1>13, VisitorsRest DEF accessVars, AccessInvariant
<1> QED BY <1>3, <1>4, <1>5, <1>6, <1>7, <1>8, <1>9, <1>10, <1>11, <1>12, <1>13 DEF AccessNext

LEMMA KeysAreGuarded ==
  ASSUME AccessInvariant
  PROVE  AccessTypeOK /\ RevokedStaysOut /\ OneRowPerSecret /\ RotationKeepsRights
<1>1. /\ keyRows \in Seq(KeyRecords)
      /\ \A i, j \in DOMAIN keyRows : keyRows[i].secret = keyRows[j].secret => i = j
      /\ \A i \in DOMAIN keyRows : \E j \in DOMAIN keyRows :
            keyRows[j].secret = keyRows[i].root /\ keyRows[j].allowed = keyRows[i].allowed
  BY DEF AccessInvariant, KeysSound
<1>2. legacyFile \subseteq LegacySecrets /\ visits \in [Clients -> Visits \cup {NoVisit}] /\ LateStayOut
  BY DEF AccessInvariant
<1>3. \A i \in DOMAIN keyRows : keyRows[i] \in KeyRecords
  BY <1>1
<1>4. \A c \in Clients : visits[c].at \in {"idle", "auth", "admitted", "refused"} /\ (visits[c].at = "admitted" => visits[c] # NoVisit)
  BY <1>2 DEF Visits, NoVisit
<1>5. AccessTypeOK
  BY <1>2, <1>3, <1>4 DEF AccessTypeOK, KeyRecords
<1>6. RevokedStaysOut
  BY <1>2, <1>4 DEF RevokedStaysOut, Guarded, LateStayOut
<1>7. OneRowPerSecret
  BY <1>1 DEF OneRowPerSecret
<1>8. RotationKeepsRights
  BY <1>1 DEF RotationKeepsRights
<1> QED BY <1>5, <1>6, <1>7, <1>8

-----------------------------------------------------------------------------
(* Stored credentials.                                                       *)

KeySteps == {"key", "create", "write", "reread", "use"}
Doings == [at : KeySteps, slot : Slots, text : Plaintexts, key : Nat]

(* Well-formed keys, rows and threads (crypto.py, CredentialStore).          *)
VaultTypes ==
  /\ drawn \in Nat /\ drawn >= FromEnv /\ secretFile \in 0..drawn
  /\ vault \in [Vaulters -> Doings \cup {AtRest}]
  /\ disturbed \in BOOLEAN
  /\ DOMAIN tokens = Slots /\ DOMAIN wanted = Slots
  /\ \A s \in Slots : tokens[s] = [under |-> tokens[s].under, text |-> tokens[s].text] /\ tokens[s].under \in 0..drawn

(* A key is handed out for use only once there is one, and a row under no    *)
(* key holds nothing.                                                        *)
KeysAreReal ==
  /\ \A t \in Vaulters : /\ vault[t].at = "use" => vault[t].key \in 1..drawn
                         /\ vault[t].at \in {"write", "reread"} => secretFile # NoKeyFile
  /\ \A s \in Slots : tokens[s].under = NoKeyFile => tokens[s].text = NoPlain

(* The variable is the only key there is.                                    *)
EnvironmentRules ==
  EnvKey => /\ \A t \in Vaulters : /\ vault[t].at = "use" => vault[t].key = FromEnv
                                   /\ vault[t].at \notin {"create", "write", "reread"}
            /\ \A s \in Slots : tokens[s].under \in {NoKeyFile, FromEnv}

(* Or the file's key is the only one, unless two threads made the file at    *)
(* once: one thread makes it, before anything is stored.                     *)
FileRules ==
  ~EnvKey /\ ~disturbed =>
    /\ \A t \in Vaulters : /\ vault[t].at = "use" => vault[t].key = secretFile
                           /\ vault[t].at = "create" => secretFile = NoKeyFile
                           /\ vault[t].at \in {"create", "write"} =>
                                /\ \A u \in Vaulters : vault[u].at # "use"
                                /\ \A s \in Slots : tokens[s].under = NoKeyFile
    /\ \A t, u \in Creating : t = u
    /\ \A s \in Slots : tokens[s].under \in {NoKeyFile, secretFile}

(* A row holds what was last stored in its slot.                             *)
RowsAreWanted == \A s \in Slots : tokens[s].text = wanted[s]

SecretsInvariant ==
  VaultTypes /\ KeysAreReal /\ EnvironmentRules /\ FileRules /\ RowsAreWanted

LEMMA SecretsStart == SecretsInit => SecretsInvariant
<1> USE DEF NoKeyFile, FromEnv
<1> SUFFICES ASSUME SecretsInit
             PROVE  SecretsInvariant
  OBVIOUS
<1>1. /\ secretFile = 0 /\ drawn = 2 /\ disturbed = FALSE
      /\ tokens = [s \in Slots |-> NoToken] /\ wanted = [s \in Slots |-> NoPlain]
      /\ vault = [t \in Vaulters |-> AtRest]
  BY DEF SecretsInit
<1>2. NoToken.under = 0 /\ NoToken.text = NoPlain /\ NoToken = [under |-> NoToken.under, text |-> NoToken.text]
  BY DEF NoToken
<1>3. \A t \in Vaulters : vault[t].at = "idle"
  BY <1>1 DEF AtRest
<1>4. VaultTypes /\ KeysAreReal /\ RowsAreWanted
  <2>1. VaultTypes
    <3>1. vault \in [Vaulters -> Doings \cup {AtRest}]
      BY <1>1
    <3>2. drawn \in Nat /\ drawn >= FromEnv /\ secretFile \in 0..drawn
      BY <1>1
    <3>5. disturbed \in BOOLEAN
      BY <1>1
    <3>3. /\ DOMAIN tokens = Slots /\ DOMAIN wanted = Slots
          /\ \A s \in Slots : tokens[s] = NoToken
      BY <1>1
    <3>4. \A s \in Slots : tokens[s] = [under |-> tokens[s].under, text |-> tokens[s].text] /\ tokens[s].under \in 0..drawn
      <4>1. ASSUME NEW s \in Slots
            PROVE  tokens[s] = [under |-> tokens[s].under, text |-> tokens[s].text]
        BY <1>2, <3>3
      <4>2. \A s \in Slots : tokens[s].under \in 0..drawn
        <5>1. 0 \in 0..drawn /\ NoToken.under = 0
          BY <1>1, <1>2
        <5> QED BY <5>1, <3>3
      <4> QED BY <4>1, <4>2
    <3> QED BY <3>1, <3>2, <3>3, <3>4, <3>5 DEF VaultTypes
  <2>2. KeysAreReal /\ RowsAreWanted
    BY <1>1, <1>2, <1>3 DEF KeysAreReal, RowsAreWanted
  <2> QED BY <2>1, <2>2
<1>5. EnvironmentRules /\ FileRules
  BY <1>1, <1>2, <1>3 DEF EnvironmentRules, FileRules, Creating
<1> QED BY <1>4, <1>5 DEF SecretsInvariant

LEMMA SecretsStay ==
  ASSUME SecretsInvariant, [SecretsNext]_secretVars
  PROVE  SecretsInvariant'
<1> USE DEF NoKeyFile, FromEnv, EmptyFile
<1>1. /\ drawn \in Nat /\ drawn >= 2 /\ secretFile \in 0..drawn
      /\ vault \in [Vaulters -> Doings \cup {AtRest}] /\ disturbed \in BOOLEAN
      /\ DOMAIN tokens = Slots /\ DOMAIN wanted = Slots
      /\ \A s \in Slots : tokens[s] = [under |-> tokens[s].under, text |-> tokens[s].text] /\ tokens[s].under \in 0..drawn
  BY DEF SecretsInvariant, VaultTypes
<1>2. /\ \A t \in Vaulters : /\ vault[t].at = "use" => vault[t].key \in 1..drawn
                             /\ vault[t].at \in {"write", "reread"} => secretFile # 0
      /\ \A s \in Slots : tokens[s].under = 0 => tokens[s].text = NoPlain
  BY DEF SecretsInvariant, KeysAreReal
<1>3. EnvironmentRules /\ FileRules /\ RowsAreWanted
  BY DEF SecretsInvariant
<1>4. ASSUME NEW t \in Vaulters, vault[t] # AtRest
      PROVE  /\ vault[t] \in Doings /\ vault[t].at \in KeySteps /\ vault[t].slot \in Slots /\ vault[t].key \in Nat
             /\ \A a \in KeySteps : /\ [vault[t] EXCEPT !.at = a] \in Doings
                                    /\ [vault[t] EXCEPT !.at = a].at = a
                                    /\ [vault[t] EXCEPT !.at = a].key = vault[t].key
             /\ \A a \in KeySteps, k \in Nat : /\ [vault[t] EXCEPT !.at = a, !.key = k] \in Doings
                                               /\ [vault[t] EXCEPT !.at = a, !.key = k].at = a
                                               /\ [vault[t] EXCEPT !.at = a, !.key = k].key = k
  <2>1. vault[t] \in Doings
    BY <1>1, <1>4
  <2> QED BY <2>1 DEF Doings
<1>5. AtRest.at = "idle"
  BY DEF AtRest
<1>6. CASE SecretCrash
  <2>1. /\ vault' = [t \in Vaulters |-> AtRest]
        /\ UNCHANGED <<secretFile, drawn, tokens, wanted, disturbed>>
    BY <1>6 DEF SecretCrash
  <2>2. \A t \in Vaulters : vault'[t].at = "idle"
    BY <2>1, <1>5
  <2>3. VaultTypes' /\ KeysAreReal' /\ RowsAreWanted'
    BY <1>1, <1>2, <1>3, <2>1, <2>2 DEF VaultTypes, KeysAreReal, RowsAreWanted
  <2>4. EnvironmentRules' /\ FileRules'
    BY <1>3, <2>1, <2>2 DEF EnvironmentRules, FileRules, Creating
  <2> QED BY <2>3, <2>4 DEF SecretsInvariant
<1>7. ASSUME NEW t \in Vaulters, FindKey(t)
      PROVE  SecretsInvariant'
  <2> DEFINE a == IF ~EnvKey /\ secretFile = NoKeyFile THEN "create" ELSE "use"
             k == IF EnvKey THEN FromEnv ELSE secretFile
             v == [vault[t] EXCEPT !.at = a, !.key = k]
  <2>1. vault[t].at = "key" /\ vault[t] # AtRest
    BY <1>5, <1>7 DEF FindKey
  <2>2. v \in Doings /\ v.at = a /\ v.key = k
    <3>1. a \in KeySteps /\ k \in Nat
      BY <1>1 DEF KeySteps
    <3>2. vault[t] \in Doings
      BY <1>4, <2>1
    <3> HIDE DEF a, k
    <3> QED BY <3>1, <3>2 DEF Doings
  <2>3. /\ vault' = [vault EXCEPT ![t] = v]
        /\ disturbed' = (disturbed \/ (~EnvKey /\ Creating # {}))
        /\ UNCHANGED <<secretFile, drawn, tokens, wanted>>
    BY <1>7 DEF FindKey
  <2>4. (a = "create" => ~EnvKey /\ secretFile = 0) /\ (a = "use" => k \in 1..drawn /\ (~EnvKey => secretFile # 0)) /\ a \in {"create", "use"}
    BY <1>1
  <2>10. EnvKey => a = "use" /\ k = FromEnv
    OBVIOUS
  <2> HIDE DEF v, a
  <2>5. /\ vault' \in [Vaulters -> Doings \cup {AtRest}]
        /\ \A u \in Vaulters : vault'[u] = IF u = t THEN v ELSE vault[u]
    BY <1>1, <2>2, <2>3
  <2>6. disturbed' \in BOOLEAN /\ (~disturbed' => ~disturbed /\ (EnvKey \/ Creating = {}))
    BY <1>1, <2>3
  <2>7. VaultTypes' /\ KeysAreReal' /\ RowsAreWanted'
    BY <1>1, <1>2, <1>3, <2>2, <2>3, <2>4, <2>5, <2>6 DEF VaultTypes, KeysAreReal, RowsAreWanted
  <2>8. EnvironmentRules'
    BY <1>3, <2>2, <2>3, <2>5, <2>10 DEF EnvironmentRules
  <2>9. FileRules'
    <3> SUFFICES ASSUME ~EnvKey, ~disturbed'
                 PROVE  /\ \A u \in Vaulters : /\ vault'[u].at = "use" => vault'[u].key = secretFile
                                               /\ vault'[u].at = "create" => secretFile = 0
                                               /\ vault'[u].at \in {"create", "write"} =>
                                                    /\ \A w \in Vaulters : vault'[w].at # "use"
                                                    /\ \A s \in Slots : tokens[s].under = 0
                        /\ \A u, w \in Creating' : u = w
                        /\ \A s \in Slots : tokens[s].under \in {0, secretFile}
      BY <2>3 DEF FileRules
    <3>1. ~disturbed /\ Creating = {}
      BY <2>6
    <3>2. /\ \A u \in Vaulters : vault[u].at = "use" => vault[u].key = secretFile
          /\ \A s \in Slots : tokens[s].under \in {0, secretFile}
      BY <1>3, <3>1 DEF FileRules
    <3>3. \A u \in Vaulters : vault[u].at \notin {"create", "write", "reread"}
      BY <3>1 DEF Creating
    <3>4. \A u, w \in Creating' : u = w
      BY <2>5, <3>3 DEF Creating
    <3>5. \A u \in Vaulters : vault[u].at = "use" => secretFile # 0
      BY <1>1, <1>2, <3>2
    <3>6. \A u \in Vaulters : vault'[u].at \in {"create", "write"} => u = t /\ a = "create"
      BY <2>2, <2>4, <2>5, <3>3
    <3>7. a = "create" => \A w \in Vaulters : vault'[w].at # "use"
      BY <2>2, <2>4, <2>5, <3>5
    <3>8. k = secretFile
      OBVIOUS
    <3> QED BY <2>2, <2>4, <2>5, <3>2, <3>4, <3>6, <3>7, <3>8
  <2> QED BY <2>7, <2>8, <2>9 DEF SecretsInvariant
<1>8. ASSUME NEW t \in Vaulters, OpenFile(t)
      PROVE  SecretsInvariant'
  <2> DEFINE v == [vault[t] EXCEPT !.at = "write"]
  <2>1. vault[t].at = "create" /\ vault[t] # AtRest
    BY <1>5, <1>8 DEF OpenFile
  <2>2. v \in Doings /\ v.at = "write"
    BY <1>4, <2>1 DEF KeySteps
  <2>3. /\ vault' = [vault EXCEPT ![t] = v] /\ secretFile' = 1
        /\ UNCHANGED <<drawn, tokens, wanted, disturbed>>
    BY <1>8 DEF OpenFile
  <2> HIDE DEF v
  <2>4. /\ vault' \in [Vaulters -> Doings \cup {AtRest}]
        /\ \A u \in Vaulters : vault'[u] = IF u = t THEN v ELSE vault[u]
    BY <1>1, <2>2, <2>3
  <2>5. VaultTypes' /\ KeysAreReal' /\ RowsAreWanted'
    BY <1>1, <1>2, <1>3, <2>2, <2>3, <2>4 DEF VaultTypes, KeysAreReal, RowsAreWanted
  <2>6. EnvironmentRules'
    <3>1. ~EnvKey
      BY <1>3, <2>1 DEF EnvironmentRules
    <3> QED BY <3>1 DEF EnvironmentRules
  <2>7. FileRules'
    <3> SUFFICES ASSUME ~EnvKey, ~disturbed
                 PROVE  /\ \A u \in Vaulters : /\ vault'[u].at = "use" => vault'[u].key = secretFile'
                                               /\ vault'[u].at = "create" => secretFile' = 0
                                               /\ vault'[u].at \in {"create", "write"} =>
                                                    /\ \A w \in Vaulters : vault'[w].at # "use"
                                                    /\ \A s \in Slots : tokens[s].under = 0
                        /\ \A u, w \in Creating' : u = w
                        /\ \A s \in Slots : tokens[s].under \in {0, secretFile'}
      BY <2>3 DEF FileRules
    <3>1. /\ \A u \in Vaulters : vault[u].at # "use"
          /\ \A s \in Slots : tokens[s].under = 0
          /\ \A u, w \in Creating : u = w
      BY <1>3, <2>1 DEF FileRules
    <3>2. Creating' = Creating
      BY <2>1, <2>2, <2>4 DEF Creating
    <3>3. \A u \in Vaulters : vault[u].at = "create" => u = t
      BY <2>1, <3>1 DEF Creating
    <3> QED BY <2>2, <2>4, <3>1, <3>2, <3>3
  <2> QED BY <2>5, <2>6, <2>7 DEF SecretsInvariant
<1>9. ASSUME NEW t \in Vaulters, WriteFile(t)
      PROVE  SecretsInvariant'
  <2> DEFINE v == [vault[t] EXCEPT !.at = "reread"]
  <2>1. vault[t].at = "write" /\ vault[t] # AtRest
    BY <1>5, <1>9 DEF WriteFile
  <2>2. v \in Doings /\ v.at = "reread"
    BY <1>4, <2>1 DEF KeySteps
  <2>3. /\ vault' = [vault EXCEPT ![t] = v] /\ drawn' = drawn + 1 /\ secretFile' = drawn + 1
        /\ UNCHANGED <<tokens, wanted, disturbed>>
    BY <1>9 DEF WriteFile
  <2> HIDE DEF v
  <2>4. /\ vault' \in [Vaulters -> Doings \cup {AtRest}]
        /\ \A u \in Vaulters : vault'[u] = IF u = t THEN v ELSE vault[u]
    BY <1>1, <2>2, <2>3
  <2>5. VaultTypes' /\ KeysAreReal' /\ RowsAreWanted'
    BY <1>1, <1>2, <1>3, <2>2, <2>3, <2>4 DEF VaultTypes, KeysAreReal, RowsAreWanted
  <2>6. EnvironmentRules'
    <3>1. ~EnvKey
      BY <1>3, <2>1 DEF EnvironmentRules
    <3> QED BY <3>1 DEF EnvironmentRules
  <2>7. FileRules'
    <3> SUFFICES ASSUME ~EnvKey, ~disturbed
                 PROVE  /\ \A u \in Vaulters : /\ vault'[u].at = "use" => vault'[u].key = secretFile'
                                               /\ vault'[u].at = "create" => secretFile' = 0
                                               /\ vault'[u].at \in {"create", "write"} =>
                                                    /\ \A w \in Vaulters : vault'[w].at # "use"
                                                    /\ \A s \in Slots : tokens[s].under = 0
                        /\ \A u, w \in Creating' : u = w
                        /\ \A s \in Slots : tokens[s].under \in {0, secretFile'}
      BY <2>3 DEF FileRules
    <3>1. /\ \A u \in Vaulters : vault[u].at # "use"
          /\ \A s \in Slots : tokens[s].under = 0
          /\ \A u, w \in Creating : u = w
      BY <1>3, <2>1 DEF FileRules
    <3>2. Creating' = Creating
      BY <2>1, <2>2, <2>4 DEF Creating
    <3>3. \A u \in Vaulters : vault[u].at \in {"create", "write"} => u = t
      BY <2>1, <3>1 DEF Creating
    <3> QED BY <2>2, <2>4, <3>1, <3>2, <3>3
  <2> QED BY <2>5, <2>6, <2>7 DEF SecretsInvariant
<1>10. ASSUME NEW t \in Vaulters, RereadFile(t)
       PROVE  SecretsInvariant'
  <2> DEFINE v == [vault[t] EXCEPT !.at = "use", !.key = secretFile]
  <2>1. vault[t].at = "reread" /\ vault[t] # AtRest
    BY <1>5, <1>10 DEF RereadFile
  <2>2. v \in Doings /\ v.at = "use" /\ v.key = secretFile /\ secretFile \in 1..drawn
    <3>1. "use" \in KeySteps /\ secretFile \in Nat /\ secretFile \in 1..drawn
      BY <1>1, <1>2, <2>1 DEF KeySteps
    <3>2. vault[t] \in Doings
      BY <1>4, <2>1
    <3> QED BY <3>1, <3>2 DEF Doings
  <2>3. /\ vault' = [vault EXCEPT ![t] = v]
        /\ UNCHANGED <<secretFile, drawn, tokens, wanted, disturbed>>
    BY <1>10 DEF RereadFile
  <2> HIDE DEF v
  <2>4. /\ vault' \in [Vaulters -> Doings \cup {AtRest}]
        /\ \A u \in Vaulters : vault'[u] = IF u = t THEN v ELSE vault[u]
    BY <1>1, <2>2, <2>3
  <2>5. VaultTypes' /\ KeysAreReal' /\ RowsAreWanted'
    BY <1>1, <1>2, <1>3, <2>2, <2>3, <2>4 DEF VaultTypes, KeysAreReal, RowsAreWanted
  <2>6. EnvironmentRules'
    <3>1. ~EnvKey
      BY <1>3, <2>1 DEF EnvironmentRules
    <3> QED BY <3>1 DEF EnvironmentRules
  <2>7. FileRules'
    <3> SUFFICES ASSUME ~EnvKey, ~disturbed
                 PROVE  /\ \A u \in Vaulters : /\ vault'[u].at = "use" => vault'[u].key = secretFile
                                               /\ vault'[u].at = "create" => secretFile = 0
                                               /\ vault'[u].at \in {"create", "write"} =>
                                                    /\ \A w \in Vaulters : vault'[w].at # "use"
                                                    /\ \A s \in Slots : tokens[s].under = 0
                        /\ \A u, w \in Creating' : u = w
                        /\ \A s \in Slots : tokens[s].under \in {0, secretFile}
      BY <2>3 DEF FileRules
    <3>1. /\ \A u \in Vaulters : vault[u].at = "use" => vault[u].key = secretFile
          /\ \A s \in Slots : tokens[s].under \in {0, secretFile}
          /\ \A u, w \in Creating : u = w
      BY <1>3 DEF FileRules
    <3>2. \A u \in Vaulters : vault[u].at \in {"create", "write", "reread"} => u = t
      BY <2>1, <3>1 DEF Creating
    <3>3. \A u \in Vaulters : vault'[u].at \notin {"create", "write", "reread"}
      BY <2>2, <2>4, <3>2
    <3>4. Creating' = {}
      BY <3>3 DEF Creating
    <3> QED BY <2>2, <2>4, <3>1, <3>3, <3>4
  <2> QED BY <2>5, <2>6, <2>7 DEF SecretsInvariant
<1>11. ASSUME NEW t \in Vaulters, StoreSecret(t)
       PROVE  SecretsInvariant'
  <2> DEFINE s == vault[t].slot
             row == [under |-> vault[t].key, text |-> vault[t].text]
  <2>1. vault[t].at = "use" /\ s \in Slots /\ vault[t].key \in 1..drawn
    BY <1>2, <1>4, <1>5, <1>11 DEF StoreSecret
  <2>2. /\ vault' = [vault EXCEPT ![t] = AtRest]
        /\ tokens' = [tokens EXCEPT ![s] = row] /\ wanted' = [wanted EXCEPT ![s] = vault[t].text]
        /\ UNCHANGED <<secretFile, drawn, disturbed>>
    BY <1>11 DEF StoreSecret
  <2>3. /\ vault' \in [Vaulters -> Doings \cup {AtRest}]
        /\ \A u \in Vaulters : vault'[u] = IF u = t THEN AtRest ELSE vault[u]
    BY <1>1, <2>2
  <2>4. /\ DOMAIN tokens' = Slots /\ DOMAIN wanted' = Slots
        /\ \A x \in Slots : /\ tokens'[x] = IF x = s THEN row ELSE tokens[x]
                            /\ wanted'[x] = IF x = s THEN vault[t].text ELSE wanted[x]
    BY <1>1, <2>1, <2>2
  <2>5. row.under = vault[t].key /\ row.text = vault[t].text /\ row = [under |-> row.under, text |-> row.text]
    OBVIOUS
  <2> HIDE DEF row, s
  <2>6. VaultTypes'
    BY <1>1, <2>1, <2>2, <2>3, <2>4, <2>5 DEF VaultTypes
  <2>7. KeysAreReal' /\ RowsAreWanted'
    BY <1>1, <1>2, <1>3, <1>5, <2>1, <2>2, <2>3, <2>4, <2>5 DEF KeysAreReal, RowsAreWanted
  <2>8. EnvironmentRules'
    BY <1>3, <1>5, <2>1, <2>2, <2>3, <2>4, <2>5 DEF EnvironmentRules
  <2>9. FileRules'
    BY <1>3, <1>5, <2>1, <2>2, <2>3, <2>4, <2>5 DEF FileRules, Creating
  <2> QED BY <2>6, <2>7, <2>8, <2>9 DEF SecretsInvariant
<1>12. ASSUME NEW t \in Vaulters, NEW s \in Slots, ClearSecret(t, s)
       PROVE  SecretsInvariant'
  <2>1. /\ tokens' = [tokens EXCEPT ![s] = NoToken] /\ wanted' = [wanted EXCEPT ![s] = NoPlain]
        /\ UNCHANGED <<secretFile, drawn, vault, disturbed>>
    BY <1>12 DEF ClearSecret
  <2>2. /\ DOMAIN tokens' = Slots /\ DOMAIN wanted' = Slots
        /\ \A x \in Slots : /\ tokens'[x] = IF x = s THEN NoToken ELSE tokens[x]
                            /\ wanted'[x] = IF x = s THEN NoPlain ELSE wanted[x]
    BY <1>1, <2>1
  <2>3. NoToken.under = 0 /\ NoToken.text = NoPlain /\ NoToken = [under |-> NoToken.under, text |-> NoToken.text]
    BY DEF NoToken
  <2>4. VaultTypes' /\ KeysAreReal' /\ RowsAreWanted'
    BY <1>1, <1>2, <1>3, <2>1, <2>2, <2>3 DEF VaultTypes, KeysAreReal, RowsAreWanted
  <2>5. EnvironmentRules' /\ FileRules'
    BY <1>3, <2>1, <2>2, <2>3 DEF EnvironmentRules, FileRules, Creating
  <2> QED BY <2>4, <2>5 DEF SecretsInvariant
<1>13. ASSUME NEW t \in Vaulters, NEW s \in Slots, NEW p \in Plaintexts, AskSecret(t, s, p)
       PROVE  SecretsInvariant'
  <2> DEFINE v == Doing(s, p, "key", NoKeyFile)
  <2>1. v \in Doings /\ v.at = "key"
    BY DEF Doing, Doings, KeySteps
  <2>2. /\ vault[t] = AtRest /\ vault' = [vault EXCEPT ![t] = v]
        /\ UNCHANGED <<secretFile, drawn, tokens, wanted, disturbed>>
    BY <1>13 DEF AskSecret
  <2> HIDE DEF v
  <2>3. /\ vault' \in [Vaulters -> Doings \cup {AtRest}]
        /\ \A u \in Vaulters : vault'[u] = IF u = t THEN v ELSE vault[u]
    BY <1>1, <2>1, <2>2
  <2>4. VaultTypes' /\ KeysAreReal' /\ RowsAreWanted'
    BY <1>1, <1>2, <1>3, <2>1, <2>2, <2>3 DEF VaultTypes, KeysAreReal, RowsAreWanted
  <2>5. EnvironmentRules' /\ FileRules'
    BY <1>3, <1>5, <2>1, <2>2, <2>3 DEF EnvironmentRules, FileRules, Creating
  <2> QED BY <2>4, <2>5 DEF SecretsInvariant
<1>14. CASE UNCHANGED secretVars
  <2>1. VaultTypes' /\ KeysAreReal' /\ RowsAreWanted'
    BY <1>1, <1>2, <1>3, <1>14 DEF secretVars, VaultTypes, KeysAreReal, RowsAreWanted
  <2>2. EnvironmentRules' /\ FileRules'
    BY <1>3, <1>14 DEF secretVars, EnvironmentRules, FileRules, Creating
  <2> QED BY <2>1, <2>2 DEF SecretsInvariant
<1> QED BY <1>6, <1>7, <1>8, <1>9, <1>10, <1>11, <1>12, <1>13, <1>14 DEF SecretsNext

LEMMA SecretsReadBack ==
  ASSUME SecretsInvariant
  PROVE  SecretsTypeOK /\ CredentialsReadBack
<1>1. SecretsTypeOK
  BY DEF SecretsInvariant, VaultTypes, KeysAreReal, SecretsTypeOK, NoKeyFile
<1>2. ASSUME ~disturbed, NEW s \in Slots
      PROVE  GetSecret(s) = wanted[s]
  <2>1. tokens[s].under \in {NoKeyFile, MasterKey}
    BY <1>2, CredentialsAssumption DEF SecretsInvariant, EnvironmentRules, FileRules, MasterKey
  <2>2. tokens[s].under = NoKeyFile => tokens[s].text = NoPlain
    BY DEF SecretsInvariant, KeysAreReal
  <2>3. tokens[s].text = wanted[s]
    BY DEF SecretsInvariant, RowsAreWanted
  <2> QED BY <2>1, <2>2, <2>3 DEF GetSecret, Decrypt
<1> QED BY <1>1, <1>2 DEF CredentialsReadBack

-----------------------------------------------------------------------------
(* Conversations: what is stored is what was said, however captures of one   *)
(* conversation overlap and whichever of them fail.                          *)

(* a is what p begins with.                                                  *)
Begins(a, p) == Len(a) <= Len(p) /\ \A i \in 1..Len(a) : a[i] = p[i]

LEMMA BeginsIsPrefix ==
  ASSUME NEW S, NEW a \in Seq(S), NEW p \in Seq(S)
  PROVE  IsPrefix(a, p) <=> Begins(a, p)
<1>1. Len(a) \in Nat /\ Len(p) \in Nat
  OBVIOUS
<1>2. ASSUME Len(a) <= Len(p)
      PROVE  SubSeq(a, 1, Len(a)) = SubSeq(p, 1, Len(a)) <=> \A i \in 1..Len(a) : a[i] = p[i]
  <2> DEFINE u == SubSeq(a, 1, Len(a))  v == SubSeq(p, 1, Len(a))
  <2>1. \A i \in 1..Len(a) : a[i] \in S /\ p[i] \in S
    BY <1>1, <1>2
  <2>2. /\ u \in Seq(S) /\ Len(u) = Len(a) /\ \A i \in 1..Len(a) : u[i] = a[i]
        /\ v \in Seq(S) /\ Len(v) = Len(a) /\ \A i \in 1..Len(a) : v[i] = p[i]
    BY <1>1, <2>1, SubSeqProperties
  <2> HIDE DEF u, v
  <2>3. u = v <=> \A i \in 1..Len(a) : u[i] = v[i]
    BY <2>2, SeqEqual
  <2> QED BY <2>2, <2>3 DEF u, v
<1> QED BY <1>2 DEF IsPrefix, Begins

(* How many messages of a history are stored already (append_messages): no   *)
(* more than either has, and all of the shorter when they agree.             *)
LEMMA MatchedBounds ==
  ASSUME NEW S, NEW a \in Seq(S), NEW b \in Seq(S)
  PROVE  /\ Matched(a, b) \in Nat /\ Matched(a, b) <= Len(a) /\ Matched(a, b) <= Len(b)
         /\ Begins(a, b) => Matched(a, b) = Len(a)
         /\ Begins(b, a) => Matched(a, b) = Len(b)
<1> DEFINE C == CommonPrefixes({a, b})
           L == {Len(p) + 1 : p \in C}
           best == LongestCommonPrefix({a, b})
<1>1. Len(a) \in Nat /\ Len(b) \in Nat
  OBVIOUS
<1>2. ASSUME NEW x \in {a, b}, NEW l \in 0..Len(x)
      PROVE  SubSeq(x, 1, l) \in Seq(S) /\ Len(SubSeq(x, 1, l)) = l
  <2>1. x \in Seq(S) /\ \A i \in 1..l : x[i] \in S
    OBVIOUS
  <2> QED BY <2>1, SubSeqProperties
<1>3. ASSUME NEW p \in C
      PROVE  p \in Seq(S) /\ IsPrefix(p, a) /\ IsPrefix(p, b)
  <2>1. \E x \in {a, b} : p \in Prefixes(x)
    BY DEF CommonPrefixes
  <2>2. IsPrefix(p, a) /\ IsPrefix(p, b)
    BY DEF CommonPrefixes
  <2>3. PICK x \in {a, b} : \E l \in 0..Len(x) : p = SubSeq(x, 1, l)
    BY <2>1 DEF Prefixes
  <2> QED BY <1>2, <2>2, <2>3
<1>4. \A p \in C : Len(p) \in Nat /\ Len(p) <= Len(a) /\ Len(p) <= Len(b)
  BY <1>3 DEF IsPrefix
<1>5. ASSUME NEW x \in {a, b}, IsPrefix(x, a), IsPrefix(x, b)
      PROVE  x \in C
  <2>1. x = SubSeq(x, 1, Len(x)) /\ Len(x) \in 0..Len(x)
    BY <1>1
  <2>2. x \in Prefixes(x)
    BY <2>1 DEF Prefixes
  <2> QED BY <1>5, <2>2 DEF CommonPrefixes
<1>6. <<>> \in C
  <2>1. <<>> = SubSeq(a, 1, 0) /\ 0 \in 0..Len(a)
    BY <1>1
  <2>2. <<>> \in Prefixes(a)
    BY <2>1 DEF Prefixes
  <2>3. <<>> \in Seq(S) /\ Len(<<>>) = 0
    OBVIOUS
  <2>4. Begins(<<>>, a) /\ Begins(<<>>, b)
    BY <1>1, <2>3 DEF Begins
  <2>5. IsPrefix(<<>>, a) /\ IsPrefix(<<>>, b)
    BY <2>3, <2>4, BeginsIsPrefix
  <2> QED BY <2>2, <2>5 DEF CommonPrefixes
<1> HIDE DEF C
<1>7. Len(a) + 1 \in Nat /\ L \subseteq 1..(Len(a) + 1) /\ L # {}
  <2>1. \A p \in C : Len(p) + 1 \in 1..(Len(a) + 1)
    BY <1>1, <1>4
  <2> QED BY <1>1, <1>6, <2>1
<1>8. \E x \in L : \A k \in L : k <= x
  BY <1>7, BoundsAreReached
<1>9. PICK p \in C : \A k \in L : k <= Len(p) + 1
  BY <1>8
<1>10. \A other \in C : Len(other) <= Len(p)
  <2>1. ASSUME NEW other \in C
        PROVE  Len(other) <= Len(p)
    <3>1. Len(other) + 1 \in L
      OBVIOUS
    <3>2. Len(other) + 1 <= Len(p) + 1
      BY <1>9, <3>1
    <3> QED BY <1>4, <3>2
  <2> QED BY <2>1
<1>11. best \in C /\ \A other \in C : Len(other) <= Len(best)
  BY <1>9, <1>10 DEF LongestCommonPrefix, C
<1>12. Matched(a, b) = Len(best)
  BY DEF Matched
<1>13. IsPrefix(a, a) /\ IsPrefix(b, b)
  BY BeginsIsPrefix DEF Begins
<1>14. Begins(a, b) => Len(a) <= Len(best)
  BY <1>5, <1>11, <1>13, BeginsIsPrefix
<1>15. Begins(b, a) => Len(b) <= Len(best)
  BY <1>5, <1>11, <1>13, BeginsIsPrefix
<1> HIDE DEF best, C
<1> QED BY <1>1, <1>4, <1>11, <1>12, <1>14, <1>15

(* Writing rows from a position on (INSERT OR REPLACE by seq).               *)
LEMMA Replacement ==
  ASSUME NEW S, NEW s \in Seq(S), NEW f \in Seq(S), NEW n \in 0..Len(s)
  PROVE  /\ Replaced(s, n, f) \in Seq(S)
         /\ Len(Replaced(s, n, f)) = IF n + Len(f) >= Len(s) THEN n + Len(f) ELSE Len(s)
         /\ \A i \in 1..Len(Replaced(s, n, f)) :
              Replaced(s, n, f)[i] = IF i > n /\ i <= n + Len(f) THEN f[i - n] ELSE s[i]
<1> DEFINE u == SubSeq(s, 1, n)
           w == SubSeq(s, n + Len(f) + 1, Len(s))
           uf == u \o f
<1>1. Len(s) \in Nat /\ Len(f) \in Nat /\ n \in Nat /\ n <= Len(s)
  OBVIOUS
<1>2. u \in Seq(S) /\ Len(u) = n /\ \A i \in 1..n : u[i] = s[i]
  <2>1. \A i \in 1..n : s[i] \in S
    BY <1>1
  <2> QED BY <1>1, <2>1, SubSeqProperties
<1>3. /\ w \in Seq(S) /\ Len(w) = IF n + Len(f) + 1 <= Len(s) THEN Len(s) - (n + Len(f)) ELSE 0
      /\ \A i \in 1..Len(w) : w[i] = s[n + Len(f) + i]
  <2>1. \A i \in (n + Len(f) + 1)..Len(s) : s[i] \in S
    BY <1>1
  <2>2. /\ w \in Seq(S) /\ Len(w) = IF n + Len(f) + 1 <= Len(s) THEN Len(s) - (n + Len(f) + 1) + 1 ELSE 0
        /\ \A i \in 1..(Len(s) - (n + Len(f) + 1) + 1) : w[i] = s[n + Len(f) + 1 + i - 1]
    BY <1>1, <2>1, SubSeqProperties
  <2> HIDE DEF w
  <2>3. \A i \in 1..Len(w) : n + Len(f) + 1 + i - 1 = n + Len(f) + i
    BY <1>1, <2>2
  <2> QED BY <1>1, <2>2, <2>3
<1> HIDE DEF u, w
<1>4. /\ uf \in Seq(S) /\ Len(uf) = n + Len(f)
      /\ \A i \in 1..Len(uf) : uf[i] = IF i <= n THEN u[i] ELSE f[i - n]
  <2>1. u \in Seq(S) /\ f \in Seq(S)
    BY <1>2
  <2>2. /\ uf \in Seq(S) /\ Len(uf) = Len(u) + Len(f)
        /\ \A i \in 1..(Len(u) + Len(f)) : uf[i] = IF i <= Len(u) THEN u[i] ELSE f[i - Len(u)]
    BY ONLY <2>1, ConcatProperties
  <2> QED BY <1>2, <2>2
<1> HIDE DEF uf
<1>5. /\ uf \o w \in Seq(S) /\ Len(uf \o w) = Len(uf) + Len(w)
      /\ \A i \in 1..(Len(uf) + Len(w)) : (uf \o w)[i] = IF i <= Len(uf) THEN uf[i] ELSE w[i - Len(uf)]
  BY <1>3, <1>4, ConcatProperties
<1>6. Replaced(s, n, f) = uf \o w
  BY DEF Replaced, uf, u, w
<1> DEFINE r == Replaced(s, n, f)
<1>7. Len(r) = IF n + Len(f) >= Len(s) THEN n + Len(f) ELSE Len(s)
  <2>1. Len(r) = n + Len(f) + Len(w)
    BY <1>4, <1>5, <1>6
  <2>2. Len(w) = IF n + Len(f) + 1 <= Len(s) THEN Len(s) - (n + Len(f)) ELSE 0
    BY <1>3
  <2> HIDE DEF r
  <2>3. CASE n + Len(f) + 1 <= Len(s)
    BY <1>1, <2>1, <2>2, <2>3
  <2>4. CASE ~(n + Len(f) + 1 <= Len(s))
    BY <1>1, <2>1, <2>2, <2>4
  <2> QED BY <2>3, <2>4
<1>8. ASSUME NEW i \in 1..Len(r)
      PROVE  r[i] = IF i > n /\ i <= n + Len(f) THEN f[i - n] ELSE s[i]
  <2>1. r[i] = IF i <= Len(uf) THEN uf[i] ELSE w[i - Len(uf)]
    BY <1>5, <1>6, <1>8
  <2>2. CASE i <= n + Len(f)
    BY <2>1, <2>2, <1>1, <1>2, <1>4
  <2>3. CASE i > n + Len(f)
    <3>1. Len(r) = Len(uf) + Len(w) /\ Len(w) \in Nat
      BY <1>3, <1>5, <1>6
    <3>2. i - Len(uf) \in 1..Len(w) /\ n + Len(f) + (i - Len(uf)) = i
      BY <2>3, <3>1, <1>1, <1>4, <1>8
    <3> QED BY <3>2, <2>1, <2>3, <1>1, <1>3, <1>4
  <2> QED BY <2>2, <2>3, <1>1
<1> QED BY <1>5, <1>6, <1>7, <1>8

(* A client's history grows at its end.                                      *)
LEMMA Appending ==
  ASSUME NEW S, NEW s \in Seq(S), NEW x \in S
  PROVE  /\ Append(s, x) \in Seq(S) /\ Len(Append(s, x)) = Len(s) + 1
         /\ DOMAIN Append(s, x) = 1..(Len(s) + 1) /\ DOMAIN s = 1..Len(s) /\ Len(s) \in Nat
         /\ \A i \in 1..Len(s) : Append(s, x)[i] = s[i]
         /\ Append(s, x)[Len(s) + 1] = x
OBVIOUS

StoredRows == [text : Texts, cut : BOOLEAN]
CallRows == [conv : Talks \cup {NoTalk}, model : TalkModels, when : Nat, of : Talks]
RouteRows == [conv : Talks \cup {NoTalk}, when : Nat, of : Talks]
ListRows == [messages : Nat, model : TalkModels, first : Nat, last : Nat, calls : Nat]
AtCall == [at : {"call"}, conv : Talks, says : Seq(Texts)]
AtRead == [at : {"read"}, conv : Talks, model : TalkModels, says : Seq(Texts)]
AtWrite == [at : {"write"}, conv : Talks, model : TalkModels, from : Nat, fresh : Seq(StoredRows)]
AtRollup == [at : {"rollup"}, conv : Talks, model : TalkModels]
AtCount == [at : {"count"}, conv : Talks]
AtRecount == [at : {"recount"}, conv : Talks, count : Nat]
Places == {Resting} \cup AtCall \cup AtRead \cup AtWrite \cup AtRollup \cup AtCount \cup AtRecount

(* Well-formed tables and threads, and one thread for each request.          *)
TalkTypes ==
  /\ history \in [Talks -> Seq(Texts)] /\ transcript \in [Talks -> Seq(StoredRows)]
  /\ reqRows \in Seq(CallRows) /\ routeRows \in Seq(RouteRows)
  /\ talks \in [Talks -> ListRows \cup {NoRow}]
  /\ serving \in [Servers -> Places]
  /\ hour \in Nat /\ asksLeft \in 0..MaxAsks /\ captureFaultsLeft \in 0..MaxCaptureFaults
  /\ \A t \in Servers : t > MaxAsks - asksLeft => serving[t] = Resting

(* What a capture has in hand is the history's, at its place.                *)
Fits(s, h) ==
  /\ s.at = "read" => Begins(s.says, h)
  /\ s.at = "write" => /\ s.from + Len(s.fresh) <= Len(h)
                       /\ \A i \in 1..Len(s.fresh) : s.fresh[i] = Prepared(h)[s.from + i]

Capturing(t, c) == serving[t].at \in {"read", "write"} /\ serving[t].conv = c

(* One call of a conversation at a time, and it carries the whole history.   *)
CallersSayAll ==
  \A t \in Servers : serving[t].at = "call" =>
    /\ serving[t].says = history[serving[t].conv]
    /\ \A u \in Servers : serving[u].at = "call" /\ serving[u].conv = serving[t].conv => u = t

CapturesFit ==
  /\ \A t \in Servers : serving[t].at = "write" => serving[t].from <= Len(transcript[serving[t].conv])
  /\ \A c \in Talks \ diverged :
       /\ Begins(transcript[c], Prepared(history[c]))
       /\ \A t \in Servers : Capturing(t, c) => Fits(serving[t], history[c])

(* Until a capture has failed, what is not stored is carried by a thread.    *)
CarriesAll(s, c, h) ==
  /\ s.at \in {"call", "read", "write"} /\ s.conv = c
  /\ s.at = "read" => Len(s.says) = Len(h)
  /\ s.at = "write" => s.from + Len(s.fresh) = Len(h)

NothingIsDropped ==
  captureFaultsLeft = MaxCaptureFaults =>
    \A c \in Talks \ diverged :
      Len(transcript[c]) = Len(history[c]) \/ \E t \in Servers : CarriesAll(serving[t], c, history[c])

(* Of a conversation whose last counting was alone, one thread at most has a *)
(* count in hand; and unless a count is still to be taken, that is the       *)
(* number of messages, or the one in the list is.                            *)
CountIsDue(t, c) == serving[t].at \in {"rollup", "count"} /\ serving[t].conv = c
Carries(t, c) == serving[t].at = "recount" /\ serving[t].conv = c
Exact(c) == talks[c].messages = Len(transcript[c]) \/ (talks[c] = NoRow /\ transcript[c] = <<>>)
CountComes(c) ==
  /\ \A t, u \in Servers : Carries(t, c) /\ Carries(u, c) => t = u
  /\ \/ \E t \in Servers : CountIsDue(t, c)
     \/ \E t \in Servers : Carries(t, c) /\ serving[t].count = Len(transcript[c])
     \/ Exact(c) /\ \A t \in Servers : ~Carries(t, c)
CountsAreUnderWay ==
  /\ \A t \in Servers : serving[t].at \in {"count", "recount"} => talks[serving[t].conv] # NoRow
  /\ \A c \in Talks \ (lapsed \cup overlapped) : CountComes(c)

WindowsAreOpen == \A c \in Talks : talks[c] # NoRow => talks[c].first <= talks[c].last

TalkInvariant ==
  /\ TalkTypes /\ WindowsAreOpen
  /\ CallersSayAll /\ CapturesFit /\ NothingIsDropped /\ CountsAreUnderWay
  /\ CallsAreItsOwn /\ StampsHaveACause

LEMMA PreparedRows ==
  ASSUME NEW h \in Seq(Texts)
  PROVE  /\ Prepared(h) \in Seq(StoredRows) /\ Len(Prepared(h)) = Len(h) /\ Len(h) \in Nat
         /\ \A i \in 1..Len(h) : Prepared(h)[i] = Row(h[i])
<1>1. \A x \in Texts : Row(x) \in StoredRows
  BY TalkAssumption DEF Row, StoredRows
<1>2. DOMAIN h = 1..Len(h) /\ Len(h) \in Nat /\ \A i \in 1..Len(h) : h[i] \in Texts
  OBVIOUS
<1>3. Prepared(h) \in [1..Len(h) -> StoredRows]
  BY <1>1, <1>2 DEF Prepared
<1> QED BY <1>2, <1>3 DEF Prepared

LEMMA PreparedBegins ==
  ASSUME NEW a \in Seq(Texts), NEW h \in Seq(Texts), Begins(a, h)
  PROVE  Begins(Prepared(a), Prepared(h))
BY PreparedRows DEF Begins

(* What fits a history fits it when it has grown.                            *)
LEMMA FitsGrown ==
  ASSUME NEW h \in Seq(Texts), NEW x \in Texts
  PROVE  /\ \A r \in Seq(StoredRows) : Begins(r, Prepared(h)) => Begins(r, Prepared(Append(h, x)))
         /\ \A s \in Places : Fits(s, h) => Fits(s, Append(h, x))
<1>1. /\ Append(h, x) \in Seq(Texts) /\ Len(Append(h, x)) = Len(h) + 1 /\ Len(h) \in Nat
      /\ \A i \in 1..Len(h) : Append(h, x)[i] = h[i]
  BY Appending
<1> DEFINE g == Append(h, x)
<1> HIDE DEF g
<1>2. \A i \in 1..Len(h) : Prepared(g)[i] = Prepared(h)[i]
  <2>1. /\ \A i \in 1..Len(g) : Prepared(g)[i] = Row(g[i])
        /\ \A i \in 1..Len(h) : Prepared(h)[i] = Row(h[i])
    BY <1>1, PreparedRows DEF g
  <2>2. ASSUME NEW i \in 1..Len(h)
        PROVE  i \in 1..Len(g) /\ g[i] = h[i]
    BY <1>1 DEF g
  <2> QED BY <2>1, <2>2
<1>3. Len(Prepared(g)) = Len(h) + 1 /\ Len(Prepared(h)) = Len(h) /\ Len(g) = Len(h) + 1
  BY <1>1, PreparedRows DEF g
<1>4. ASSUME NEW r \in Seq(StoredRows), Begins(r, Prepared(h))
      PROVE  Begins(r, Prepared(g))
  BY <1>1, <1>2, <1>3, <1>4 DEF Begins
<1>5. ASSUME NEW s \in Places, Fits(s, h)
      PROVE  Fits(s, g)
  <2>1. ASSUME s.at = "read"
        PROVE  Begins(s.says, g)
    <3>1. s.says \in Seq(Texts) /\ Begins(s.says, h)
      BY <1>5, <2>1 DEF Fits, Places, Resting, AtCall, AtRead, AtWrite, AtRollup, AtCount, AtRecount
    <3> QED BY <3>1, <1>1 DEF Begins, g
  <2>2. ASSUME s.at = "write"
        PROVE  /\ s.from + Len(s.fresh) <= Len(g)
               /\ \A i \in 1..Len(s.fresh) : s.fresh[i] = Prepared(g)[s.from + i]
    <3>1. /\ s.from \in Nat /\ s.fresh \in Seq(StoredRows) /\ s.from + Len(s.fresh) <= Len(h)
          /\ \A i \in 1..Len(s.fresh) : s.fresh[i] = Prepared(h)[s.from + i]
      BY <1>5, <2>2 DEF Fits, Places, Resting, AtCall, AtRead, AtWrite, AtRollup, AtCount, AtRecount
    <3>2. Len(s.fresh) \in Nat /\ \A i \in 1..Len(s.fresh) : s.from + i \in 1..Len(h)
      BY <3>1, <1>1
    <3>3. s.from + Len(s.fresh) <= Len(g)
      BY <3>1, <3>2, <1>1, <1>3
    <3>4. \A i \in 1..Len(s.fresh) : s.fresh[i] = Prepared(g)[s.from + i]
      BY <3>1, <3>2, <1>2
    <3> QED BY <3>3, <3>4
  <2> QED BY <2>1, <2>2 DEF Fits
<1> QED BY <1>4, <1>5 DEF g

(* What a capture finds new is what follows what is stored.                  *)
NewRows(stored, says) ==
  SubSeq(Prepared(says), Matched(stored, Prepared(says)) + 1, Len(Prepared(says)))

Follows(fresh, stored, says, h) ==
  /\ fresh # <<>> => /\ Len(stored) + Len(fresh) = Len(says) /\ Len(says) <= Len(h)
                     /\ \A i \in 1..Len(fresh) : fresh[i] = Prepared(h)[Len(stored) + i]
  /\ fresh = <<>> => Len(says) <= Len(stored)

LEMMA FreshFits ==
  ASSUME NEW h \in Seq(Texts), NEW says \in Seq(Texts), NEW stored \in Seq(StoredRows)
  PROVE  /\ NewRows(stored, says) \in Seq(StoredRows)
         /\ Begins(says, h) /\ Begins(stored, Prepared(h)) => Follows(NewRows(stored, says), stored, says, h)
<1>0. PICK fresh : fresh = NewRows(stored, says)
  OBVIOUS
<1>1. PICK p : p = Prepared(says)
  OBVIOUS
<1>2. PICK q : q = Prepared(h)
  OBVIOUS
<1>3. PICK m : m = Matched(stored, p)
  OBVIOUS
<1>4. /\ p \in Seq(StoredRows) /\ Len(p) = Len(says) /\ Len(says) \in Nat
      /\ q \in Seq(StoredRows) /\ Len(q) = Len(h) /\ Len(h) \in Nat /\ Len(stored) \in Nat
  BY <1>1, <1>2, PreparedRows
<1>5. /\ m \in Nat /\ m <= Len(stored) /\ m <= Len(p)
      /\ Begins(stored, p) => m = Len(stored)
      /\ Begins(p, stored) => m = Len(p)
  BY ONLY <1>3, <1>4, MatchedBounds, stored \in Seq(StoredRows)
<1>6. fresh = SubSeq(p, m + 1, Len(p))
  BY <1>0, <1>1, <1>3 DEF NewRows
<1>7. /\ fresh \in Seq(StoredRows) /\ Len(fresh) = IF m + 1 <= Len(p) THEN Len(p) - (m + 1) + 1 ELSE 0
      /\ \A i \in 1..(Len(p) - (m + 1) + 1) : fresh[i] = p[m + 1 + i - 1]
  <2>1. \A i \in (m + 1)..Len(p) : p[i] \in StoredRows
    BY ONLY <1>4, <1>5
  <2>2. m + 1 \in Int /\ Len(p) \in Int
    BY ONLY <1>4, <1>5
  <2> QED BY ONLY <2>1, <2>2, <1>6, SubSeqProperties
<1>8. Len(fresh) = Len(p) - m /\ Len(fresh) \in Nat
  BY ONLY <1>4, <1>5, <1>7
<1>9. \A i \in 1..Len(fresh) : fresh[i] = p[m + i]
  <2>1. \A i \in 1..Len(fresh) : m + 1 + i - 1 = m + i /\ i \in 1..(Len(p) - (m + 1) + 1)
    BY ONLY <1>4, <1>5, <1>8
  <2> QED BY ONLY <1>7, <2>1
<1>10. ASSUME Begins(says, h), Begins(stored, q)
       PROVE  /\ fresh # <<>> => /\ Len(stored) + Len(fresh) = Len(p) /\ Len(says) <= Len(h)
                                 /\ \A i \in 1..Len(fresh) : fresh[i] = q[Len(stored) + i]
              /\ fresh = <<>> => Len(p) <= Len(stored)
  <2>1. Begins(p, q)
    BY <1>1, <1>2, <1>10, PreparedBegins
  <2>2. Len(says) <= Len(h)
    BY <1>10 DEF Begins
  <2>3. /\ fresh # <<>> => /\ Len(stored) + Len(fresh) = Len(p)
                           /\ \A i \in 1..Len(fresh) : fresh[i] = q[Len(stored) + i]
        /\ fresh = <<>> => Len(p) <= Len(stored)
    <3>1. /\ fresh \in Seq(StoredRows) /\ Begins(stored, q)
          /\ Len(p) \in Nat /\ Len(stored) \in Nat /\ Len(fresh) \in Nat /\ m \in Nat
      BY <1>4, <1>5, <1>7, <1>8, <1>10
    <3>2. fresh = <<>> <=> m = Len(p)
      <4>1. fresh = <<>> <=> Len(fresh) = 0
        BY ONLY <3>1
      <4> QED BY ONLY <4>1, <3>1, <1>8
    <3>3. CASE Len(stored) <= Len(p)
      <4>1. Begins(stored, p)
        BY ONLY <3>1, <3>3, <2>1 DEF Begins
      <4>2. m = Len(stored)
        BY ONLY <4>1, <1>5
      <4>3. ASSUME NEW i \in 1..Len(fresh)
            PROVE  fresh[i] = q[Len(stored) + i]
        <5>1. m + i \in 1..Len(p)
          BY ONLY <3>1, <1>8, <4>3
        <5>2. p[m + i] = q[m + i]
          BY ONLY <5>1, <2>1 DEF Begins
        <5> QED BY ONLY <5>2, <4>2, <1>9, <4>3
      <4>4. Len(stored) + Len(fresh) = Len(p)
        BY ONLY <3>1, <1>8, <4>2
      <4> QED BY ONLY <3>1, <3>2, <4>2, <4>3, <4>4
    <3>4. CASE Len(p) <= Len(stored)
      <4>1. Begins(p, stored)
        <5>1. /\ \A i \in 1..Len(p) : p[i] = q[i]
              /\ \A i \in 1..Len(stored) : stored[i] = q[i]
          BY ONLY <3>1, <2>1 DEF Begins
        <5>2. \A i \in 1..Len(p) : i \in 1..Len(stored)
          BY ONLY <3>1, <3>4
        <5> QED BY ONLY <5>1, <5>2, <3>4 DEF Begins
      <4> QED BY ONLY <4>1, <3>1, <3>2, <3>4, <1>5
    <3> QED BY ONLY <3>1, <3>3, <3>4
  <2> QED BY <2>2, <2>3
<1>11. Begins(says, h) /\ Begins(stored, q) => Follows(fresh, stored, says, h)
  BY <1>2, <1>4, <1>10 DEF Follows
<1> QED BY <1>0, <1>2, <1>7, <1>11

(* What is written over a transcript of a history is of the history.         *)
LEMMA WrittenFits ==
  ASSUME NEW h \in Seq(Texts), NEW stored \in Seq(StoredRows), NEW f \in Seq(StoredRows), NEW n \in 0..Len(stored)
  PROVE  /\ Replaced(stored, n, f) \in Seq(StoredRows)
         /\ Len(stored) <= Len(Replaced(stored, n, f)) /\ n + Len(f) <= Len(Replaced(stored, n, f))
         /\ Begins(stored, Prepared(h)) /\ n + Len(f) <= Len(h)
              /\ (\A i \in 1..Len(f) : f[i] = Prepared(h)[n + i])
            => Begins(Replaced(stored, n, f), Prepared(h))
<1> DEFINE r == Replaced(stored, n, f)
           q == Prepared(h)
<1>1. /\ r \in Seq(StoredRows)
      /\ Len(r) = IF n + Len(f) >= Len(stored) THEN n + Len(f) ELSE Len(stored)
      /\ \A i \in 1..Len(r) : r[i] = IF i > n /\ i <= n + Len(f) THEN f[i - n] ELSE stored[i]
  BY Replacement
<1>2. q \in Seq(StoredRows) /\ Len(q) = Len(h) /\ Len(h) \in Nat
  BY PreparedRows
<1>3. Len(stored) \in Nat /\ Len(f) \in Nat /\ n \in Nat /\ n <= Len(stored)
  OBVIOUS
<1> HIDE DEF r, q
<1>4. Len(stored) <= Len(r) /\ n + Len(f) <= Len(r)
  BY <1>1, <1>3
<1>5. ASSUME Begins(stored, q), n + Len(f) <= Len(h), \A i \in 1..Len(f) : f[i] = q[n + i]
      PROVE  Begins(r, q)
  <2>1. Len(r) <= Len(q)
    BY <1>1, <1>2, <1>3, <1>5 DEF Begins
  <2>2. ASSUME NEW i \in 1..Len(r)
        PROVE  r[i] = q[i]
    <3>1. CASE i > n /\ i <= n + Len(f)
      <4>1. i - n \in 1..Len(f) /\ n + (i - n) = i
        BY <1>3, <3>1
      <4> QED BY <1>1, <1>5, <3>1, <4>1
    <3>2. CASE ~(i > n /\ i <= n + Len(f))
      <4>1. i \in 1..Len(stored)
        BY <1>1, <1>3, <3>2
      <4> QED BY <1>1, <1>5, <3>2, <4>1 DEF Begins
    <3> QED BY <3>1, <3>2
  <2> QED BY <2>1, <2>2 DEF Begins
<1> QED BY <1>1, <1>4, <1>5 DEF r, q

LEMMA PlaceOf ==
  ASSUME NEW s \in Places
  PROVE  /\ s.at \in {"idle", "call", "read", "write", "rollup", "count", "recount"}
         /\ s.at = "idle" => s = Resting
         /\ s.at = "call" => s \in AtCall
         /\ s.at = "read" => s \in AtRead
         /\ s.at = "write" => s \in AtWrite
         /\ s.at = "rollup" => s \in AtRollup
         /\ s.at = "count" => s \in AtCount
         /\ s.at = "recount" => s \in AtRecount
         /\ s.at # "idle" => s.conv \in Talks
BY DEF Places, Resting, AtCall, AtRead, AtWrite, AtRollup, AtCount, AtRecount

LEMMA TalksStart == ConvInit => TalkInvariant
<1> SUFFICES ASSUME ConvInit PROVE TalkInvariant
  OBVIOUS
<1>1. \A t \in Servers : serving[t] = Resting /\ serving[t].at = "idle"
  BY DEF ConvInit, Resting
<1>2. \A c \in Talks : talks[c] = NoRow /\ transcript[c] = <<>> /\ history[c] = <<>>
  BY DEF ConvInit
<1>3. TalkTypes
  BY TalkAssumption DEF ConvInit, TalkTypes, Places
<1>4. WindowsAreOpen /\ CallersSayAll /\ CountsAreUnderWay
  BY <1>1, <1>2 DEF WindowsAreOpen, CallersSayAll, CountsAreUnderWay, CountComes, Carries, Exact
<1>5. CapturesFit
  <2>1. \A c \in Talks : Begins(transcript[c], Prepared(history[c]))
    <3>1. <<>> \in Seq(Texts) /\ Len(<<>>) = 0
      OBVIOUS
    <3>2. Len(Prepared(<<>>)) = 0
      BY <3>1, PreparedRows
    <3> QED BY <1>2, <3>1, <3>2 DEF Begins
  <2> QED BY <1>1, <2>1 DEF CapturesFit, Capturing
<1>6. NothingIsDropped
  BY <1>2 DEF NothingIsDropped
<1>7. CallsAreItsOwn /\ StampsHaveACause
  BY <1>2 DEF ConvInit, CallsAreItsOwn, StampsHaveACause
<1> QED BY <1>3, <1>4, <1>5, <1>6, <1>7 DEF TalkInvariant

(* A step that moves no thread past its write leaves the counts as they are. *)
LEMMA CountsRest ==
  ASSUME TalkInvariant, UNCHANGED <<talks, transcript, lapsed, overlapped>>,
         \A u \in Servers : serving[u].at \in {"rollup", "count", "recount"}
                              \/ serving'[u].at \in {"rollup", "count", "recount"} => serving'[u] = serving[u]
  PROVE  CountsAreUnderWay'
<1>1. \A u \in Servers : serving'[u].at \in {"count", "recount"} => talks'[serving'[u].conv] # NoRow
  BY DEF TalkInvariant, CountsAreUnderWay
<1>2. \A u \in Servers, c \in Talks : /\ CountIsDue(u, c)' <=> CountIsDue(u, c)
                                      /\ Carries(u, c)' <=> Carries(u, c)
                                      /\ Carries(u, c) => serving'[u].count = serving[u].count
  BY DEF CountIsDue, Carries
<1>3. \A c \in Talks : Exact(c)' <=> Exact(c)
  BY DEF Exact
<1>4. \A c \in Talks : CountComes(c) => CountComes(c)'
  BY <1>2, <1>3 DEF CountComes
<1> QED BY <1>1, <1>4 DEF TalkInvariant, CountsAreUnderWay

(* A step for one conversation leaves the counts of the others as they are.  *)
LEMMA OthersCount ==
  ASSUME NEW t \in Servers, NEW s, NEW c \in Talks, NEW d \in Talks \ {c}, CountComes(d),
         \A u \in Servers : serving'[u] = IF u = t THEN s ELSE serving[u],
         serving[t].conv = c, s.at = "idle" \/ s.conv = c,
         talks'[d] = talks[d], transcript'[d] = transcript[d]
  PROVE  CountComes(d)'
<1>1. \A u \in Servers : /\ CountIsDue(u, d)' <=> CountIsDue(u, d)
                         /\ Carries(u, d)' <=> Carries(u, d)
                         /\ Carries(u, d) => serving'[u].count = serving[u].count
  BY DEF CountIsDue, Carries
<1>2. Exact(d)' <=> Exact(d)
  BY DEF Exact
<1> QED BY <1>1, <1>2 DEF CountComes

(* A history that grows at its end leaves what was captured of it fitting.   *)
LEMMA GrowingKeepsFits ==
  ASSUME TalkInvariant, NEW c \in Talks, NEW x \in Texts, NEW t \in Servers, NEW s \in AtCall \cup AtRead,
         history' = [history EXCEPT ![c] = Append(@, x)],
         serving' = [serving EXCEPT ![t] = s], s.conv = c, s.says = history'[c],
         UNCHANGED <<transcript, diverged>>,
         serving[t].at \in {"idle", "call"}
  PROVE  CapturesFit'
<1>1. /\ history \in [Talks -> Seq(Texts)] /\ transcript \in [Talks -> Seq(StoredRows)]
      /\ serving \in [Servers -> Places]
  BY DEF TalkInvariant, TalkTypes
<1>2. /\ \A d \in Talks : history'[d] = IF d = c THEN Append(history[c], x) ELSE history[d]
      /\ \A u \in Servers : serving'[u] = IF u = t THEN s ELSE serving[u]
  BY <1>1
<1>3. s.at \in {"call", "read"}
  BY DEF AtCall, AtRead
<1>4. ASSUME NEW u \in Servers, serving'[u].at = "write"
      PROVE  serving'[u].from <= Len(transcript'[serving'[u].conv])
  BY <1>2, <1>3, <1>4 DEF TalkInvariant, CapturesFit
<1>5. ASSUME NEW d \in Talks \ diverged
      PROVE  Begins(transcript'[d], Prepared(history'[d]))
  <2>1. Begins(transcript[d], Prepared(history[d])) /\ history[d] \in Seq(Texts) /\ transcript[d] \in Seq(StoredRows)
    BY <1>1 DEF TalkInvariant, CapturesFit
  <2> QED BY <1>2, <2>1, FitsGrown
<1>6. ASSUME NEW d \in Talks \ diverged, NEW u \in Servers, Capturing(u, d)'
      PROVE  Fits(serving'[u], history'[d])
  <2>1. CASE u = t
    <3>1. serving'[u] = s /\ d = c /\ s.at = "read"
      BY <1>2, <1>3, <1>6, <2>1 DEF Capturing
    <3>2. Begins(history'[c], history'[c])
      BY <1>1, <1>2, Appending DEF Begins
    <3> QED BY <3>1, <3>2 DEF Fits
  <2>2. CASE u # t
    <3>1. Fits(serving[u], history[d])
      BY <1>2, <1>6, <2>2 DEF Capturing, TalkInvariant, CapturesFit
    <3>2. serving[u] \in Places /\ history[d] \in Seq(Texts) /\ serving'[u] = serving[u]
      BY <1>1, <1>2, <2>2
    <3> QED BY <1>2, <3>1, <3>2, FitsGrown
  <2> QED BY <2>1, <2>2
<1> QED BY <1>4, <1>5, <1>6 DEF CapturesFit

LEMMA AskingKeepsTalks ==
  ASSUME TalkInvariant, NEW t \in Servers, NEW c \in Talks, NEW x \in Said, Ask(t, c, x)
  PROVE  TalkInvariant'
<1> DEFINE s == [at |-> "call", conv |-> c, says |-> Append(history[c], x)]
           r == [conv |-> NoTalk, when |-> hour, of |-> c]
<1>1. TalkTypes /\ x \in Texts
  BY TalkAssumption DEF TalkInvariant
<1>2. /\ history \in [Talks -> Seq(Texts)] /\ serving \in [Servers -> Places] /\ routeRows \in Seq(RouteRows)
      /\ asksLeft \in 0..MaxAsks /\ MaxAsks \in Nat /\ hour \in Nat
  BY <1>1, TalkAssumption DEF TalkTypes
<1>3. /\ asksLeft > 0 /\ asksLeft' = asksLeft - 1 /\ t = MaxAsks - asksLeft' /\ ~Waiting(c)
      /\ history' = [history EXCEPT ![c] = Append(@, x)]
      /\ serving' = [serving EXCEPT ![t] = s]
      /\ routeRows' = Append(routeRows, r)
      /\ UNCHANGED <<transcript, reqRows, talks, hour, diverged, lapsed, overlapped, captureFaultsLeft>>
  BY DEF Ask
<1>4. Append(history[c], x) \in Seq(Texts)
  BY <1>1, <1>2
<1>5. s \in AtCall /\ s.at = "call" /\ s.conv = c /\ s.says = Append(history[c], x)
  BY <1>4 DEF AtCall
<1> HIDE DEF s
<1>6. /\ \A d \in Talks : history'[d] = IF d = c THEN Append(history[c], x) ELSE history[d]
      /\ \A u \in Servers : serving'[u] = IF u = t THEN s ELSE serving[u]
  BY <1>2, <1>3
<1>7. serving[t] = Resting /\ serving[t].at = "idle"
  <2>1. t > MaxAsks - asksLeft
    BY <1>2, <1>3
  <2> QED BY <1>1, <2>1 DEF TalkTypes, Resting
<1>8. r \in RouteRows /\ r.conv = NoTalk
  BY <1>2 DEF RouteRows
<1> HIDE DEF r
<1>9. /\ routeRows' \in Seq(RouteRows) /\ DOMAIN routeRows' = 1..(Len(routeRows) + 1) /\ Len(routeRows) \in Nat
      /\ \A i \in 1..Len(routeRows) : routeRows'[i] = routeRows[i]
      /\ routeRows'[Len(routeRows) + 1] = r
      /\ DOMAIN routeRows = 1..Len(routeRows)
  BY <1>2, <1>3, <1>8, Appending
<1>10. TalkTypes'
  <2>1. history' \in [Talks -> Seq(Texts)] /\ serving' \in [Servers -> Places]
    BY <1>2, <1>3, <1>4, <1>5 DEF Places
  <2>2. asksLeft' \in 0..MaxAsks
    BY <1>2, <1>3
  <2>3. \A u \in Servers : u > MaxAsks - asksLeft' => serving'[u] = Resting
    <3> SUFFICES ASSUME NEW u \in Servers, u > MaxAsks - asksLeft' PROVE serving'[u] = Resting
      OBVIOUS
    <3>1. u # t /\ u > MaxAsks - asksLeft
      BY <1>2, <1>3 DEF Servers
    <3> QED BY <1>1, <1>6, <3>1 DEF TalkTypes
  <2> QED BY <1>1, <1>3, <1>9, <2>1, <2>2, <2>3 DEF TalkTypes
<1>11. CallersSayAll'
  <2>1. ASSUME NEW u \in Servers, serving'[u].at = "call", u # t
        PROVE  serving'[u] = serving[u] /\ serving[u].conv # c /\ serving[u].conv \in Talks
    BY <1>2, <1>3, <1>6, <2>1, PlaceOf DEF Waiting
  <2>2. serving'[t] = s
    BY <1>6
  <2>3. ASSUME NEW u \in Servers, serving'[u].at = "call"
        PROVE  serving'[u].says = history'[serving'[u].conv]
    <3>1. CASE u = t
      BY <1>5, <1>6, <2>2, <3>1
    <3>2. CASE u # t
      BY <1>6, <2>1, <2>3, <3>2 DEF CallersSayAll, TalkInvariant
    <3> QED BY <3>1, <3>2
  <2>4. ASSUME NEW u \in Servers, serving'[u].at = "call", NEW v \in Servers, serving'[v].at = "call",
               serving'[v].conv = serving'[u].conv
        PROVE  v = u
    BY <1>5, <2>1, <2>2, <2>4 DEF CallersSayAll, TalkInvariant
  <2> QED BY <2>3, <2>4 DEF CallersSayAll
<1>12. CapturesFit'
  BY <1>1, <1>3, <1>5, <1>6, <1>7, GrowingKeepsFits
<1>13. NothingIsDropped'
  <2> SUFFICES ASSUME captureFaultsLeft = MaxCaptureFaults, NEW d \in Talks \ diverged,
                      Len(transcript[d]) # Len(history'[d])
               PROVE  \E u \in Servers : CarriesAll(serving'[u], d, history'[d])
    BY <1>3 DEF NothingIsDropped
  <2>1. CASE d = c
    BY <1>5, <1>6, <2>1 DEF CarriesAll
  <2>2. CASE d # c
    <3>1. PICK u \in Servers : CarriesAll(serving[u], d, history[d])
      BY <1>6, <2>2 DEF TalkInvariant, NothingIsDropped
    <3>2. u # t
      BY <1>7, <3>1 DEF CarriesAll
    <3> QED BY <1>6, <2>2, <3>1, <3>2
  <2> QED BY <2>1, <2>2
<1>14. CountsAreUnderWay' /\ WindowsAreOpen'
  <2>1. \A u \in Servers : serving[u].at \in {"rollup", "count", "recount"}
                             \/ serving'[u].at \in {"rollup", "count", "recount"} => serving'[u] = serving[u]
    BY <1>5, <1>6, <1>7
  <2>2. UNCHANGED <<talks, transcript, lapsed, overlapped>>
    BY <1>3
  <2>3. WindowsAreOpen'
    BY <2>2 DEF WindowsAreOpen, TalkInvariant
  <2> QED BY <2>1, <2>2, <2>3, CountsRest
<1>15. CallsAreItsOwn'
  BY <1>3 DEF TalkInvariant, CallsAreItsOwn
<1>16. StampsHaveACause'
  BY <1>3, <1>8, <1>9 DEF TalkInvariant, StampsHaveACause
<1> QED BY <1>10, <1>11, <1>12, <1>13, <1>14, <1>15, <1>16 DEF TalkInvariant

LEMMA CompactingKeepsTalks ==
  ASSUME TalkInvariant, NEW c \in Talks, Compact(c)
  PROVE  TalkInvariant'
<1>1. TalkTypes
  BY DEF TalkInvariant
<1>2. /\ ~Waiting(c) /\ history[c] # <<>>
      /\ history' = [history EXCEPT ![c] = Tail(@)]
      /\ diverged' = diverged \cup {c}
      /\ UNCHANGED <<transcript, reqRows, routeRows, talks, serving, hour, lapsed, overlapped, asksLeft, captureFaultsLeft>>
  BY DEF Compact, tables
<1>3. history \in [Talks -> Seq(Texts)] /\ Tail(history[c]) \in Seq(Texts)
  BY <1>1, <1>2 DEF TalkTypes
<1>4. history' \in [Talks -> Seq(Texts)] /\ \A d \in Talks : d # c => history'[d] = history[d]
  BY <1>2, <1>3
<1>5. TalkTypes' /\ WindowsAreOpen'
  BY <1>1, <1>2, <1>4 DEF TalkTypes, WindowsAreOpen, TalkInvariant
<1>6. CallersSayAll'
  <2>1. \A t \in Servers : serving[t].at = "call" => serving[t].conv # c /\ serving[t].conv \in Talks
    BY <1>1, <1>2, PlaceOf DEF Waiting, TalkTypes
  <2> QED BY <1>2, <1>4, <2>1 DEF CallersSayAll, TalkInvariant
<1>7. CapturesFit' /\ NothingIsDropped'
  BY <1>2, <1>4 DEF CapturesFit, Capturing, NothingIsDropped, TalkInvariant
<1>8. CallsAreItsOwn' /\ StampsHaveACause'
  BY <1>2 DEF CallsAreItsOwn, StampsHaveACause, TalkInvariant
<1>9. CountsAreUnderWay'
  BY <1>2, CountsRest
<1> QED BY <1>5, <1>6, <1>7, <1>8, <1>9 DEF TalkInvariant

(* A stamp leaves the rows what they are, but for the conversation.          *)
LEMMA StampedRows ==
  ASSUME NEW rows \in Seq(RouteRows), NEW c \in Talks, NEW new, new = Stamped(rows, c), hour \in Nat
  PROVE  /\ new \in Seq(RouteRows) /\ DOMAIN new = DOMAIN rows
         /\ \A i \in DOMAIN rows :
              /\ new[i].of = rows[i].of /\ new[i].when = rows[i].when
              /\ \/ new[i].conv = rows[i].conv
                 \/ new[i].conv = c /\ rows[i].when >= hour - StampSlack
<1>1. DOMAIN rows = 1..Len(rows) /\ Len(rows) \in Nat /\ \A i \in 1..Len(rows) : rows[i] \in RouteRows
  OBVIOUS
<1>2. DOMAIN new = DOMAIN rows
  BY DEF Stamped
<1>3. ASSUME NEW i \in DOMAIN rows
      PROVE  /\ new[i] \in RouteRows /\ new[i].of = rows[i].of /\ new[i].when = rows[i].when
             /\ \/ new[i].conv = rows[i].conv
                \/ new[i].conv = c /\ rows[i].when >= hour - StampSlack
  <2>1. new[i] = IF InSlack(rows[i]) THEN [rows[i] EXCEPT !.conv = c] ELSE rows[i]
    BY DEF Stamped
  <2>2. CASE InSlack(rows[i])
    BY <1>1, <2>1, <2>2 DEF RouteRows, InSlack
  <2>3. CASE ~InSlack(rows[i])
    BY <1>1, <2>1, <2>3
  <2> QED BY <2>2, <2>3
<1>4. new \in [1..Len(rows) -> RouteRows]
  <2>1. new = [i \in 1..Len(rows) |-> new[i]]
    BY <1>1 DEF Stamped
  <2> QED BY <2>1, <1>1, <1>3
<1> QED BY <1>1, <1>2, <1>3, <1>4

LEMMA AnsweringKeepsTalks ==
  ASSUME TalkInvariant, NEW t \in Servers, NEW m \in TalkModels, NEW ok \in BOOLEAN, Answer(t, m, ok)
  PROVE  TalkInvariant'
<1> DEFINE c == serving[t].conv
           s == [at |-> "read", conv |-> c, model |-> m, says |-> Append(serving[t].says, Reply)]
           r == [conv |-> IF ok THEN c ELSE NoTalk, model |-> m, when |-> hour, of |-> c]
<1>1. TalkTypes /\ Reply \in Texts /\ NoTalk \notin Talks
  BY TalkAssumption DEF TalkInvariant
<1>2. /\ history \in [Talks -> Seq(Texts)] /\ serving \in [Servers -> Places]
      /\ routeRows \in Seq(RouteRows) /\ reqRows \in Seq(CallRows) /\ hour \in Nat
      /\ captureFaultsLeft \in 0..MaxCaptureFaults /\ MaxCaptureFaults \in Nat
  BY <1>1, TalkAssumption DEF TalkTypes
<1>3. /\ serving[t].at = "call" /\ (ok \/ captureFaultsLeft > 0)
      /\ captureFaultsLeft' = IF ok THEN captureFaultsLeft ELSE captureFaultsLeft - 1
      /\ reqRows' = Append(reqRows, r)
      /\ routeRows' = IF ok THEN Stamped(routeRows, c) ELSE routeRows
      /\ history' = [history EXCEPT ![c] = Append(@, Reply)]
      /\ serving' = [serving EXCEPT ![t] = s]
      /\ UNCHANGED <<transcript, talks, hour, diverged, lapsed, overlapped, asksLeft>>
  BY DEF Answer
<1>4. c \in Talks /\ serving[t] \in AtCall /\ serving[t].says = history[c]
  BY <1>2, <1>3, PlaceOf DEF TalkInvariant, CallersSayAll
<1> HIDE DEF c
<1>5. Append(history[c], Reply) \in Seq(Texts) /\ Append(serving[t].says, Reply) = Append(history[c], Reply)
  BY <1>1, <1>2, <1>4
<1>6. s \in AtRead /\ s.at = "read" /\ s.conv = c /\ s.says = Append(history[c], Reply)
  BY <1>4, <1>5 DEF AtRead
<1> HIDE DEF s
<1>7. /\ \A d \in Talks : history'[d] = IF d = c THEN Append(history[c], Reply) ELSE history[d]
      /\ \A u \in Servers : serving'[u] = IF u = t THEN s ELSE serving[u]
  BY <1>2, <1>3
<1>8. r \in CallRows /\ r.conv \in {NoTalk, r.of} /\ r.of = c /\ r.when = hour
  BY <1>2, <1>4 DEF CallRows
<1> HIDE DEF r
<1>9. /\ reqRows' \in Seq(CallRows) /\ DOMAIN reqRows' = 1..(Len(reqRows) + 1) /\ Len(reqRows) \in Nat
      /\ \A i \in 1..Len(reqRows) : reqRows'[i] = reqRows[i]
      /\ reqRows'[Len(reqRows) + 1] = r
      /\ DOMAIN reqRows = 1..Len(reqRows)
  BY <1>2, <1>3, <1>8, Appending
<1>10. /\ routeRows' \in Seq(RouteRows) /\ DOMAIN routeRows' = DOMAIN routeRows
       /\ \A i \in DOMAIN routeRows :
            /\ routeRows'[i].of = routeRows[i].of /\ routeRows'[i].when = routeRows[i].when
            /\ \/ routeRows'[i].conv = routeRows[i].conv
               \/ routeRows'[i].conv = c /\ routeRows[i].when >= hour - StampSlack
  <2>1. CASE ok
    <3>1. routeRows' = Stamped(routeRows, c)
      BY <1>3, <2>1
    <3> QED BY ONLY <1>2, <1>4, <3>1, StampedRows
  <2>2. CASE ~ok
    BY <1>2, <1>3, <2>2
  <2> QED BY <2>1, <2>2
<1>11. captureFaultsLeft' \in 0..MaxCaptureFaults /\ captureFaultsLeft' <= captureFaultsLeft
  BY <1>2, <1>3
<1>12. TalkTypes'
  <2>1. history' \in [Talks -> Seq(Texts)] /\ serving' \in [Servers -> Places]
    BY <1>2, <1>3, <1>5, <1>6 DEF Places
  <2>2. \A u \in Servers : u > MaxAsks - asksLeft' => serving'[u] = Resting
    <3>1. serving[t] # Resting
      BY <1>3 DEF Resting
    <3> QED BY <1>1, <1>3, <1>7, <3>1 DEF TalkTypes
  <2> QED BY <1>1, <1>3, <1>9, <1>10, <1>11, <2>1, <2>2 DEF TalkTypes
<1>13. CallersSayAll'
  <2>1. ASSUME NEW u \in Servers, serving'[u].at = "call"
        PROVE  u # t /\ serving'[u] = serving[u] /\ serving[u].at = "call"
    BY <1>6, <1>7, <2>1
  <2>2. ASSUME NEW u \in Servers, serving'[u].at = "call"
        PROVE  serving[u].conv # c /\ serving[u].conv \in Talks
    BY <2>1, <2>2, <1>2, <1>3, PlaceOf DEF CallersSayAll, TalkInvariant, c
  <2> QED BY <2>1, <2>2, <1>7 DEF CallersSayAll, TalkInvariant
<1>14. CapturesFit'
  BY <1>1, <1>3, <1>4, <1>6, <1>7, GrowingKeepsFits
<1>15. NothingIsDropped'
  <2> SUFFICES ASSUME captureFaultsLeft' = MaxCaptureFaults, NEW d \in Talks \ diverged,
                      Len(transcript[d]) # Len(history'[d])
               PROVE  \E u \in Servers : CarriesAll(serving'[u], d, history'[d])
    BY <1>3 DEF NothingIsDropped
  <2>1. CASE d = c
    BY <1>6, <1>7, <2>1 DEF CarriesAll
  <2>2. CASE d # c
    <3>1. captureFaultsLeft = MaxCaptureFaults
      BY <1>2, <1>11
    <3>2. PICK u \in Servers : CarriesAll(serving[u], d, history[d])
      BY <1>7, <2>2, <3>1 DEF TalkInvariant, NothingIsDropped
    <3>3. u # t
      BY <2>2, <3>2 DEF CarriesAll, c
    <3> QED BY <1>7, <2>2, <3>2, <3>3
  <2> QED BY <2>1, <2>2
<1>16. CountsAreUnderWay' /\ WindowsAreOpen'
  <2>1. \A u \in Servers : serving[u].at \in {"rollup", "count", "recount"}
                             \/ serving'[u].at \in {"rollup", "count", "recount"} => serving'[u] = serving[u]
    BY <1>3, <1>6, <1>7
  <2>2. UNCHANGED <<talks, transcript, lapsed, overlapped>>
    BY <1>3
  <2>3. WindowsAreOpen'
    BY <2>2 DEF WindowsAreOpen, TalkInvariant
  <2> QED BY <2>1, <2>2, <2>3, CountsRest
<1>17. CallsAreItsOwn'
  <2>1. \A i \in DOMAIN reqRows' : reqRows'[i].conv \in {NoTalk, reqRows'[i].of}
    BY <1>8, <1>9 DEF TalkInvariant, CallsAreItsOwn
  <2>2. ASSUME NEW d \in Talks, talks'[d] # NoRow
        PROVE  talks'[d].calls <= Cardinality({i \in DOMAIN reqRows' : reqRows'[i].of = d})
    <3> DEFINE A == {i \in DOMAIN reqRows : reqRows[i].of = d}
               B == {i \in DOMAIN reqRows' : reqRows'[i].of = d}
    <3>1. talks[d].calls <= Cardinality(A) /\ talks[d].calls \in Nat /\ talks' = talks
      BY <1>1, <1>3, <2>2 DEF TalkInvariant, CallsAreItsOwn, TalkTypes, ListRows
    <3>2. A \subseteq B
      BY <1>9
    <3>3. IsFiniteSet(B) /\ IsFiniteSet(A)
      <4>1. Len(reqRows) + 1 \in Nat
        BY <1>9
      <4>2. IsFiniteSet(1..(Len(reqRows) + 1))
        BY <4>1, IntervalCardinality
      <4>3. B \subseteq 1..(Len(reqRows) + 1)
        BY <1>9
      <4> QED BY <4>2, <4>3, <3>2, FS_Subset
    <3> HIDE DEF A, B
    <3>4. Cardinality(A) <= Cardinality(B) /\ Cardinality(A) \in Nat /\ Cardinality(B) \in Nat
      BY <3>2, <3>3, FS_Subset, FS_CardinalityType
    <3>5. talks'[d].calls <= Cardinality(B)
      BY <3>1, <3>4
    <3> QED BY <3>5 DEF B
  <2> QED BY <2>1, <2>2 DEF CallsAreItsOwn
<1>18. StampsHaveACause'
  <2> SUFFICES ASSUME NEW i \in DOMAIN routeRows, routeRows'[i].conv \notin {NoTalk, routeRows'[i].of}
               PROVE  \E j \in DOMAIN reqRows' : /\ reqRows'[j].of = routeRows'[i].conv
                                                 /\ reqRows'[j].when <= routeRows'[i].when + StampSlack
    BY <1>10 DEF StampsHaveACause
  <2>1. CASE routeRows'[i].conv = routeRows[i].conv
    <3>1. PICK j \in DOMAIN reqRows : /\ reqRows[j].of = routeRows[i].conv
                                      /\ reqRows[j].when <= routeRows[i].when + StampSlack
      BY <1>10, <2>1 DEF TalkInvariant, StampsHaveACause
    <3>2. j \in DOMAIN reqRows' /\ reqRows'[j] = reqRows[j]
      BY <1>9
    <3> QED BY <1>10, <2>1, <3>1, <3>2
  <2>2. CASE routeRows'[i].conv = c /\ routeRows[i].when >= hour - StampSlack
    <3>0. routeRows[i] \in RouteRows
      BY <1>2
    <3>1. routeRows[i].when \in Nat /\ routeRows'[i].when = routeRows[i].when /\ StampSlack \in Nat
      BY <3>0, <1>10, TalkAssumption DEF RouteRows
    <3>2. hour <= routeRows'[i].when + StampSlack
      BY <1>2, <2>2, <3>1
    <3> QED BY <1>8, <1>9, <2>2, <3>2
  <2> QED BY <1>10, <2>1, <2>2
<1> QED BY <1>12, <1>13, <1>14, <1>15, <1>16, <1>17, <1>18 DEF TalkInvariant

(* A step of a capture that leaves the tables and the counts alone.          *)
LEMMA ThreadMoves ==
  ASSUME TalkInvariant, NEW t \in Servers, NEW s \in Places, serving' = [serving EXCEPT ![t] = s],
         serving[t].at \in {"read", "write", "rollup", "count", "recount"}, s.at # "call"
  PROVE  /\ serving' \in [Servers -> Places]
         /\ \A u \in Servers : serving'[u] = IF u = t THEN s ELSE serving[u]
         /\ \A u \in Servers : u > MaxAsks - asksLeft => serving'[u] = Resting
         /\ UNCHANGED <<history>> => CallersSayAll'
<1>1. serving \in [Servers -> Places] /\ \A u \in Servers : u > MaxAsks - asksLeft => serving[u] = Resting
  BY DEF TalkInvariant, TalkTypes
<1>2. \A u \in Servers : serving'[u] = IF u = t THEN s ELSE serving[u]
  BY <1>1
<1>3. serving[t] # Resting
  BY DEF Resting
<1>4. ASSUME UNCHANGED history
      PROVE  CallersSayAll'
  <2>1. ASSUME NEW u \in Servers, serving'[u].at = "call"
        PROVE  serving'[u] = serving[u]
    BY <1>2, <2>1
  <2> QED BY <1>4, <2>1 DEF CallersSayAll, TalkInvariant
<1> QED BY <1>1, <1>2, <1>3, <1>4

LEMMA ReadingKeepsTalks ==
  ASSUME TalkInvariant, NEW t \in Servers, ReadStored(t)
  PROVE  TalkInvariant'
<1>1. TalkTypes /\ serving[t].at = "read"
  BY DEF TalkInvariant, ReadStored
<1>2. /\ history \in [Talks -> Seq(Texts)] /\ transcript \in [Talks -> Seq(StoredRows)]
      /\ serving \in [Servers -> Places]
  BY <1>1 DEF TalkTypes
<1>3. PICK c : c = serving[t].conv
  OBVIOUS
<1>4. serving[t] \in AtRead /\ c \in Talks /\ serving[t].says \in Seq(Texts) /\ serving[t].model \in TalkModels
  BY <1>1, <1>2, <1>3, PlaceOf DEF AtRead
<1>5. PICK says : says = serving[t].says
  OBVIOUS
<1>6. PICK stored : stored = transcript[c]
  OBVIOUS
<1>7. PICK fresh : fresh = NewRows(stored, says)
  OBVIOUS
<1>8. PICK s : s = IF fresh = <<>> THEN Resting
                   ELSE [at |-> "write", conv |-> c, model |-> serving[t].model, from |-> Len(stored), fresh |-> fresh]
  OBVIOUS
<1>9. /\ serving' = [serving EXCEPT ![t] = s]
      /\ UNCHANGED <<history, transcript, reqRows, routeRows, talks, hour, diverged, lapsed, overlapped, asksLeft, captureFaultsLeft>>
  BY <1>3, <1>5, <1>6, <1>7, <1>8 DEF ReadStored, NewRows, tables, convBounds
<1>10. says \in Seq(Texts) /\ stored \in Seq(StoredRows) /\ history[c] \in Seq(Texts) /\ Len(stored) \in Nat
  BY <1>2, <1>4, <1>5, <1>6
<1>11. /\ fresh \in Seq(StoredRows)
       /\ Begins(says, history[c]) /\ Begins(stored, Prepared(history[c])) => Follows(fresh, stored, says, history[c])
  BY ONLY <1>7, <1>10, FreshFits
<1>12. /\ fresh = <<>> => s = Resting
       /\ fresh # <<>> => /\ s \in AtWrite /\ s.at = "write" /\ s.conv = c
                          /\ s.from = Len(stored) /\ s.fresh = fresh
  BY <1>4, <1>8, <1>10, <1>11 DEF AtWrite
<1>13. s \in Places /\ s.at \in {"idle", "write"} /\ (s.at = "write" <=> fresh # <<>>)
  BY <1>12 DEF Places, Resting
<1>14. /\ serving' \in [Servers -> Places]
       /\ \A u \in Servers : serving'[u] = IF u = t THEN s ELSE serving[u]
       /\ \A u \in Servers : u > MaxAsks - asksLeft => serving'[u] = Resting
       /\ CallersSayAll'
  BY <1>1, <1>9, <1>13, ThreadMoves
<1>15. TalkTypes'
  BY <1>1, <1>9, <1>14 DEF TalkTypes
<1>16. c \notin diverged => Begins(says, history[c]) /\ Begins(stored, Prepared(history[c]))
  BY <1>1, <1>3, <1>4, <1>5, <1>6 DEF TalkInvariant, CapturesFit, Capturing, Fits
<1>17. CapturesFit'
  <2>1. ASSUME NEW u \in Servers, serving'[u].at = "write"
        PROVE  serving'[u].from <= Len(transcript[serving'[u].conv])
    <3>1. CASE u = t
      BY <1>6, <1>10, <1>12, <1>13, <1>14, <2>1, <3>1
    <3>2. CASE u # t
      BY <1>14, <2>1, <3>2 DEF TalkInvariant, CapturesFit
    <3> QED BY <3>1, <3>2
  <2>2. ASSUME NEW d \in Talks \ diverged, NEW u \in Servers, Capturing(u, d)'
        PROVE  Fits(serving'[u], history[d])
    <3>1. CASE u = t
      <4>1. serving'[u] = s /\ s.at = "write" /\ fresh # <<>> /\ d = c
        BY <1>12, <1>13, <1>14, <2>2, <3>1 DEF Capturing
      <4>2. /\ s.from = Len(stored) /\ s.fresh = fresh
            /\ Len(stored) + Len(fresh) <= Len(history[c])
            /\ \A i \in 1..Len(fresh) : fresh[i] = Prepared(history[c])[Len(stored) + i]
        BY <1>10, <1>11, <1>12, <1>16, <4>1 DEF Follows
      <4> QED BY <4>1, <4>2 DEF Fits
    <3>2. CASE u # t
      BY <1>14, <2>2, <3>2 DEF TalkInvariant, CapturesFit, Capturing
    <3> QED BY <3>1, <3>2
  <2>3. \A d \in Talks \ diverged : Begins(transcript[d], Prepared(history[d]))
    BY DEF TalkInvariant, CapturesFit
  <2> QED BY <1>9, <2>1, <2>2, <2>3 DEF CapturesFit
<1>18. NothingIsDropped'
  <2> SUFFICES ASSUME captureFaultsLeft = MaxCaptureFaults, NEW d \in Talks \ diverged,
                      Len(transcript[d]) # Len(history[d])
               PROVE  \E u \in Servers : CarriesAll(serving'[u], d, history[d])
    BY <1>9 DEF NothingIsDropped
  <2>1. PICK u \in Servers : CarriesAll(serving[u], d, history[d])
    BY DEF TalkInvariant, NothingIsDropped
  <2>2. CASE u # t
    BY <1>14, <2>1, <2>2
  <2>3. CASE u = t
    <3>1. d = c /\ Len(says) = Len(history[c])
      BY <1>1, <1>3, <1>5, <2>1, <2>3 DEF CarriesAll
    <3>2. fresh # <<>>
      <4>1. Len(stored) <= Len(history[c])
        BY <1>10, <1>16, <3>1, PreparedRows DEF Begins
      <4>2. Len(history[c]) \in Nat
        BY <1>10
      <4> QED BY <1>6, <1>10, <1>11, <1>16, <3>1, <4>1, <4>2 DEF Follows
    <3>3. s.at = "write" /\ s.conv = c /\ s.from + Len(s.fresh) = Len(history[c])
      BY <1>11, <1>12, <1>16, <3>1, <3>2 DEF Follows
    <3> QED BY <1>14, <3>1, <3>3 DEF CarriesAll
  <2> QED BY <2>2, <2>3
<1>19. CountsAreUnderWay' /\ WindowsAreOpen'
  <2>1. \A u \in Servers : serving[u].at \in {"rollup", "count", "recount"}
                             \/ serving'[u].at \in {"rollup", "count", "recount"} => serving'[u] = serving[u]
    BY <1>1, <1>13, <1>14
  <2>2. UNCHANGED <<talks, transcript, lapsed, overlapped>>
    BY <1>9
  <2>3. WindowsAreOpen'
    BY <2>2 DEF WindowsAreOpen, TalkInvariant
  <2> QED BY <2>1, <2>2, <2>3, CountsRest
<1>20. CallsAreItsOwn' /\ StampsHaveACause'
  BY <1>9 DEF CallsAreItsOwn, StampsHaveACause, TalkInvariant
<1> QED BY <1>14, <1>15, <1>17, <1>18, <1>19, <1>20 DEF TalkInvariant

LEMMA WritingKeepsTalks ==
  ASSUME TalkInvariant, NEW t \in Servers, WriteRows(t)
  PROVE  TalkInvariant'
<1>1. TalkTypes /\ serving[t].at = "write"
  BY DEF TalkInvariant, WriteRows
<1>2. /\ history \in [Talks -> Seq(Texts)] /\ transcript \in [Talks -> Seq(StoredRows)]
      /\ serving \in [Servers -> Places]
  BY <1>1 DEF TalkTypes
<1>3. PICK c : c = serving[t].conv
  OBVIOUS
<1>4. PICK n, f : n = serving[t].from /\ f = serving[t].fresh
  OBVIOUS
<1>5. /\ serving[t] \in AtWrite /\ c \in Talks /\ serving[t].model \in TalkModels
      /\ f \in Seq(StoredRows) /\ n \in Nat /\ Len(f) \in Nat
  BY <1>1, <1>2, <1>3, <1>4, PlaceOf DEF AtWrite
<1>6. PICK s : s = [at |-> "rollup", conv |-> c, model |-> serving[t].model]
  OBVIOUS
<1>7. PICK r : r = Replaced(transcript[c], n, f)
  OBVIOUS
<1>8. /\ serving' = [serving EXCEPT ![t] = s]
      /\ transcript' = [transcript EXCEPT ![c] = r]
      /\ UNCHANGED <<history, reqRows, routeRows, talks, hour, diverged, lapsed, overlapped, asksLeft, captureFaultsLeft>>
  BY <1>3, <1>4, <1>6, <1>7 DEF WriteRows, convBounds
<1>9. s \in AtRollup /\ s \in Places /\ s.at = "rollup" /\ s.conv = c
  BY <1>5, <1>6 DEF AtRollup, Places
<1>10. /\ serving' \in [Servers -> Places]
       /\ \A u \in Servers : serving'[u] = IF u = t THEN s ELSE serving[u]
       /\ \A u \in Servers : u > MaxAsks - asksLeft => serving'[u] = Resting
       /\ CallersSayAll'
  BY <1>1, <1>8, <1>9, ThreadMoves
<1>11. n \in 0..Len(transcript[c]) /\ transcript[c] \in Seq(StoredRows) /\ history[c] \in Seq(Texts)
  <2>1. n <= Len(transcript[c])
    BY <1>1, <1>3, <1>4 DEF TalkInvariant, CapturesFit
  <2> QED BY <1>2, <1>5, <2>1
<1>12. /\ r \in Seq(StoredRows)
       /\ Len(transcript[c]) <= Len(r) /\ n + Len(f) <= Len(r)
       /\ Begins(transcript[c], Prepared(history[c])) /\ n + Len(f) <= Len(history[c])
            /\ (\A i \in 1..Len(f) : f[i] = Prepared(history[c])[n + i])
          => Begins(r, Prepared(history[c]))
  BY ONLY <1>5, <1>7, <1>11, WrittenFits
<1>13. \A d \in Talks : transcript'[d] = IF d = c THEN r ELSE transcript[d]
  BY <1>2, <1>8
<1>14. TalkTypes'
  <2>1. transcript' \in [Talks -> Seq(StoredRows)]
    BY <1>2, <1>8, <1>12
  <2> QED BY <1>1, <1>8, <1>10, <2>1 DEF TalkTypes
<1>15. c \notin diverged => Begins(r, Prepared(history[c]))
  <2>1. ASSUME c \notin diverged
        PROVE  /\ Begins(transcript[c], Prepared(history[c])) /\ n + Len(f) <= Len(history[c])
               /\ \A i \in 1..Len(f) : f[i] = Prepared(history[c])[n + i]
    BY <1>1, <1>3, <1>4, <1>5, <2>1 DEF TalkInvariant, CapturesFit, Capturing, Fits
  <2> QED BY <1>12, <2>1
<1>16. \A d \in Talks : Len(transcript[d]) <= Len(transcript'[d]) /\ Len(transcript[d]) \in Nat /\ Len(transcript'[d]) \in Nat
  <2>1. \A d \in Talks : Len(transcript[d]) \in Nat
    BY <1>2
  <2>2. Len(r) \in Nat
    BY <1>12
  <2> QED BY <1>12, <1>13, <2>1, <2>2
<1>17. CapturesFit'
  <2>1. ASSUME NEW u \in Servers, serving'[u].at = "write"
        PROVE  serving'[u].from <= Len(transcript'[serving'[u].conv])
    <3>1. serving'[u] = serving[u] /\ serving[u].at = "write"
      BY <1>9, <1>10, <2>1
    <3>2. serving[u] \in AtWrite
      BY <1>2, <3>1, PlaceOf
    <3>3. serving[u].from \in Nat /\ serving[u].conv \in Talks
      BY <3>2 DEF AtWrite
    <3>4. serving[u].from <= Len(transcript[serving[u].conv])
      BY <3>1 DEF TalkInvariant, CapturesFit
    <3> QED BY <1>16, <3>1, <3>3, <3>4
  <2>2. ASSUME NEW d \in Talks \ diverged
        PROVE  Begins(transcript'[d], Prepared(history[d]))
    BY <1>13, <1>15 DEF TalkInvariant, CapturesFit
  <2>3. ASSUME NEW d \in Talks \ diverged, NEW u \in Servers, Capturing(u, d)'
        PROVE  Fits(serving'[u], history[d])
    <3>1. serving'[u] = serving[u]
      BY <1>9, <1>10, <2>3 DEF Capturing
    <3>2. Fits(serving[u], history[d])
      BY <2>3, <3>1 DEF TalkInvariant, CapturesFit, Capturing
    <3> QED BY <3>1, <3>2 DEF Fits
  <2> QED BY <1>8, <2>1, <2>2, <2>3 DEF CapturesFit
<1>18. NothingIsDropped'
  <2> SUFFICES ASSUME captureFaultsLeft = MaxCaptureFaults, NEW d \in Talks \ diverged,
                      Len(transcript'[d]) # Len(history[d])
               PROVE  \E u \in Servers : CarriesAll(serving'[u], d, history[d])
    BY <1>8 DEF NothingIsDropped
  <2>1. Len(transcript'[d]) <= Len(history[d]) /\ Len(history[d]) \in Nat
    <3>1. Begins(transcript'[d], Prepared(history[d])) /\ history[d] \in Seq(Texts)
      BY <1>2, <1>13, <1>15 DEF TalkInvariant, CapturesFit
    <3> QED BY <3>1, PreparedRows DEF Begins
  <2>2. Len(transcript[d]) # Len(history[d])
    BY <1>16, <2>1
  <2>3. PICK u \in Servers : CarriesAll(serving[u], d, history[d])
    BY <2>2 DEF TalkInvariant, NothingIsDropped
  <2>4. CASE u # t
    BY <1>10, <2>3, <2>4
  <2>5. CASE u = t
    <3>1. d = c /\ n + Len(f) = Len(history[c])
      BY <1>1, <1>3, <1>4, <2>3, <2>5 DEF CarriesAll
    <3>2. Len(history[c]) <= Len(r) /\ transcript'[d] = r
      BY <1>12, <1>13, <3>1
    <3> QED BY <1>16, <2>1, <3>1, <3>2
  <2> QED BY <2>4, <2>5
<1>19. CountsAreUnderWay' /\ WindowsAreOpen'
  <2>1. \A u \in Servers : serving'[u].at \in {"count", "recount"} => serving'[u] = serving[u]
    BY <1>9, <1>10
  <2>2. ASSUME NEW d \in Talks \ (lapsed \cup overlapped)
        PROVE  CountComes(d)'
    <3>0. CountComes(d)
      BY DEF TalkInvariant, CountsAreUnderWay
    <3>1. CASE d = c
      <4>1. CountIsDue(t, d)'
        BY <1>9, <1>10, <3>1 DEF CountIsDue
      <4>2. \A u \in Servers : Carries(u, d)' => Carries(u, d)
        BY <2>1 DEF Carries
      <4> QED BY <3>0, <4>1, <4>2 DEF CountComes
    <3>2. CASE d # c
      <4>1. talks'[d] = talks[d] /\ transcript'[d] = transcript[d] /\ d \in Talks \ {c}
        BY <1>8, <1>13, <3>2
      <4> QED BY <1>3, <1>5, <1>9, <1>10, <3>0, <4>1, OthersCount
    <3> QED BY <3>1, <3>2
  <2>3. \A u \in Servers : serving'[u].at \in {"count", "recount"} => talks'[serving'[u].conv] # NoRow
    BY <1>8, <2>1 DEF CountsAreUnderWay, TalkInvariant
  <2> QED BY <1>8, <2>2, <2>3 DEF CountsAreUnderWay, WindowsAreOpen, TalkInvariant
<1>20. CallsAreItsOwn' /\ StampsHaveACause'
  BY <1>8 DEF CallsAreItsOwn, StampsHaveACause, TalkInvariant
<1> QED BY <1>10, <1>14, <1>17, <1>18, <1>19, <1>20 DEF TalkInvariant

(* A thread past its write carries nothing and captures nothing any more.    *)
LEMMA LateStepsKeepFits ==
  ASSUME TalkInvariant, NEW t \in Servers, NEW s \in Places, serving' = [serving EXCEPT ![t] = s],
         serving[t].at \in {"rollup", "count", "recount"}, s.at \in {"count", "recount", "idle"},
         UNCHANGED <<history, transcript, diverged, captureFaultsLeft>>
  PROVE  CapturesFit' /\ NothingIsDropped'
<1>1. \A u \in Servers : serving'[u] = IF u = t THEN s ELSE serving[u]
  BY ThreadMoves
<1>2. CapturesFit'
  <2>1. \A u \in Servers : serving'[u].at \in {"read", "write"} => serving'[u] = serving[u]
    BY <1>1
  <2> QED BY <2>1 DEF TalkInvariant, CapturesFit, Capturing
<1>3. NothingIsDropped'
  <2>1. \A u \in Servers : serving[u].at \in {"call", "read", "write"} => serving'[u] = serving[u]
    BY <1>1
  <2>2. \A u \in Servers, d \in Talks : CarriesAll(serving[u], d, history[d]) => CarriesAll(serving'[u], d, history[d])
    BY <2>1 DEF CarriesAll
  <2> QED BY <2>2 DEF TalkInvariant, NothingIsDropped
<1> QED BY <1>2, <1>3

LEMMA UpsertingKeepsTalks ==
  ASSUME TalkInvariant, NEW t \in Servers, Upsert(t)
  PROVE  TalkInvariant'
<1>1. TalkTypes /\ serving[t].at = "rollup"
  BY DEF TalkInvariant, Upsert
<1>2. /\ serving \in [Servers -> Places] /\ hour \in Nat
      /\ talks \in [Talks -> ListRows \cup {NoRow}]
  BY <1>1 DEF TalkTypes
<1>3. PICK c, m : c = serving[t].conv /\ m = serving[t].model
  OBVIOUS
<1>4. c \in Talks /\ m \in TalkModels
  BY <1>1, <1>2, <1>3, PlaceOf DEF AtRollup
<1>5. PICK s : s = [at |-> "count", conv |-> c]
  OBVIOUS
<1>6. PICK row : row = IF talks[c] = NoRow
                       THEN [messages |-> 0, model |-> m, first |-> hour, last |-> hour, calls |-> 0]
                       ELSE [talks[c] EXCEPT !.model = m, !.first = Min({@, hour}), !.last = Max({@, hour})]
  OBVIOUS
<1>7. /\ serving' = [serving EXCEPT ![t] = s]
      /\ talks' = [talks EXCEPT ![c] = row]
      /\ UNCHANGED <<history, transcript, reqRows, routeRows, hour, diverged, lapsed, overlapped, asksLeft, captureFaultsLeft>>
  BY <1>3, <1>5, <1>6 DEF Upsert, convBounds
<1>8. s \in AtCount /\ s \in Places /\ s.at = "count" /\ s.conv = c
  BY <1>4, <1>5 DEF AtCount, Places
<1>9. /\ serving' \in [Servers -> Places]
      /\ \A u \in Servers : serving'[u] = IF u = t THEN s ELSE serving[u]
      /\ \A u \in Servers : u > MaxAsks - asksLeft => serving'[u] = Resting
      /\ CallersSayAll'
  BY <1>1, <1>7, <1>8, ThreadMoves
<1>10. \A a, b \in Nat : /\ Min({a, b}) \in Nat /\ Min({a, b}) <= a /\ Min({a, b}) <= b
                         /\ Max({a, b}) \in Nat /\ a <= Max({a, b}) /\ b <= Max({a, b})
  <2> TAKE a, b \in Nat
  <2>1. CASE a <= b
    <3>1. Min({a, b}) = a /\ Max({a, b}) = b
      BY <2>1 DEF Min, Max
    <3> QED BY <2>1, <3>1
  <2>2. CASE b <= a
    <3>1. Min({a, b}) = b /\ Max({a, b}) = a
      BY <2>2 DEF Min, Max
    <3> QED BY <2>2, <3>1
  <2> QED BY <2>1, <2>2
<1>11. /\ row \in ListRows /\ row.first <= row.last
       /\ row.calls = 0 \/ (talks[c] # NoRow /\ row.calls = talks[c].calls)
  <2>1. CASE talks[c] = NoRow
    <3>1. row = [messages |-> 0, model |-> m, first |-> hour, last |-> hour, calls |-> 0]
      BY <1>6, <2>1
    <3> QED BY <1>2, <1>4, <3>1 DEF ListRows
  <2>2. CASE talks[c] # NoRow
    <3>1. talks[c] \in ListRows
      BY <1>2, <1>4, <2>2
    <3>2. PICK lo, hi : lo = Min({talks[c].first, hour}) /\ hi = Max({talks[c].last, hour})
      OBVIOUS
    <3>3. row = [talks[c] EXCEPT !.model = m, !.first = lo, !.last = hi]
      BY <1>6, <2>2, <3>2
    <3>4. lo \in Nat /\ hi \in Nat /\ lo <= hour /\ hour <= hi
      BY <1>2, <1>10, <3>1, <3>2 DEF ListRows
    <3>5. lo <= hi
      BY <1>2, <3>4
    <3> QED BY <1>4, <2>2, <3>1, <3>3, <3>4, <3>5 DEF ListRows
  <2> QED BY <2>1, <2>2
<1>12. row # NoRow
  BY <1>11 DEF ListRows, NoRow
<1>13. \A d \in Talks : talks'[d] = IF d = c THEN row ELSE talks[d]
  BY <1>2, <1>7
<1>14. TalkTypes'
  <2>1. talks' \in [Talks -> ListRows \cup {NoRow}]
    BY <1>2, <1>7, <1>11
  <2> QED BY <1>1, <1>7, <1>9, <2>1 DEF TalkTypes
<1>15. WindowsAreOpen'
  BY <1>11, <1>13 DEF WindowsAreOpen, TalkInvariant
<1>16. CapturesFit' /\ NothingIsDropped'
  BY <1>1, <1>7, <1>8, LateStepsKeepFits
<1>17. CountsAreUnderWay'
  <2>1. ASSUME NEW u \in Servers, serving'[u].at \in {"count", "recount"}
        PROVE  talks'[serving'[u].conv] # NoRow
    <3>1. CASE u = t
      BY <1>4, <1>8, <1>9, <1>12, <1>13, <3>1
    <3>2. CASE u # t
      <4>1. serving'[u] = serving[u] /\ serving[u].conv \in Talks /\ talks[serving[u].conv] # NoRow
        BY <1>2, <1>9, <2>1, <3>2, PlaceOf DEF TalkInvariant, CountsAreUnderWay
      <4> QED BY <1>12, <1>13, <4>1
    <3> QED BY <3>1, <3>2
  <2>2. ASSUME NEW d \in Talks \ (lapsed \cup overlapped)
        PROVE  CountComes(d)'
    <3>0. CountComes(d)
      BY DEF TalkInvariant, CountsAreUnderWay
    <3>1. CASE d = c
      <4>1. CountIsDue(t, d)'
        BY <1>8, <1>9, <3>1 DEF CountIsDue
      <4>2. \A u \in Servers : Carries(u, d)' => Carries(u, d)
        BY <1>8, <1>9 DEF Carries
      <4> QED BY <3>0, <4>1, <4>2 DEF CountComes
    <3>2. CASE d # c
      <4>1. talks'[d] = talks[d] /\ transcript'[d] = transcript[d] /\ d \in Talks \ {c}
        BY <1>7, <1>13, <3>2
      <4> QED BY <1>3, <1>4, <1>8, <1>9, <3>0, <4>1, OthersCount
    <3> QED BY <3>1, <3>2
  <2> QED BY <1>7, <2>1, <2>2 DEF CountsAreUnderWay
<1>18. CallsAreItsOwn'
  <2>1. \A d \in Talks : Cardinality({i \in DOMAIN reqRows : reqRows[i].of = d}) \in Nat
    <3>1. DOMAIN reqRows = 1..Len(reqRows) /\ Len(reqRows) \in Nat
      BY <1>1 DEF TalkTypes
    <3>2. IsFiniteSet(DOMAIN reqRows)
      BY <3>1, IntervalCardinality
    <3> QED BY <3>2, FS_Subset, FS_CardinalityType
  <2>2. ASSUME NEW d \in Talks, talks'[d] # NoRow
        PROVE  talks'[d].calls <= Cardinality({i \in DOMAIN reqRows : reqRows[i].of = d})
    <3>1. talks'[d].calls = 0 \/ (talks[d] # NoRow /\ talks'[d].calls = talks[d].calls)
      BY <1>11, <1>13, <2>2
    <3>2. talks[d] # NoRow => talks[d].calls <= Cardinality({i \in DOMAIN reqRows : reqRows[i].of = d})
      BY DEF TalkInvariant, CallsAreItsOwn
    <3>3. CASE talks'[d].calls = 0
      BY <2>1, <3>3
    <3> QED BY <3>1, <3>2, <3>3
  <2> QED BY <1>7, <2>2 DEF CallsAreItsOwn, TalkInvariant
<1>19. StampsHaveACause'
  BY <1>7 DEF StampsHaveACause, TalkInvariant
<1> QED BY <1>9, <1>14, <1>15, <1>16, <1>17, <1>18, <1>19 DEF TalkInvariant

LEMMA CountingKeepsTalks ==
  ASSUME TalkInvariant, NEW t \in Servers, CountStored(t)
  PROVE  TalkInvariant'
<1>1. TalkTypes /\ serving[t].at = "count"
  BY DEF TalkInvariant, CountStored
<1>2. /\ serving \in [Servers -> Places] /\ transcript \in [Talks -> Seq(StoredRows)]
  BY <1>1 DEF TalkTypes
<1>3. PICK c : c = serving[t].conv
  OBVIOUS
<1>4. c \in Talks /\ talks[c] # NoRow /\ Len(transcript[c]) \in Nat
  BY <1>1, <1>2, <1>3, PlaceOf DEF TalkInvariant, CountsAreUnderWay
<1>5. PICK s : s = [at |-> "recount", conv |-> c, count |-> Len(transcript[c])]
  OBVIOUS
<1>6. /\ serving' = [serving EXCEPT ![t] = s]
      /\ lapsed' = lapsed \ {c}
      /\ overlapped' = IF \E u \in Servers : Carries(u, c) THEN overlapped \cup {c} ELSE overlapped \ {c}
      /\ UNCHANGED <<history, transcript, reqRows, routeRows, talks, hour, diverged, asksLeft, captureFaultsLeft>>
  BY <1>3, <1>5 DEF CountStored, Carries, tables, convBounds
<1>7. s \in Places /\ s.at = "recount" /\ s.conv = c /\ s.count = Len(transcript[c])
  BY <1>4, <1>5 DEF AtRecount, Places
<1>8. /\ serving' \in [Servers -> Places]
      /\ \A u \in Servers : serving'[u] = IF u = t THEN s ELSE serving[u]
      /\ \A u \in Servers : u > MaxAsks - asksLeft => serving'[u] = Resting
      /\ CallersSayAll'
  BY <1>1, <1>6, <1>7, ThreadMoves
<1>9. TalkTypes' /\ WindowsAreOpen'
  BY <1>1, <1>6, <1>8 DEF TalkTypes, WindowsAreOpen, TalkInvariant
<1>10. CapturesFit' /\ NothingIsDropped'
  BY <1>1, <1>6, <1>7, LateStepsKeepFits
<1>11. CountsAreUnderWay'
  <2>1. ASSUME NEW u \in Servers, serving'[u].at \in {"count", "recount"}
        PROVE  talks'[serving'[u].conv] # NoRow
    BY <1>4, <1>6, <1>7, <1>8, <2>1 DEF TalkInvariant, CountsAreUnderWay
  <2>2. ASSUME NEW d \in Talks \ (lapsed' \cup overlapped')
        PROVE  CountComes(d)'
    <3>1. CASE d = c
      <4>1. \A u \in Servers : ~Carries(u, c)
        BY <1>6, <2>2, <3>1
      <4>2. \A u \in Servers : Carries(u, c)' <=> u = t
        BY <1>7, <1>8, <4>1 DEF Carries
      <4>3. serving'[t].count = Len(transcript'[c])
        BY <1>6, <1>7, <1>8
      <4> QED BY <3>1, <4>2, <4>3 DEF CountComes
    <3>2. CASE d # c
      <4>1. d \in Talks \ {c} /\ CountComes(d)
        BY <1>6, <2>2, <3>2 DEF TalkInvariant, CountsAreUnderWay
      <4> QED BY <1>3, <1>4, <1>6, <1>7, <1>8, <4>1, OthersCount
    <3> QED BY <3>1, <3>2
  <2> QED BY <2>1, <2>2 DEF CountsAreUnderWay
<1>12. CallsAreItsOwn' /\ StampsHaveACause'
  BY <1>6 DEF CallsAreItsOwn, StampsHaveACause, TalkInvariant
<1> QED BY <1>8, <1>9, <1>10, <1>11, <1>12 DEF TalkInvariant

LEMMA TellingKeepsTalks ==
  ASSUME TalkInvariant, NEW t \in Servers, WriteCount(t)
  PROVE  TalkInvariant'
<1>1. TalkTypes /\ serving[t].at = "recount"
  BY DEF TalkInvariant, WriteCount
<1>2. /\ serving \in [Servers -> Places] /\ transcript \in [Talks -> Seq(StoredRows)]
      /\ talks \in [Talks -> ListRows \cup {NoRow}]
  BY <1>1 DEF TalkTypes
<1>3. PICK c : c = serving[t].conv
  OBVIOUS
<1>4. c \in Talks /\ talks[c] # NoRow
  BY <1>1, <1>2, <1>3, PlaceOf DEF TalkInvariant, CountsAreUnderWay
<1>5. PICK n : n = serving[t].count
  OBVIOUS
<1>6. talks[c] \in ListRows /\ n \in Nat
  BY <1>1, <1>2, <1>4, <1>5, PlaceOf DEF AtRecount
<1>7. PICK row : row = [talks[c] EXCEPT !.messages = n]
  OBVIOUS
<1>8. /\ serving' = [serving EXCEPT ![t] = Resting]
      /\ talks' = [talks EXCEPT ![c] = row]
      /\ UNCHANGED <<history, transcript, reqRows, routeRows, hour, diverged, lapsed, overlapped, asksLeft, captureFaultsLeft>>
  BY <1>3, <1>5, <1>7 DEF WriteCount, convBounds
<1>9. Resting \in Places /\ Resting.at = "idle"
  BY DEF Resting, Places
<1>10. /\ serving' \in [Servers -> Places]
       /\ \A u \in Servers : serving'[u] = IF u = t THEN Resting ELSE serving[u]
       /\ \A u \in Servers : u > MaxAsks - asksLeft => serving'[u] = Resting
       /\ CallersSayAll'
  BY <1>1, <1>8, <1>9, ThreadMoves
<1>11. /\ row \in ListRows /\ row.messages = n
       /\ row.first = talks[c].first /\ row.last = talks[c].last /\ row.calls = talks[c].calls
  BY <1>6, <1>7 DEF ListRows
<1>12. row # NoRow
  BY <1>11 DEF ListRows, NoRow
<1>13. \A d \in Talks : talks'[d] = IF d = c THEN row ELSE talks[d]
  BY <1>2, <1>8
<1>14. TalkTypes'
  <2>1. talks' \in [Talks -> ListRows \cup {NoRow}]
    BY <1>2, <1>8, <1>11
  <2> QED BY <1>1, <1>8, <1>10, <2>1 DEF TalkTypes
<1>15. WindowsAreOpen'
  BY <1>4, <1>11, <1>13 DEF WindowsAreOpen, TalkInvariant
<1>16. CapturesFit' /\ NothingIsDropped'
  BY <1>1, <1>8, <1>9, LateStepsKeepFits
<1>17. CountsAreUnderWay'
  <2>1. ASSUME NEW u \in Servers, serving'[u].at \in {"count", "recount"}
        PROVE  talks'[serving'[u].conv] # NoRow
    <3>1. serving'[u] = serving[u] /\ serving[u].conv \in Talks /\ talks[serving[u].conv] # NoRow
      BY <1>2, <1>9, <1>10, <2>1, PlaceOf DEF TalkInvariant, CountsAreUnderWay
    <3> QED BY <1>12, <1>13, <3>1
  <2>2. ASSUME NEW d \in Talks \ (lapsed \cup overlapped)
        PROVE  CountComes(d)'
    <3>0. CountComes(d)
      BY DEF TalkInvariant, CountsAreUnderWay
    <3>1. CASE d = c
      <4>1. Carries(t, c) /\ \A v \in Servers : Carries(v, c) => v = t
        BY <1>1, <1>3, <3>0, <3>1 DEF CountComes, Carries
      <4>2. \A v \in Servers : ~Carries(v, c)'
        BY <1>9, <1>10, <4>1 DEF Carries
      <4>3. CASE \E v \in Servers : CountIsDue(v, c)
        <5>1. PICK u \in Servers : CountIsDue(u, c)
          BY <4>3
        <5>2. CountIsDue(u, c)'
          BY <1>1, <1>10, <5>1 DEF CountIsDue
        <5> QED BY <3>1, <4>2, <5>2 DEF CountComes
      <4>4. CASE \A v \in Servers : ~CountIsDue(v, c)
        <5>1. n = Len(transcript[c])
          BY <1>5, <3>0, <3>1, <4>1, <4>4 DEF CountComes
        <5>2. Exact(c)'
          BY <1>8, <1>11, <1>13, <1>4, <5>1 DEF Exact
        <5> QED BY <3>1, <4>2, <5>2 DEF CountComes
      <4> QED BY <4>3, <4>4
    <3>2. CASE d # c
      <4>1. talks'[d] = talks[d] /\ transcript'[d] = transcript[d] /\ d \in Talks \ {c}
        BY <1>8, <1>13, <3>2
      <4> QED BY <1>3, <1>4, <1>9, <1>10, <3>0, <4>1, OthersCount
    <3> QED BY <3>1, <3>2
  <2> QED BY <1>8, <2>1, <2>2 DEF CountsAreUnderWay
<1>18. CallsAreItsOwn' /\ StampsHaveACause'
  BY <1>4, <1>8, <1>11, <1>13 DEF CallsAreItsOwn, StampsHaveACause, TalkInvariant
<1> QED BY <1>10, <1>14, <1>15, <1>16, <1>17, <1>18 DEF TalkInvariant

LEMMA FailingKeepsTalks ==
  ASSUME TalkInvariant, NEW t \in Servers, CaptureFails(t)
  PROVE  TalkInvariant'
<1>1. /\ TalkTypes /\ serving[t].at \in {"read", "write", "rollup", "count", "recount"}
      /\ captureFaultsLeft > 0 /\ captureFaultsLeft' = captureFaultsLeft - 1
      /\ lapsed' = IF serving[t].at \in {"rollup", "count", "recount"} THEN lapsed \cup {serving[t].conv} ELSE lapsed
      /\ serving' = [serving EXCEPT ![t] = Resting]
      /\ UNCHANGED <<history, transcript, reqRows, routeRows, talks, hour, diverged, overlapped, asksLeft>>
  BY DEF TalkInvariant, CaptureFails, tables
<1>2. Resting \in Places /\ Resting.at = "idle"
  BY DEF Resting, Places
<1>3. /\ serving' \in [Servers -> Places]
      /\ \A u \in Servers : serving'[u] = IF u = t THEN Resting ELSE serving[u]
      /\ \A u \in Servers : u > MaxAsks - asksLeft => serving'[u] = Resting
      /\ CallersSayAll'
  BY <1>1, <1>2, ThreadMoves
<1>4. captureFaultsLeft \in 0..MaxCaptureFaults /\ MaxCaptureFaults \in Nat
  BY <1>1, TalkAssumption DEF TalkTypes
<1>5. captureFaultsLeft' \in 0..MaxCaptureFaults /\ captureFaultsLeft' # MaxCaptureFaults
  BY <1>1, <1>4
<1>6. TalkTypes' /\ WindowsAreOpen' /\ NothingIsDropped' /\ CallsAreItsOwn' /\ StampsHaveACause'
  BY <1>1, <1>3, <1>5 DEF TalkTypes, WindowsAreOpen, NothingIsDropped, CallsAreItsOwn, StampsHaveACause, TalkInvariant
<1>7. CapturesFit'
  <2>1. \A u \in Servers : serving'[u].at \in {"read", "write"} => serving'[u] = serving[u]
    BY <1>2, <1>3
  <2> QED BY <1>1, <2>1 DEF TalkInvariant, CapturesFit, Capturing
<1>8. CountsAreUnderWay'
  <2>1. \A u \in Servers : serving'[u].at \in {"count", "recount"} => serving'[u] = serving[u]
    BY <1>2, <1>3
  <2>2. ASSUME NEW d \in Talks \ (lapsed' \cup overlapped')
        PROVE  CountComes(d)'
    <3>1. d \notin lapsed /\ d \notin overlapped /\ CountComes(d)
      BY <1>1, <2>2 DEF TalkInvariant, CountsAreUnderWay
    <3>2. \A u \in Servers : CountIsDue(u, d) \/ Carries(u, d) => u # t
      BY <1>1, <2>2 DEF CountIsDue, Carries
    <3>3. \A u \in Servers : /\ CountIsDue(u, d)' <=> CountIsDue(u, d)
                             /\ Carries(u, d)' <=> Carries(u, d)
                             /\ Carries(u, d) => serving'[u].count = serving[u].count
      BY <1>2, <1>3, <3>2 DEF CountIsDue, Carries
    <3>4. Exact(d)' <=> Exact(d)
      BY <1>1 DEF Exact
    <3> QED BY <1>1, <3>1, <3>3, <3>4 DEF CountComes
  <2>3. \A u \in Servers : serving'[u].at \in {"count", "recount"} => talks'[serving'[u].conv] # NoRow
    BY <1>1, <2>1 DEF CountsAreUnderWay, TalkInvariant
  <2> QED BY <2>2, <2>3 DEF CountsAreUnderWay
<1> QED BY <1>3, <1>6, <1>7, <1>8 DEF TalkInvariant

(* What the synchronisation makes of a conversation that has calls.          *)
LEMMA SyncedRow ==
  ASSUME TalkInvariant, NEW c \in Talks, RowsOf(c) # {}
  PROVE  /\ Synced(c) \in ListRows /\ Synced(c).first <= Synced(c).last
         /\ Synced(c).calls <= Cardinality({i \in DOMAIN reqRows : reqRows[i].of = c})
         /\ Synced(c).messages = IF talks[c] = NoRow THEN 0 ELSE talks[c].messages
<1> DEFINE models == {reqRows[i].model : i \in RowsOf(c)}
           m == Max(models)
           times == {reqRows[i].when : i \in Group(c, m)}
<1>1. /\ reqRows \in Seq(CallRows) /\ DOMAIN reqRows = 1..Len(reqRows) /\ Len(reqRows) \in Nat
      /\ talks \in [Talks -> ListRows \cup {NoRow}]
  BY DEF TalkInvariant, TalkTypes
<1>2. \A i \in 1..Len(reqRows) : reqRows[i] \in CallRows
  BY <1>1
<1>3. \A i \in 1..Len(reqRows) : reqRows[i].when \in Nat /\ reqRows[i].model \in TalkModels /\ reqRows[i].model \in Nat
  BY <1>2, TalkAssumption DEF CallRows
<1>4. RowsOf(c) \subseteq 1..Len(reqRows)
  BY <1>1 DEF RowsOf
<1>5. m \in models /\ \A i \in RowsOf(c) : reqRows[i].model <= m
  <2> DEFINE g == [i \in RowsOf(c) |-> reqRows[i].model]
  <2>1. g \in [RowsOf(c) -> Int]
    BY <1>3, <1>4
  <2>2. \E i \in RowsOf(c) : \A j \in RowsOf(c) : g[j] <= g[i]
    <3>1. Len(reqRows) \in Nat /\ RowsOf(c) \subseteq 1..Len(reqRows) /\ RowsOf(c) # {}
      BY <1>1, <1>4
    <3> HIDE DEF g
    <3> QED BY ONLY <2>1, <3>1, ExtremesAreReached
  <2>3. \E x \in models : \A y \in models : x >= y
    <3>1. PICK i \in RowsOf(c) : \A j \in RowsOf(c) : g[j] <= g[i]
      BY <2>2
    <3>2. \A j \in RowsOf(c) : reqRows[i].model >= reqRows[j].model
      BY <1>3, <1>4, <3>1
    <3> QED BY <3>2
  <2>4. m \in models /\ \A y \in models : m >= y
    BY <2>3 DEF Max
  <2>5. ASSUME NEW i \in RowsOf(c)
        PROVE  reqRows[i].model <= m
    <3>1. reqRows[i].model \in models
      OBVIOUS
    <3>2. \A y \in models : y \in Nat
      BY <1>3, <1>4
    <3>3. m >= reqRows[i].model /\ m \in Nat /\ reqRows[i].model \in Nat
      BY <2>4, <3>1, <3>2
    <3> HIDE DEF m, models
    <3> QED BY <3>3
  <2> QED BY <2>4, <2>5
<1> HIDE DEF m
<1>6. PICK first \in RowsOf(c) : reqRows[first].model = m
  BY <1>5
<1>7. Group(c, m) \subseteq 1..Len(reqRows) /\ first \in Group(c, m)
  BY <1>4, <1>6 DEF Group
<1>8. /\ \E x \in times : \A y \in times : x <= y
      /\ \E x \in times : \A y \in times : x >= y
      /\ times \subseteq Nat
  <2> DEFINE G == Group(c, m)
             g == [i \in G |-> reqRows[i].when]
  <2>1. g \in [G -> Int] /\ \A i \in G : reqRows[i].when \in Nat
    BY <1>3, <1>7
  <2>2. G \subseteq 1..Len(reqRows) /\ G # {}
    BY <1>7
  <2> HIDE DEF G
  <2>3. /\ \E i \in G : \A j \in G : g[j] <= g[i]
        /\ \E i \in G : \A j \in G : g[i] <= g[j]
    BY ONLY <1>1, <2>1, <2>2, ExtremesAreReached
  <2>4. \E x \in times : \A y \in times : x <= y
    <3>1. PICK i \in G : \A j \in G : g[i] <= g[j]
      BY <2>3
    <3>2. \A j \in G : reqRows[i].when <= reqRows[j].when
      BY <2>1, <3>1
    <3> QED BY <3>2 DEF G
  <2>5. \E x \in times : \A y \in times : x >= y
    <3>1. PICK i \in G : \A j \in G : g[j] <= g[i]
      BY <2>3
    <3>2. \A j \in G : reqRows[i].when >= reqRows[j].when
      BY <2>1, <3>1
    <3> QED BY <3>2 DEF G
  <2> QED BY <2>1, <2>4, <2>5 DEF G
<1> HIDE DEF times
<1>9. Min(times) \in times /\ Max(times) \in times /\ \A y \in times : Min(times) <= y /\ Max(times) >= y
  BY <1>8 DEF Min, Max
<1>10. Min(times) \in Nat /\ Max(times) \in Nat /\ Min(times) <= Max(times)
  BY <1>8, <1>9
<1>11. /\ Cardinality(Group(c, m)) \in Nat
       /\ Cardinality(Group(c, m)) <= Cardinality({i \in DOMAIN reqRows : reqRows[i].of = c})
  <2> DEFINE B == {i \in DOMAIN reqRows : reqRows[i].of = c}
  <2>1. Group(c, m) \subseteq B
    BY TalkAssumption DEF Group, RowsOf, TalkInvariant, CallsAreItsOwn
  <2>2. IsFiniteSet(B)
    <3>1. IsFiniteSet(1..Len(reqRows)) /\ B \subseteq 1..Len(reqRows)
      BY <1>1, IntervalCardinality
    <3> QED BY <3>1, FS_Subset
  <2> HIDE DEF B
  <2>3. IsFiniteSet(Group(c, m)) /\ Cardinality(Group(c, m)) <= Cardinality(B)
    BY <2>1, <2>2, FS_Subset
  <2> QED BY <2>3, FS_CardinalityType DEF B
<1>12. m \in TalkModels
  BY <1>3, <1>4, <1>6
<1>13. (IF talks[c] = NoRow THEN 0 ELSE talks[c].messages) \in Nat
  <2>1. talks[c] # NoRow => talks[c] \in ListRows
    BY <1>1
  <2> QED BY <2>1 DEF ListRows
<1>14. Synced(c) = [messages |-> IF talks[c] = NoRow THEN 0 ELSE talks[c].messages, model |-> m,
                    first |-> Min(times), last |-> Max(times), calls |-> Cardinality(Group(c, m))]
  BY DEF Synced, m, times
<1> QED BY <1>10, <1>11, <1>12, <1>13, <1>14 DEF ListRows

LEMMA ListingKeepsTalks ==
  ASSUME TalkInvariant, ShowList
  PROVE  TalkInvariant'
<1>1. /\ TalkTypes
      /\ talks' = [c \in Talks |-> IF RowsOf(c) = {} THEN talks[c] ELSE Synced(c)]
      /\ UNCHANGED <<history, transcript, reqRows, routeRows, serving, hour, diverged, lapsed, overlapped, asksLeft, captureFaultsLeft>>
  BY DEF TalkInvariant, ShowList, convBounds
<1>2. talks \in [Talks -> ListRows \cup {NoRow}] /\ transcript \in [Talks -> Seq(StoredRows)]
      /\ serving \in [Servers -> Places]
  BY <1>1 DEF TalkTypes
<1>3. ASSUME NEW c \in Talks
      PROVE  \/ talks'[c] = talks[c]
             \/ /\ talks'[c] \in ListRows /\ talks'[c].first <= talks'[c].last
                /\ talks'[c].calls <= Cardinality({i \in DOMAIN reqRows : reqRows[i].of = c})
                /\ talks'[c].messages = IF talks[c] = NoRow THEN 0 ELSE talks[c].messages
  BY <1>1, SyncedRow
<1>4. \A r \in ListRows : r # NoRow
  BY DEF ListRows, NoRow
<1>5. TalkTypes'
  <2>1. talks' \in [Talks -> ListRows \cup {NoRow}]
    BY <1>1, <1>2, <1>3
  <2> QED BY <1>1, <2>1 DEF TalkTypes
<1>6. WindowsAreOpen'
  BY <1>3 DEF WindowsAreOpen, TalkInvariant
<1>7. CallersSayAll' /\ CapturesFit' /\ NothingIsDropped'
  BY <1>1 DEF CallersSayAll, CapturesFit, Capturing, NothingIsDropped, TalkInvariant
<1>8. CountsAreUnderWay'
  <2>1. \A c \in Talks : talks[c] # NoRow => talks'[c] # NoRow
    BY <1>3, <1>4
  <2>2. ASSUME NEW c \in Talks, Exact(c)
        PROVE  Exact(c)'
    <3>1. transcript[c] \in Seq(StoredRows) /\ (transcript[c] = <<>> => Len(transcript[c]) = 0)
      BY <1>2
    <3>2. talks[c] = NoRow => talks[c].messages = -1
      BY DEF NoRow
    <3>3. Len(transcript[c]) \in Nat
      BY <3>1
    <3>4. CASE talks'[c] = talks[c]
      BY <1>1, <2>2, <3>4 DEF Exact
    <3>5. CASE talks'[c].messages = IF talks[c] = NoRow THEN 0 ELSE talks[c].messages
      <4>1. talks'[c].messages = Len(transcript[c])
        BY <2>2, <3>1, <3>2, <3>3, <3>5 DEF Exact
      <4> QED BY <1>1, <4>1 DEF Exact
    <3> QED BY <1>3, <3>4, <3>5
  <2>3. \A u \in Servers : serving[u].at \in {"count", "recount"} => serving[u].conv \in Talks
    BY <1>2, PlaceOf
  <2>4. ASSUME NEW c \in Talks, CountComes(c)
        PROVE  CountComes(c)'
    <3>1. \A u \in Servers : /\ CountIsDue(u, c)' <=> CountIsDue(u, c)
                             /\ Carries(u, c)' <=> Carries(u, c)
      BY <1>1 DEF CountIsDue, Carries
    <3> QED BY <1>1, <2>2, <2>4, <3>1 DEF CountComes
  <2> QED BY <1>1, <2>1, <2>3, <2>4 DEF CountsAreUnderWay, TalkInvariant
<1>9. CallsAreItsOwn' /\ StampsHaveACause'
  BY <1>1, <1>3 DEF CallsAreItsOwn, StampsHaveACause, TalkInvariant
<1> QED BY <1>5, <1>6, <1>7, <1>8, <1>9 DEF TalkInvariant

LEMMA TalksStay == TalkInvariant /\ [ConvNext]_convVars => TalkInvariant'
<1> SUFFICES ASSUME TalkInvariant, [ConvNext]_convVars PROVE TalkInvariant'
  OBVIOUS
<1>1. ASSUME NEW t \in Servers, CaptureStep(t)
      PROVE  TalkInvariant'
  BY <1>1, ReadingKeepsTalks, WritingKeepsTalks, UpsertingKeepsTalks, CountingKeepsTalks, TellingKeepsTalks DEF CaptureStep
<1>2. ASSUME ConvTick
      PROVE  TalkInvariant'
  <2>1. /\ hour' = hour + 1
        /\ UNCHANGED <<history, transcript, reqRows, routeRows, talks, serving, diverged, lapsed, overlapped, asksLeft, captureFaultsLeft>>
    BY <1>2 DEF ConvTick, tables, convBounds
  <2>2. TalkTypes'
    BY <2>1 DEF TalkTypes, TalkInvariant
  <2>3. WindowsAreOpen' /\ CallersSayAll' /\ CapturesFit' /\ NothingIsDropped'
    BY <2>1 DEF WindowsAreOpen, CallersSayAll, CapturesFit, Capturing, NothingIsDropped, TalkInvariant
  <2>4. CallsAreItsOwn' /\ StampsHaveACause'
    BY <2>1 DEF CallsAreItsOwn, StampsHaveACause, TalkInvariant
  <2>5. CountsAreUnderWay'
    BY <2>1, CountsRest
  <2> QED BY <2>2, <2>3, <2>4, <2>5 DEF TalkInvariant
<1>3. CASE UNCHANGED convVars
  <2>1. TalkTypes'
    BY <1>3 DEF convVars, TalkTypes, TalkInvariant
  <2>2. WindowsAreOpen' /\ CallersSayAll' /\ CapturesFit' /\ NothingIsDropped'
    BY <1>3 DEF convVars, WindowsAreOpen, CallersSayAll, CapturesFit, Capturing, NothingIsDropped, TalkInvariant
  <2>3. CallsAreItsOwn' /\ StampsHaveACause'
    BY <1>3 DEF convVars, CallsAreItsOwn, StampsHaveACause, TalkInvariant
  <2>4. CountsAreUnderWay'
    BY <1>3, CountsRest DEF convVars
  <2> QED BY <2>1, <2>2, <2>3, <2>4 DEF TalkInvariant
<1> QED BY <1>1, <1>2, <1>3, FailingKeepsTalks, AskingKeepsTalks, AnsweringKeepsTalks, CompactingKeepsTalks,
           ListingKeepsTalks DEF ConvNext

(* What the invariant says of conversations at rest.                         *)
LEMMA TalksAreKept == TalkInvariant => ConversationsAreKept
<1> SUFFICES ASSUME TalkInvariant PROVE ConversationsAreKept
  OBVIOUS
<1>1. TalkTypes
  BY DEF TalkInvariant
<1>2. /\ history \in [Talks -> Seq(Texts)] /\ transcript \in [Talks -> Seq(StoredRows)]
      /\ reqRows \in Seq(CallRows) /\ talks \in [Talks -> ListRows \cup {NoRow}] /\ serving \in [Servers -> Places]
  BY <1>1 DEF TalkTypes
<1>3. ConvTypeOK
  <2>1. \A c \in Talks : transcript[c] \in Seq([text : Texts, cut : BOOLEAN])
    BY <1>2 DEF StoredRows
  <2>2. ASSUME NEW c \in Talks, talks[c] # NoRow
        PROVE  /\ talks[c].messages \in Nat /\ talks[c].calls \in Nat
               /\ talks[c].first \in Nat /\ talks[c].first <= talks[c].last
    <3>1. talks[c] \in ListRows
      BY <1>2, <2>2
    <3>2. talks[c].first <= talks[c].last
      BY <2>2 DEF TalkInvariant, WindowsAreOpen
    <3> QED BY <3>1, <3>2 DEF ListRows
  <2>3. ASSUME NEW i \in DOMAIN reqRows
        PROVE  reqRows[i].conv \in Talks \cup {NoTalk} /\ reqRows[i].model \in TalkModels
    <3>1. reqRows[i] \in CallRows
      BY <1>2
    <3> QED BY <3>1 DEF CallRows
  <2> QED BY <2>1, <2>2, <2>3 DEF ConvTypeOK
<1>4. ASSUME NEW c \in Talks \ diverged
      PROVE  /\ IsPrefix(transcript[c], Prepared(history[c]))
             /\ Len(transcript[c]) = Len(history[c]) => transcript[c] = Prepared(history[c])
  <2>1. /\ Begins(transcript[c], Prepared(history[c]))
        /\ transcript[c] \in Seq(StoredRows) /\ Prepared(history[c]) \in Seq(StoredRows)
        /\ Len(Prepared(history[c])) = Len(history[c])
    BY <1>2, PreparedRows DEF TalkInvariant, CapturesFit
  <2>2. IsPrefix(transcript[c], Prepared(history[c]))
    BY <2>1, BeginsIsPrefix
  <2>3. ASSUME Len(transcript[c]) = Len(history[c])
        PROVE  transcript[c] = Prepared(history[c])
    <3>1. Len(transcript[c]) = Len(Prepared(history[c])) /\ \A i \in 1..Len(transcript[c]) : transcript[c][i] = Prepared(history[c])[i]
      BY <2>1, <2>3 DEF Begins
    <3> QED BY ONLY <2>1, <3>1, SeqEqual
  <2> QED BY <2>2, <2>3
<1>5. TranscriptIsWhatWasSaid
  BY <1>4 DEF TranscriptIsWhatWasSaid
<1>6. NothingIsForgotten
  <2> SUFFICES ASSUME captureFaultsLeft = MaxCaptureFaults, NEW c \in Talks \ diverged,
                      \A t \in Servers : serving[t] # Resting => serving[t].conv # c
               PROVE  transcript[c] = Prepared(history[c])
    BY DEF NothingIsForgotten
  <2>1. ASSUME NEW t \in Servers
        PROVE  ~CarriesAll(serving[t], c, history[c])
    BY DEF CarriesAll, Resting
  <2>2. Len(transcript[c]) = Len(history[c])
    BY <2>1 DEF TalkInvariant, NothingIsDropped
  <2> QED BY <1>4, <2>2
<1>7. CountsAreExact
  <2> SUFFICES ASSUME NEW c \in Talks \ (lapsed \cup overlapped),
                      \A t \in Servers : serving[t].at \in {"rollup", "count", "recount"} => serving[t].conv # c
               PROVE  Exact(c)
    BY DEF CountsAreExact, Exact
  <2>1. \A t \in Servers : ~CountIsDue(t, c) /\ ~Carries(t, c)
    BY DEF CountIsDue, Carries
  <2> QED BY <2>1 DEF TalkInvariant, CountsAreUnderWay, CountComes
<1> QED BY <1>3, <1>5, <1>6, <1>7 DEF TalkInvariant, ConversationsAreKept

-----------------------------------------------------------------------------
(* Side by side.                                                             *)

StoresKept ==
  /\ AccessInvariant /\ SecretsInvariant /\ MemoryInvariant /\ TalkInvariant
  /\ TaskInvariant /\ LogInvariant /\ CronInvariant /\ FileInvariant /\ AlertInvariant
  /\ TalkIsKept /\ ReasoningInvariant

LEMMA StoresRest ==
  ASSUME [StoresNext]_storesVars
  PROVE  /\ [AccessNext]_accessVars /\ [SecretsNext]_secretVars
         /\ [MemoryNext]_memoryVars /\ [ConvNext]_convVars
         /\ [TasksNext]_taskVars /\ [LogNext]_logVars /\ [CronNext]_cronVars
         /\ [FileNext]_fileVars /\ [AlertsNext]_alertVars /\ [HistoryNext]_historyVars
         /\ [ReasoningNext]_storeVars
<1>1. CASE UNCHANGED storesVars
  BY <1>1 DEF storesVars
<1>2. CASE StoresNext
  BY <1>2 DEF StoresNext, Others
<1> QED BY <1>1, <1>2

LEMMA StoresBegin ==
  ASSUME StoresInit
  PROVE  StoresKept
<1>1. /\ AccessInit /\ SecretsInit /\ MemoryInit /\ ConvInit
      /\ TasksInit /\ LogInit /\ CronInit /\ FileInit /\ AlertsInit /\ HistoryInit /\ ReasoningInit
  BY DEF StoresInit
<1> QED BY <1>1, KeysStart, SecretsStart, MemoryStarts, TalksStart,
           TasksStart, LogStarts, CronStarts, FileStarts, AlertsStart, HistoryStarts,
           ReasoningStarts DEF StoresKept

LEMMA StoresStay ==
  ASSUME StoresKept, [StoresNext]_storesVars
  PROVE  StoresKept'
<1>1. /\ [AccessNext]_accessVars /\ [SecretsNext]_secretVars /\ [MemoryNext]_memoryVars /\ [ConvNext]_convVars
      /\ [TasksNext]_taskVars /\ [LogNext]_logVars /\ [CronNext]_cronVars
      /\ [FileNext]_fileVars /\ [AlertsNext]_alertVars /\ [HistoryNext]_historyVars
      /\ [ReasoningNext]_storeVars
  BY StoresRest
<1> QED BY <1>1, KeysStay, SecretsStay, MemoryStays, TalksStay,
           TasksStay, LogStays, CronStays, FileStays, AlertsStay, HistoryStays,
           ReasoningStays DEF StoresKept

(* The invariant the theorems below are read off from.                       *)
THEOREM StoresInvariance == StoresSpec => []StoresKept
<1>1. StoresInit => StoresKept
  BY StoresBegin
<1>2. StoresKept /\ [StoresNext]_storesVars => StoresKept'
  BY StoresStay
<1> QED BY <1>1, <1>2, PTL DEF StoresSpec

(* A key that was revoked stays out through rotations, migrations and the    *)
(* crashes in them, a secret has one row and a rotated key the rights of the *)
(* old one; a stored credential reads back as what was put in, unless a      *)
(* caller looked for the key file while another was making it (key_manager,  *)
(* credential_store, crypto).                                                *)
THEOREM AccessStaysGuarded == StoresSpec => []AccessIsGuarded
<1>1. StoresKept => AccessIsGuarded
  BY KeysAreGuarded, SecretsReadBack DEF StoresKept, AccessIsGuarded
<1> QED BY <1>1, StoresInvariance, PTL

(* While a client only adds to its history, what is stored is what was said, *)
(* in order and without gaps, and complete once captures are over unless one *)
(* failed; the count of messages is exact after every capture that counted   *)
(* alone; calls are listed under their own conversation; and a foreign stamp *)
(* has a cause                                                               *)
(* (append_messages, recount_conversation, sync_conversations, stamp_new).   *)
THEOREM ConversationsStayKept == StoresSpec => []ConversationsAreKept
<1>1. StoresKept => ConversationsAreKept
  BY TalksAreKept DEF StoresKept
<1> QED BY <1>1, StoresInvariance, PTL

(* What an operator is shown is so: a task that stays where it is has its    *)
(* row, once, and a view from the cache is of a walk younger than the TTL    *)
(* unless it was taken between a stamp and its rows or two walks were        *)
(* published across each other and none since;                               *)
(* the pages of a log, one after the other, are the log, the line above a    *)
(* page is true of it and the newest messages are shown without a gap; every *)
(* cron op is listed and fails for a cause; the sources file is somebody's;  *)
(* and alerts of one key keep their distance and are silent for a cause      *)
(* (work_tasks, tables.paginate, work_sessions, work_cron, work_sources,     *)
(* AlertManager.fire).                                                       *)
THEOREM OperatorsAlwaysSeeTheTruth == StoresSpec => []OperatorsAreToldTheTruth
<1>1. StoresKept => OperatorsAreToldTheTruth
  BY TasksAreRight, LogIsRight, CronIsRight, FileIsRight, AlertsAreRight DEF StoresKept, OperatorsAreToldTheTruth
<1> QED BY <1>1, StoresInvariance, PTL

(* What each model of the chain is sent, fall-over after fall-over, is the   *)
(* conversation: every call has its answer and every answer its call, those  *)
(* which both sides of the client's history have; as much is said as the     *)
(* client said; a fall-over changes the reasoning only; a turn gets its own  *)
(* reasoning or the placeholder.  What a thread captured with the store to   *)
(* itself is at hand until it expires or max_entries later captures took its *)
(* place, as long as no two threads have met there since, and such a capture *)
(* brings the store back to its bound (normalize_messages_for_cache,         *)
(* sanitize_messages, ensure_thinking_reasoning_content, ReasoningStore).    *)
THEOREM MessagesStayKept == StoresSpec => []MessagesAreKept
<1>1. StoresKept => MessagesAreKept
  BY HistoryIsRight, ReasoningIsRight DEF StoresKept, MessagesAreKept
<1> QED BY <1>1, StoresInvariance, PTL
=============================================================================
