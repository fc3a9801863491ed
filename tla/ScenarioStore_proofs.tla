------------------------ MODULE ScenarioStore_proofs ------------------------
(***************************************************************************)
(* Proofs about the scenario store, for any number of tabs, scenarios and  *)
(* sessions and any bounds: its invariants GenerationInForce,              *)
(* ActiveIsStored, FencedContent, NoRenameLost and SourceTitled, and the   *)
(* action property DirtyNeverPruned.                                       *)
(***************************************************************************)
EXTENDS ScenarioStore, TLAPS

(* The generation counts what ends the validity of older copies. *)
EpochIsGeneration == \A id \in Ids : epoch[id] = generation[id]

(* A copy never is ahead of the store. *)
HeldBehind ==
    \A t \in Tabs : held[t] # Nothing =>
        /\ held[t].of = held[t].generation
        /\ held[t].generation <= generation[held[t].id]
        /\ held[t].title <= renames[held[t].id]

(* An undo handle that still fits its tombstone has the last title. *)
UndoBehind ==
    \A t \in Tabs : undo[t] # Nothing =>
        LET d == undo[t] IN
        /\ d.record.of + 1 = d.generation
        /\ d.generation <= generation[d.id]
        /\ tombstone[d.id] = d.generation => d.record.title = renames[d.id]

(* An id without record or tombstone has not been used yet. *)
NeverStored ==
    \A id \in Ids : ~Stored(id) /\ tombstone[id] = 0 => generation[id] = 0 /\ renames[id] = 0

Safety == GenerationInForce /\ ActiveIsStored /\ FencedContent /\ NoRenameLost

IInv == /\ TypeOK
        /\ Safety
        /\ EpochIsGeneration /\ HeldBehind /\ UndoBehind /\ NeverStored

(* No record, copy, source or deletion is mistaken for a missing one. *)
LEMMA NotNothing ==
    /\ \A r \in Records : r # Nothing
    /\ \A c \in Copies : c # Nothing
    /\ \A s \in Sources : s # Nothing
    /\ \A d \in Deletions : d # Nothing
  BY StoreAssumption

LEMMA IsRecord ==
    \A g \in Generations, n \in Titles, s \in Sessions \cup {NoSession}, d \in BOOLEAN,
       o \in Nat :
        [generation |-> g, title |-> n, session |-> s, dirty |-> d, of |-> o] \in Records
  BY DEF Records

LEMMA InitIInv == Init => IInv
<1> SUFFICES ASSUME Init PROVE IInv
  OBVIOUS
<1> USE StoreAssumption DEF Init
<1>1. 0 \in Generations /\ 0 \in Titles
  BY DEF Generations, Titles
<1>2. TypeOK
  <2>1. CASE scenario = [id \in Ids |-> Nothing] /\ source = [s \in Sessions |-> Nothing]
               /\ active = NoId
    BY <1>1, <2>1 DEF TypeOK
  <2>2. CASE \E id \in Ids, session \in Sessions \cup {NoSession} :
               /\ scenario = [i \in Ids |->
                      IF i = id THEN [generation |-> 0, title |-> 0, session |-> session,
                                      dirty |-> TRUE, of |-> 0]
                                ELSE Nothing]
               /\ source = [s \in Sessions |->
                      IF s = session THEN [title |-> 0, localId |-> id] ELSE Nothing]
               /\ active \in {NoId, id}
    BY <1>1, <2>2 DEF TypeOK, Records, Sources
  <2> QED BY <2>1, <2>2
<1>3. Safety
  <2>1. \A session \in Sessions \cup {NoSession} :
            [generation |-> 0, title |-> 0, session |-> session, dirty |-> TRUE,
             of |-> 0] # Nothing
    BY <1>1, IsRecord, NotNothing
  <2>2. ActiveIsStored
    BY <2>1 DEF ActiveIsStored, Stored
  <2>3. GenerationInForce /\ FencedContent /\ NoRenameLost
    BY DEF GenerationInForce, FencedContent, NoRenameLost, Stored
  <2> QED BY <2>2, <2>3 DEF Safety
<1>4. EpochIsGeneration /\ HeldBehind /\ UndoBehind /\ NeverStored
  BY DEF EpochIsGeneration, HeldBehind, UndoBehind, NeverStored
<1> QED BY <1>2, <1>3, <1>4 DEF IInv

LEMMA ReadIInv ==
    ASSUME IInv, NEW t \in Tabs, NEW id \in Ids, Read(t, id) \/ NewScenario(t, id)
    PROVE  IInv'
<1> USE StoreAssumption DEF IInv, Read, NewScenario, Visible, Unused, Stored, storeVars
<1> DEFINE c == held'[t]
<1>1. /\ held' = [held EXCEPT ![t] = c] /\ c \in Copies
      /\ c.id = id /\ c.of = c.generation
      /\ c.generation <= generation[id] /\ c.title <= renames[id]
  BY DEF TypeOK, Safety, GenerationInForce, NoRenameLost, EpochIsGeneration, Records, Copies,
         Generations, Titles
<1>2. TypeOK'
  BY <1>1 DEF TypeOK
<1>3. Safety'
  BY DEF Safety, GenerationInForce, ActiveIsStored, FencedContent, NoRenameLost
<1>4. HeldBehind'
  BY <1>1 DEF HeldBehind, TypeOK
<1>5. EpochIsGeneration' /\ UndoBehind' /\ NeverStored'
  BY DEF EpochIsGeneration, UndoBehind, NeverStored
<1> QED BY <1>2, <1>3, <1>4, <1>5

LEMMA SetActiveIInv ==
    ASSUME IInv, NEW t \in Tabs, SetActiveScenario(t)
    PROVE  IInv'
<1> USE DEF IInv, SetActiveScenario, Visible, Stored, tabVars
<1>1. TypeOK'
  BY DEF TypeOK, Copies
<1>2. Safety'
  BY DEF Safety, GenerationInForce, ActiveIsStored, FencedContent, NoRenameLost
<1>3. EpochIsGeneration' /\ HeldBehind' /\ UndoBehind' /\ NeverStored'
  BY DEF EpochIsGeneration, HeldBehind, UndoBehind, NeverStored
<1> QED BY <1>1, <1>2, <1>3

LEMMA RenameIInv ==
    ASSUME IInv, NEW t \in Tabs, RenameScenario(t)
    PROVE  IInv'
<1> DEFINE id == held[t].id
           r  == [scenario[id] EXCEPT !.title = @ + 1]
<1>1. /\ id \in Ids /\ scenario[id] # Nothing /\ tombstone[id] = 0
      /\ scenario[id] \in Records /\ scenario[id].title + 1 \in Titles
      /\ scenario' = [scenario EXCEPT ![id] = r]
      /\ renames' = [renames EXCEPT ![id] = @ + 1]
      /\ UNCHANGED <<generation, tombstone, active, tabVars, epoch>>
  BY StoreAssumption
     DEF IInv, TypeOK, RenameScenario, Visible, Stored, Copies, Records, Titles
<1>2. /\ r \in Records /\ r # Nothing
      /\ r.generation = scenario[id].generation /\ r.of = scenario[id].of
      /\ r.title = scenario[id].title + 1
  BY <1>1, NotNothing DEF Records
<1>3. renames[id] = scenario[id].title
  BY <1>1 DEF IInv, Safety, NoRenameLost, Stored
<1> USE DEF tabVars
<1>4. TypeOK'
  <2>1. source' \in [Sessions -> Sources \cup {Nothing}]
    BY <1>1 DEF IInv, TypeOK, RenameScenario, Sources, Known
  <2> QED BY <1>1, <1>2, <1>3, <2>1 DEF IInv, TypeOK
<1>5. Safety'
  BY <1>1, <1>2, <1>3
     DEF IInv, TypeOK, Safety, GenerationInForce, ActiveIsStored, FencedContent, NoRenameLost,
         Stored
<1>6. EpochIsGeneration' /\ NeverStored'
  BY <1>1, <1>2 DEF IInv, TypeOK, EpochIsGeneration, NeverStored, Stored
<1>7. HeldBehind'
  BY <1>1 DEF IInv, TypeOK, HeldBehind, Copies, Titles
<1>8. UndoBehind'
  BY <1>1 DEF IInv, TypeOK, UndoBehind, Deletions, Records, Titles, Generations
<1> QED BY <1>4, <1>5, <1>6, <1>7, <1>8 DEF IInv

LEMMA DeleteIInv ==
    ASSUME IInv, NEW t \in Tabs, NEW id \in Ids, DeleteScenario(t, id)
    PROVE  IInv'
<1> DEFINE g == generation[id] + 1
           d == [id |-> id, record |-> scenario[id], generation |-> g,
                 sources |-> Attached(id)]
<1>1. /\ scenario[id] # Nothing /\ scenario[id] \in Records /\ tombstone[id] = 0
      /\ DeletionGeneration(id) = g /\ g \in Generations /\ g > 0
  BY StoreAssumption DEF IInv, TypeOK, Safety, GenerationInForce, DeleteScenario,
     WriteDeleted, DeletionGeneration, Larger, Stored, Generations
<1>2. /\ scenario' = [scenario EXCEPT ![id] = Nothing]
      /\ generation' = [generation EXCEPT ![id] = g]
      /\ tombstone' = [tombstone EXCEPT ![id] = g]
      /\ active' = ActiveWithout(id)
      /\ undo' = [undo EXCEPT ![t] = d]
      /\ epoch' = [epoch EXCEPT ![id] = @ + 1]
      /\ UNCHANGED <<held, renames>>
  BY <1>1 DEF DeleteScenario, WriteDeleted, Deletion
<1>3. d \in Deletions /\ d # Nothing
  BY <1>1, NotNothing DEF Deletions, Attached
<1>4. scenario[id].of = generation[id] /\ scenario[id].title = renames[id]
  BY <1>1 DEF IInv, Safety, FencedContent, EpochIsGeneration, NoRenameLost, Stored
<1>5. TypeOK'
  <2>1. source' \in [Sessions -> Sources \cup {Nothing}]
    BY DEF IInv, TypeOK, DeleteScenario, WriteDeleted, Sources, Known, Attached
  <2>2. active' \in Ids \cup {NoId}
    BY <1>2 DEF IInv, TypeOK, ActiveWithout
  <2> QED BY <1>1, <1>2, <1>3, <2>1, <2>2 DEF IInv, TypeOK
<1>6. Safety'
  <2>1. ActiveIsStored'
    BY <1>2, StoreAssumption
       DEF IInv, TypeOK, Safety, ActiveIsStored, ActiveWithout, Stored
  <2> QED BY <1>1, <1>2, <2>1
         DEF IInv, TypeOK, Safety, GenerationInForce, FencedContent, NoRenameLost, Stored
<1>7. EpochIsGeneration' /\ NeverStored'
  BY <1>1, <1>2 DEF IInv, TypeOK, EpochIsGeneration, NeverStored, Stored
<1>8. HeldBehind'
  BY <1>1, <1>2 DEF IInv, TypeOK, HeldBehind, Copies, Generations
<1>9. UndoBehind'
  <2> SUFFICES ASSUME NEW u \in Tabs, undo'[u] # Nothing
               PROVE  /\ undo'[u].record.of + 1 = undo'[u].generation
                      /\ undo'[u].generation <= generation'[undo'[u].id]
                      /\ tombstone'[undo'[u].id] = undo'[u].generation
                            => undo'[u].record.title = renames'[undo'[u].id]
    BY DEF UndoBehind
  <2>1. CASE u = t
    BY <1>1, <1>2, <1>3, <1>4, <2>1 DEF IInv, TypeOK, Generations
  <2>2. CASE u # t
    <3>1. undo'[u] = undo[u] /\ undo[u] \in Deletions
      BY <1>2, <2>2 DEF IInv, TypeOK
    <3>2. undo[u].id \in Ids /\ undo[u].generation \in Nat
      BY <3>1, StoreAssumption DEF Deletions, Generations
    <3> QED BY <1>1, <1>2, <3>1, <3>2 DEF IInv, TypeOK, UndoBehind, Generations
  <2> QED BY <2>1, <2>2
<1> QED BY <1>5, <1>6, <1>7, <1>8, <1>9 DEF IInv

LEMMA RestoreIInv ==
    ASSUME IInv, NEW t \in Tabs, RestoreDeletedScenario(t)
    PROVE  IInv'
<1> DEFINE d  == undo[t]
           id == d.id
           r  == [d.record EXCEPT !.generation = generation[id] + 1, !.of = @ + 2]
<1>1. /\ d # Nothing /\ d \in Deletions /\ id \in Ids /\ d.record \in Records
      /\ d.generation \in Generations
  BY DEF IInv, TypeOK, RestoreDeletedScenario, WriteRestored, Deletions
<1>2. /\ tombstone[id] = d.generation /\ generation[id] = d.generation /\ ~Stored(id)
      /\ r.generation <= MaxGeneration
      /\ scenario' = [scenario EXCEPT ![id] = r]
      /\ generation' = [generation EXCEPT ![id] = r.generation]
      /\ tombstone' = [tombstone EXCEPT ![id] = 0]
      /\ epoch' = [epoch EXCEPT ![id] = @ + 1]
      /\ undo' = [undo EXCEPT ![t] = Nothing]
      /\ UNCHANGED <<active, held, renames>>
  BY DEF RestoreDeletedScenario, WriteRestored, Restorable
<1>3. /\ r \in Records /\ r # Nothing
      /\ r.generation = generation[id] + 1 /\ r.of = d.record.of + 2
      /\ r.title = d.record.title
  <2>1. generation[id] + 1 \in Generations
    BY <1>1, <1>2, StoreAssumption DEF Generations, Records
  <2>2. r \in Records /\ r.generation = generation[id] + 1 /\ r.of = d.record.of + 2
        /\ r.title = d.record.title
    <3> DEFINE q == d.record
               g == generation[id] + 1
               n == q.of + 2
    <3>1. q \in Records /\ g \in Generations /\ n \in Nat
      BY <1>1, <2>1 DEF Records
    <3>2. /\ [q EXCEPT !.generation = g, !.of = n] \in Records
          /\ [q EXCEPT !.generation = g, !.of = n].generation = g
          /\ [q EXCEPT !.generation = g, !.of = n].of = n
          /\ [q EXCEPT !.generation = g, !.of = n].title = q.title
      <4> HIDE DEF q, g, n
      <4> QED BY <3>1 DEF Records
    <3> QED BY <3>2
  <2> QED BY <2>2, NotNothing
<1>4. d.record.of + 1 = d.generation /\ d.record.title = renames[id]
  BY <1>1, <1>2 DEF IInv, UndoBehind
<1>5. generation[id] \in Nat /\ epoch[id] = generation[id] /\ d.record.of \in Nat
  BY <1>1, StoreAssumption DEF IInv, TypeOK, EpochIsGeneration, Records, Generations
<1>6. TypeOK'
  <2>1. source' \in [Sessions -> Sources \cup {Nothing}]
    <3>1. \A s \in Sessions : source'[s] =
              IF s \in d.sources /\ Known(s) /\ source[s].localId \in {NoId, id}
              THEN [title |-> r.title, localId |-> id] ELSE source[s]
      BY DEF RestoreDeletedScenario, WriteRestored
    <3>2. [title |-> r.title, localId |-> id] \in Sources
      BY <1>1, <1>3 DEF Sources, Records
    <3>3. source' = [s \in Sessions |-> source'[s]]
      BY DEF RestoreDeletedScenario, WriteRestored
    <3>4. \A s \in Sessions : source'[s] \in Sources \cup {Nothing}
      <4> HIDE DEF d, id, r
      <4> QED BY <3>1, <3>2 DEF IInv, TypeOK
    <3> QED BY <3>3, <3>4
  <2>2. 0 \in Generations /\ r.generation \in Generations
    <3> HIDE DEF r
    <3> QED BY <1>3, StoreAssumption DEF Generations, Records
  <2> QED BY <1>1, <1>2, <1>3, <2>1, <2>2 DEF IInv, TypeOK
<1>7. Safety'
  BY <1>1, <1>2, <1>3, <1>4, <1>5
     DEF IInv, TypeOK, Safety, GenerationInForce, ActiveIsStored, FencedContent, NoRenameLost,
         Stored
<1>8. EpochIsGeneration' /\ NeverStored'
  BY <1>1, <1>2, <1>3 DEF IInv, TypeOK, EpochIsGeneration, NeverStored, Stored
<1>9. HeldBehind'
  BY <1>1, <1>2, <1>3, <1>5 DEF IInv, TypeOK, HeldBehind, Copies, Generations
<1>10. UndoBehind'
  <2> SUFFICES ASSUME NEW u \in Tabs, undo'[u] # Nothing
               PROVE  /\ undo'[u].record.of + 1 = undo'[u].generation
                      /\ undo'[u].generation <= generation'[undo'[u].id]
                      /\ tombstone'[undo'[u].id] = undo'[u].generation
                            => undo'[u].record.title = renames'[undo'[u].id]
    BY DEF UndoBehind
  <2>1. u # t /\ undo'[u] = undo[u] /\ undo[u] \in Deletions
    BY <1>2 DEF IInv, TypeOK
  <2>2. undo[u].id \in Ids /\ undo[u].generation \in Nat /\ undo[u].record.of \in Nat
    BY <2>1, StoreAssumption DEF Deletions, Generations, Records
  <2>3. undo[u].generation # 0
    BY <2>1, <2>2 DEF IInv, UndoBehind
  <2> QED BY <1>1, <1>2, <1>3, <1>5, <2>1, <2>2, <2>3
          DEF IInv, TypeOK, UndoBehind, Generations
<1> QED BY <1>6, <1>7, <1>8, <1>9, <1>10 DEF IInv

LEMMA OtherIInv ==
    ASSUME IInv,
           \/ \E t \in Tabs : UndoGone(t) \/ RememberShareSource(t)
           \/ \E s \in Sessions : ForgetShareSource(s)
           \/ UNCHANGED vars
    PROVE  IInv'
<1> USE DEF storeVars, tabVars
<1>1. /\ UNCHANGED <<scenario, generation, tombstone, active, held, epoch, renames>>
      /\ \A u \in Tabs : undo'[u] = undo[u] \/ undo'[u] = Nothing
      /\ undo' \in [Tabs -> Deletions \cup {Nothing}]
  BY DEF IInv, TypeOK, UndoGone, RememberShareSource, ForgetShareSource, vars
<1>2. source' \in [Sessions -> Sources \cup {Nothing}]
  <2>1. ASSUME NEW t \in Tabs, RememberShareSource(t)
        PROVE  source' \in [Sessions -> Sources \cup {Nothing}]
    <3>1. held[t] \in Copies /\ held[t].id \in Ids /\ held[t].title \in Titles
      BY <2>1 DEF IInv, TypeOK, RememberShareSource, Copies
    <3>2. Visible(held[t].id) =>
              [title |-> scenario[held[t].id].title, localId |-> held[t].id] \in Sources
      BY <3>1 DEF IInv, TypeOK, Visible, Stored, Records, Sources
    <3>3. [title |-> held[t].title, localId |-> NoId] \in Sources
      BY <3>1 DEF Sources
    <3> QED BY <2>1, <3>2, <3>3 DEF IInv, TypeOK, RememberShareSource
  <2> QED BY <2>1 DEF IInv, TypeOK, UndoGone, ForgetShareSource, vars
<1>3. TypeOK'
  BY <1>1, <1>2 DEF IInv, TypeOK
<1>4. Safety'
  BY <1>1 DEF IInv, Safety, GenerationInForce, ActiveIsStored, FencedContent, NoRenameLost,
     Stored
<1>5. EpochIsGeneration' /\ HeldBehind' /\ UndoBehind' /\ NeverStored'
  BY <1>1 DEF IInv, EpochIsGeneration, HeldBehind, UndoBehind, NeverStored, Stored
<1> QED BY <1>3, <1>4, <1>5 DEF IInv

(* What saveScenario prunes was stored, and is neither the saved record nor *)
(* the active one.                                                          *)
LEMMA PrunedIsOther ==
    ASSUME NEW recs, NEW id, NEW current, NEW P \in PrunedSets(recs, id, current)
    PROVE  /\ P \in SUBSET Ids
           /\ \A p \in P : recs[p] # Nothing /\ p # id /\ p # current
  BY DEF PrunedSets, Prunable

LEMMA SaveIInv ==
    ASSUME IInv, NEW t \in Tabs, NEW makeActive \in BOOLEAN, NEW advance \in BOOLEAN,
           SaveScenario(t, makeActive, advance)
    PROVE  IInv'
<1> DEFINE c       == held[t]
           id      == c.id
           current == IF makeActive THEN id ELSE active
<1>1. PICK session \in Sessions \cup {NoSession}, dirty \in BOOLEAN, P \in SUBSET Ids :
          /\ WriteSaved(id, SavedRecord(c, session, dirty, advance), P, current, advance)
          /\ held' = [held EXCEPT ![t].session = session]
  BY DEF SaveScenario, IInv, TypeOK, Copies
<1> DEFINE r    == SavedRecord(c, session, dirty, advance)
           recs == [scenario EXCEPT ![id] = r]
<1>2. /\ c \in Copies /\ c # Nothing /\ id \in Ids
      /\ tombstone[id] = 0 /\ c.generation >= generation[id]
      /\ Next1(c.generation, advance) <= MaxGeneration
      /\ UNCHANGED <<undo, renames>>
  BY DEF SaveScenario, IInv, TypeOK, Copies, Accepts
<1>3. /\ c.generation \in Nat /\ c.title \in Nat /\ c.of = c.generation
      /\ c.generation = generation[id] /\ c.title <= renames[id]
  BY <1>2, StoreAssumption DEF IInv, TypeOK, HeldBehind, Copies, Generations, Titles
<1>4. MergedTitle(c) = renames[id]
  <2>1. CASE Stored(id)
    BY <1>2, <1>3, <2>1, StoreAssumption
       DEF IInv, TypeOK, Safety, NoRenameLost, MergedTitle, Larger, Titles
  <2>2. CASE ~Stored(id)
    BY <1>2, <1>3, <2>2 DEF IInv, TypeOK, NeverStored, MergedTitle
  <2> QED BY <2>1, <2>2
<1>5. /\ r = [generation |-> Next1(generation[id], advance), title |-> renames[id],
              session |-> session, dirty |-> dirty, of |-> Next1(generation[id], advance)]
      /\ Next1(generation[id], advance) \in Generations
      /\ Next1(generation[id], advance) \in Nat
  BY <1>2, <1>3, <1>4, StoreAssumption DEF SavedRecord, Larger, Next1, Generations
<1>6. /\ r \in Records /\ r # Nothing
      /\ r.generation = Next1(generation[id], advance)
      /\ r.of = Next1(generation[id], advance) /\ r.title = renames[id]
  <2>1. renames[id] \in Titles
    BY <1>2 DEF IInv, TypeOK
  <2>2. r \in Records
    <3> DEFINE g == Next1(generation[id], advance)
    <3>1. g \in Generations /\ g \in Nat
      BY <1>5
    <3> HIDE DEF g
    <3>2. [generation |-> g, title |-> renames[id], session |-> session, dirty |-> dirty,
           of |-> g] \in Records
      BY <2>1, <3>1, IsRecord
    <3> QED BY <1>5, <3>2 DEF g
  <2> QED BY <1>5, <2>2, NotNothing
<1>7. /\ P \in SUBSET Ids /\ id \notin P
      /\ \A p \in P : /\ p # current /\ recs[p] = scenario[p] /\ scenario[p] # Nothing
                      /\ scenario[p].generation = generation[p]
                      /\ generation[p] \in Nat /\ generation[p] + 1 \in Generations
  <2>0. P \in PrunedSets(recs, id, current)
    BY <1>1 DEF WriteSaved
  <2>1. P \in SUBSET Ids /\ \A p \in P : recs[p] # Nothing /\ p # id /\ p # current
    <3> HIDE DEF recs, id, current
    <3> QED BY <2>0, PrunedIsOther
  <2>2. ASSUME NEW p \in P
        PROVE  /\ recs[p] = scenario[p] /\ scenario[p] # Nothing
               /\ scenario[p].generation = generation[p]
    <3>1. recs[p] = scenario[p] /\ scenario[p] # Nothing
      BY <2>1 DEF IInv, TypeOK
    <3> QED BY <2>1, <3>1 DEF IInv, Safety, GenerationInForce, Stored
  <2>3. \A p \in P : generation[p] \in Nat /\ generation[p] + 1 \in Generations
    BY <1>1, <2>1, <2>2, StoreAssumption DEF IInv, TypeOK, Generations, WriteSaved
  <2> QED BY <2>1, <2>2, <2>3
(* The new state, scenario by scenario. *)
<1> HIDE DEF r
<1>8. ASSUME NEW i \in Ids
      PROVE  /\ i \in P => /\ scenario'[i] = Nothing
                           /\ generation'[i] = generation[i] + 1
                           /\ tombstone'[i] = generation[i] + 1
                           /\ epoch'[i] = epoch[i] + 1
             /\ i = id => /\ scenario'[i] = r
                          /\ generation'[i] = Next1(generation[i], advance)
                          /\ tombstone'[i] = 0
                          /\ epoch'[i] = Next1(epoch[i], advance)
             /\ i \notin P /\ i # id => /\ scenario'[i] = scenario[i]
                                        /\ generation'[i] = generation[i]
                                        /\ tombstone'[i] = tombstone[i]
                                        /\ epoch'[i] = epoch[i]
  BY <1>1, <1>2, <1>6, <1>7 DEF IInv, TypeOK, Next1, r, WriteSaved
<1>9. TypeOK'
  <2>1. scenario' \in [Ids -> Records \cup {Nothing}]
    <3>1. \A i \in Ids : scenario'[i] \in Records \cup {Nothing}
      BY <1>6, <1>8 DEF IInv, TypeOK
    <3> QED BY <1>1, <3>1 DEF WriteSaved
  <2>2. generation' \in [Ids -> Generations]
    <3>1. \A i \in Ids : generation'[i] \in Generations
      BY <1>5, <1>7, <1>8 DEF IInv, TypeOK
    <3> QED BY <1>1, <3>1 DEF WriteSaved
  <2>3. tombstone' \in [Ids -> Generations]
    <3>1. \A i \in Ids : tombstone'[i] \in Generations
      BY <1>2, <1>7, <1>8 DEF IInv, TypeOK
    <3> QED BY <1>1, <3>1 DEF WriteSaved
  <2>4. epoch' \in [Ids -> Nat]
    <3>1. \A i \in Ids : epoch'[i] \in Nat
      BY <1>8 DEF IInv, TypeOK, Next1
    <3> QED BY <1>1, <3>1 DEF WriteSaved
  <2>5. active' \in Ids \cup {NoId}
    BY <1>1, <1>2 DEF WriteSaved, IInv, TypeOK
  <2>6. source' \in [Sessions -> Sources \cup {Nothing}]
    <3>1. [title |-> r.title, localId |-> id] \in Sources
      BY <1>2, <1>6 DEF Sources, IInv, TypeOK
    <3>2. SourcesSaved(r, id) \in [Sessions -> Sources \cup {Nothing}]
      BY <3>1 DEF SourcesSaved, IInv, TypeOK
    <3>3. ASSUME NEW src \in [Sessions -> Sources \cup {Nothing}]
          PROVE  SourcesPruned(src, P) \in [Sessions -> Sources \cup {Nothing}]
      <4>1. \A q \in Sources : [q EXCEPT !.localId = NoId] \in Sources
        BY DEF Sources
      <4> QED BY <4>1 DEF SourcesPruned
    <3>4. source' = SourcesPruned(SourcesSaved(r, id), P)
      BY <1>1 DEF WriteSaved, r
    <3> QED BY <3>2, <3>3, <3>4
  <2>7. held' \in [Tabs -> Copies \cup {Nothing}]
    <3>1. [c EXCEPT !.session = session] \in Copies
      BY <1>2 DEF Copies
    <3> QED BY <1>1, <3>1 DEF IInv, TypeOK
  <2> QED BY <1>2, <2>1, <2>2, <2>3, <2>4, <2>5, <2>6, <2>7 DEF IInv, TypeOK
<1>10. Safety'
  <2>1. GenerationInForce'
    BY <1>2, <1>6, <1>7, <1>8 DEF GenerationInForce, Safety, IInv, Stored
  <2>2. ActiveIsStored'
    <3>1. active' = current
      BY <1>1 DEF WriteSaved
    <3>2. CASE makeActive
      BY <1>2, <1>6, <1>7, <1>8, <3>1, <3>2 DEF ActiveIsStored, Stored
    <3>3. CASE ~makeActive
      BY <1>2, <1>6, <1>7, <1>8, <3>1, <3>3
         DEF ActiveIsStored, Safety, IInv, TypeOK, Stored
    <3> QED BY <3>2, <3>3
  <2>3. FencedContent'
    BY <1>2, <1>6, <1>7, <1>8
       DEF FencedContent, Safety, IInv, EpochIsGeneration, Stored, Next1
  <2>4. NoRenameLost'
    BY <1>2, <1>6, <1>7, <1>8 DEF NoRenameLost, Safety, IInv, Stored
  <2> QED BY <2>1, <2>2, <2>3, <2>4 DEF Safety
<1>11. EpochIsGeneration'
  BY <1>2, <1>7, <1>8 DEF EpochIsGeneration, IInv
<1>12. NeverStored'
  <2> SUFFICES ASSUME NEW i \in Ids, scenario'[i] = Nothing, tombstone'[i] = 0
               PROVE  generation'[i] = 0 /\ renames'[i] = 0
    BY DEF NeverStored, Stored
  <2>1. i \notin P /\ i # id
    BY <1>6, <1>7, <1>8
  <2> QED BY <1>2, <1>8, <2>1 DEF NeverStored, IInv, Stored
<1>13. \A i \in Ids : generation'[i] >= generation[i] /\ generation'[i] \in Nat
                     /\ generation[i] \in Nat
  BY <1>7, <1>8, StoreAssumption DEF IInv, TypeOK, Generations, Next1
<1>14. HeldBehind'
  <2> SUFFICES ASSUME NEW u \in Tabs, held'[u] # Nothing
               PROVE  /\ held'[u].of = held'[u].generation
                      /\ held'[u].generation <= generation'[held'[u].id]
                      /\ held'[u].title <= renames'[held'[u].id]
    BY DEF HeldBehind
  <2>1. /\ held[u] \in Copies /\ held'[u].of = held[u].of /\ held'[u].id = held[u].id
        /\ held'[u].generation = held[u].generation /\ held'[u].title = held[u].title
    BY <1>1, <1>2 DEF IInv, TypeOK, Copies
  <2>2. held[u] # Nothing /\ held[u].id \in Ids /\ held[u].generation \in Nat
    BY <2>1, NotNothing, StoreAssumption DEF Copies, Generations
  <2> QED BY <1>2, <1>13, <2>1, <2>2 DEF IInv, HeldBehind
<1>15. UndoBehind'
  <2> SUFFICES ASSUME NEW u \in Tabs, undo[u] # Nothing
               PROVE  LET d == undo[u] IN
                      /\ d.record.of + 1 = d.generation
                      /\ d.generation <= generation'[d.id]
                      /\ tombstone'[d.id] = d.generation => d.record.title = renames[d.id]
    BY <1>2 DEF UndoBehind
  <2>1. undo[u].id \in Ids /\ undo[u].generation \in Nat
    BY StoreAssumption DEF IInv, TypeOK, Deletions, Generations
  <2>2. undo[u].record.of + 1 = undo[u].generation
        /\ undo[u].generation <= generation[undo[u].id]
        /\ (tombstone[undo[u].id] = undo[u].generation
               => undo[u].record.title = renames[undo[u].id])
        /\ undo[u].record.of \in Nat
    BY DEF IInv, UndoBehind, TypeOK, Deletions, Records
  <2>3. tombstone'[undo[u].id] = undo[u].generation
           => tombstone[undo[u].id] = undo[u].generation
    BY <1>2, <1>7, <1>8, <1>13, <2>1, <2>2
  <2> QED BY <1>13, <2>1, <2>2, <2>3
<1> QED BY <1>9, <1>10, <1>11, <1>12, <1>14, <1>15 DEF IInv

(* Every reachable state of the store satisfies the inductive invariant, so *)
(* that no order of reads, saves, renames, removals, undos and prunings by  *)
(* any number of tabs leads out of it.                                      *)
THEOREM Invariant == Spec => []IInv
<1>1. IInv /\ [Next]_vars => IInv'
  <2> SUFFICES ASSUME IInv, [Next]_vars PROVE IInv'
    OBVIOUS
  <2>1. ASSUME NEW t \in Tabs, NEW id \in Ids, Read(t, id) \/ NewScenario(t, id) PROVE IInv'
    BY <2>1, ReadIInv
  <2>2. ASSUME NEW t \in Tabs, NEW id \in Ids, DeleteScenario(t, id) PROVE IInv'
    BY <2>2, DeleteIInv
  <2>3. ASSUME NEW t \in Tabs, NEW makeActive \in BOOLEAN, NEW advance \in BOOLEAN,
               SaveScenario(t, makeActive, advance)
        PROVE  IInv'
    BY <2>3, SaveIInv
  <2>4. ASSUME NEW t \in Tabs, SetActiveScenario(t) PROVE IInv'
    BY <2>4, SetActiveIInv
  <2>5. ASSUME NEW t \in Tabs, RenameScenario(t) PROVE IInv'
    BY <2>5, RenameIInv
  <2>6. ASSUME NEW t \in Tabs, RestoreDeletedScenario(t) PROVE IInv'
    BY <2>6, RestoreIInv
  <2>7. ASSUME \/ \E t \in Tabs : UndoGone(t) \/ RememberShareSource(t)
               \/ \E s \in Sessions : ForgetShareSource(s)
               \/ UNCHANGED vars
        PROVE  IInv'
    BY <2>7, OtherIInv
  <2> QED BY <2>1, <2>2, <2>3, <2>4, <2>5, <2>6, <2>7 DEF Next
<1> QED BY InitIInv, <1>1, PTL DEF Spec

(* The types of the store and of the tabs' copies. *)
THEOREM TypeCorrect == Spec => []TypeOK
<1>1. IInv => TypeOK
  BY DEF IInv
<1> QED BY Invariant, <1>1, PTL

(* Tombstone, record and generation of a scenario stay in step. *)
THEOREM GenerationsAgree == Spec => []GenerationInForce
<1>1. IInv => GenerationInForce
  BY DEF IInv, Safety
<1> QED BY Invariant, <1>1, PTL

(* The active pointer never dangles, whoever removes or prunes. *)
THEOREM ActiveNeverDangles == Spec => []ActiveIsStored
<1>1. IInv => ActiveIsStored
  BY DEF IInv, Safety
<1> QED BY Invariant, <1>1, PTL

(* No write based on a copy from before a removal, an undo or a handover    *)
(* reaches the store after it.                                              *)
THEOREM StaleWritesFenced == Spec => []FencedContent
<1>1. IInv => FencedContent
  BY DEF IInv, Safety
<1> QED BY Invariant, <1>1, PTL

(* Every committed rename is in force, whatever older copies were saved     *)
(* since, and whatever was removed and restored.                            *)
THEOREM RenamesKept == Spec => []NoRenameLost
<1>1. IInv => NoRenameLost
  BY DEF IInv, Safety
<1> QED BY Invariant, <1>1, PTL

-----------------------------------------------------------------------------
(* A step that takes a dirty record away leaves somebody the means to bring *)
(* it back: it is a removal, for pruning takes clean records only.          *)
THEOREM DirtyKept == Spec => DirtyNeverPruned
<1> DEFINE Kept == \A id \in Ids :
        Stored(id) /\ scenario[id].dirty /\ ~Stored(id)'
            => \E t \in Tabs : undo'[t] # Nothing /\ undo'[t].record = scenario[id]
<1>1. IInv /\ [Next]_vars => Kept
  <2> SUFFICES ASSUME IInv, [Next]_vars, NEW i \in Ids, Stored(i), scenario[i].dirty, ~Stored(i)'
               PROVE  \E t \in Tabs : undo'[t] # Nothing /\ undo'[t].record = scenario[i]
    OBVIOUS
  <2> USE DEF storeVars, tabVars, Stored
  <2>1. ASSUME NEW t \in Tabs, NEW id \in Ids, DeleteScenario(t, id)
        PROVE  undo'[t] # Nothing /\ undo'[t].record = scenario[i]
    <3>1. id = i /\ undo' = [undo EXCEPT ![t] = Deletion(id)]
      BY <2>1 DEF DeleteScenario, WriteDeleted, IInv, TypeOK
    <3>2. /\ scenario[id] \in Records /\ DeletionGeneration(id) \in Generations
          /\ Attached(id) \in SUBSET Sessions
      BY <2>1, <3>1, StoreAssumption DEF IInv, TypeOK, DeleteScenario, WriteDeleted,
         DeletionGeneration, Larger, Generations, Attached, Records
    <3>3. Deletion(id) \in Deletions /\ Deletion(id).record = scenario[id]
      BY <3>2 DEF Deletion, Deletions
    <3> QED BY <3>1, <3>3, NotNothing DEF IInv, TypeOK
  <2>2. ASSUME NEW t \in Tabs, NEW makeActive \in BOOLEAN, NEW advance \in BOOLEAN,
               SaveScenario(t, makeActive, advance)
        PROVE  FALSE
    <3>1. held[t] \in Copies /\ held[t].id \in Ids
      BY <2>2 DEF SaveScenario, IInv, TypeOK, Copies
    <3>2. PICK session \in Sessions \cup {NoSession}, dirty \in BOOLEAN, P \in SUBSET Ids :
              WriteSaved(held[t].id, SavedRecord(held[t], session, dirty, advance), P,
                         IF makeActive THEN held[t].id ELSE active, advance)
      BY <2>2, <3>1 DEF SaveScenario, Copies
    <3> DEFINE id == held[t].id
               r == SavedRecord(held[t], session, dirty, advance)
               recs == [scenario EXCEPT ![id] = r]
               current == IF makeActive THEN id ELSE active
    <3>4. P \in PrunedSets(recs, id, current)
          /\ scenario' = [j \in Ids |-> IF j \in P THEN Nothing ELSE recs[j]]
      BY <3>2 DEF WriteSaved
    <3>5. \A p \in P : p # id /\ ~recs[p].dirty
      <4> HIDE DEF recs, id, current
      <4> QED BY <3>4 DEF PrunedSets, Prunable
    <3>6. i # id => recs[i] = scenario[i]
      BY DEF IInv, TypeOK
    <3>7. i \notin P
      BY <3>5, <3>6
    <3>8. r # Nothing
      <4>1. \E keep \in SUBSET {j \in Ids : recs[j] # Nothing} : id \in keep
        <5> HIDE DEF recs, id, current
        <5> QED BY <3>4 DEF PrunedSets
      <4> QED BY <3>1, <4>1 DEF IInv, TypeOK
    <3>9. scenario'[i] # Nothing
      BY <3>4, <3>6, <3>7, <3>8 DEF IInv, TypeOK
    <3> QED BY <3>9
  <2>3. ASSUME NEW t \in Tabs,
               \/ \E id \in Ids : Read(t, id) \/ NewScenario(t, id)
               \/ SetActiveScenario(t) \/ UndoGone(t) \/ RememberShareSource(t)
        PROVE  FALSE
    BY <2>3 DEF Read, NewScenario, SetActiveScenario, UndoGone, RememberShareSource
  <2>4. ASSUME NEW t \in Tabs, RenameScenario(t)
        PROVE  FALSE
    <3>1. IInv' /\ held[t].id \in Ids
      BY <2>4, RenameIInv DEF RenameScenario, IInv, TypeOK, Copies
    <3> DEFINE id == held[t].id
               r  == [scenario[id] EXCEPT !.title = @ + 1]
    <3>2. scenario' = [scenario EXCEPT ![id] = r] /\ scenario[id] \in Records
      BY <2>4, <3>1 DEF RenameScenario, Visible, IInv, TypeOK
    <3>3. r \in Records
      <4>1. scenario[id].title + 1 \in Titles
        BY <2>4, <3>2, StoreAssumption DEF RenameScenario, Records, Titles
      <4> QED BY <3>2, <4>1 DEF Records
    <3> QED BY <3>1, <3>2, <3>3, NotNothing DEF IInv, TypeOK
  <2>5. ASSUME NEW t \in Tabs, RestoreDeletedScenario(t)
        PROVE  FALSE
    <3>1. ~Stored(undo[t].id) /\ \A j \in Ids : j # undo[t].id => scenario'[j] = scenario[j]
      BY <2>5 DEF RestoreDeletedScenario, WriteRestored, Restorable, IInv, TypeOK
    <3> QED BY <3>1
  <2>6. ASSUME (\E s \in Sessions : ForgetShareSource(s)) \/ UNCHANGED vars
        PROVE  FALSE
    BY <2>6 DEF ForgetShareSource, vars
  <2> QED BY <2>1, <2>2, <2>3, <2>4, <2>5, <2>6 DEF Next
<1>2. IInv /\ [Next]_vars => [Kept]_vars
  BY <1>1
<1> QED BY Invariant, <1>2, PTL DEF Spec, DirtyNeverPruned

-----------------------------------------------------------------------------
(* A scenario that a removal took away, and that can still be brought back, *)
(* has no source: a source that deleteScenario detached is attached again   *)
(* by the restoration only, which gives it the title.                       *)
UndoDetached ==
    \A t \in Tabs : undo[t] # Nothing /\ tombstone[undo[t].id] = undo[t].generation
        => \A s \in Sessions : Known(s) => source[s].localId # undo[t].id

SInv == IInv /\ SourceTitled /\ UndoDetached

LEMMA InitSInv == Init => SInv
<1> SUFFICES ASSUME Init PROVE SInv
  OBVIOUS
<1>1. IInv
  BY InitIInv
<1>2. SourceTitled
  <2> SUFFICES ASSUME NEW s \in Sessions, NEW id \in Ids, Known(s), source[s].localId = id,
                      Stored(id), scenario[id].session = s
               PROVE  source[s].title = scenario[id].title
    BY DEF SourceTitled
  <2> QED BY DEF Init, Known, Stored
<1>3. UndoDetached
  BY DEF UndoDetached, Init
<1> QED BY <1>1, <1>2, <1>3 DEF SInv

(* The steps that write neither records nor sources, or sources only. *)
LEMMA OtherSInv ==
    ASSUME SInv,
           \/ \E t \in Tabs :
                \/ \E id \in Ids : Read(t, id) \/ NewScenario(t, id)
                \/ SetActiveScenario(t) \/ UndoGone(t) \/ RememberShareSource(t)
           \/ \E s \in Sessions : ForgetShareSource(s)
           \/ UNCHANGED vars
    PROVE  SourceTitled' /\ UndoDetached'
<1> USE DEF SInv, storeVars, tabVars
<1>1. /\ UNCHANGED <<scenario, tombstone>>
      /\ \A u \in Tabs : undo'[u] = undo[u] \/ undo'[u] = Nothing
  BY DEF IInv, TypeOK, Read, NewScenario, SetActiveScenario, UndoGone, RememberShareSource,
     ForgetShareSource, vars
<1>2. ASSUME NEW s \in Sessions, Known(s)'
      PROVE  \/ Known(s) /\ source'[s] = source[s]
             \/ source'[s].localId = NoId
             \/ \E id \in Ids : /\ tombstone[id] = 0 /\ scenario[id].session = s
                                /\ source'[s] = [title |-> scenario[id].title, localId |-> id]
  <2>1. CASE source' = source
    BY <1>2, <2>1 DEF Known
  <2>2. ASSUME NEW q \in Sessions, ForgetShareSource(q)
        PROVE  Known(s) /\ source'[s] = source[s]
    BY <1>2, <2>2 DEF Known, ForgetShareSource, IInv, TypeOK
  <2>3. ASSUME NEW t \in Tabs, RememberShareSource(t), source'[s] # source[s]
        PROVE  \/ source'[s].localId = NoId
               \/ \E id \in Ids : /\ tombstone[id] = 0 /\ scenario[id].session = s
                                  /\ source'[s] = [title |-> scenario[id].title, localId |-> id]
    <3> DEFINE c == held[t]
    <3>1. c \in Copies /\ c.id \in Ids /\ c.session = s
      BY <2>3 DEF IInv, TypeOK, RememberShareSource, Copies
    <3>2. source'[s] = IF Visible(c.id) /\ scenario[c.id].session = c.session
                       THEN [title |-> scenario[c.id].title, localId |-> c.id]
                       ELSE [title |-> c.title, localId |-> NoId]
      BY <2>3, <3>1 DEF RememberShareSource, IInv, TypeOK
    <3> QED BY <3>1, <3>2 DEF Visible
  <2> QED BY <2>1, <2>2, <2>3, <1>2
          DEF Read, NewScenario, SetActiveScenario, UndoGone, vars, Known
<1>3. SourceTitled'
  <2> SUFFICES ASSUME NEW s \in Sessions, NEW id \in Ids, Known(s)', source'[s].localId = id,
                      scenario[id] # Nothing, scenario[id].session = s
               PROVE  source'[s].title = scenario[id].title
    BY <1>1 DEF SourceTitled, Stored
  <2>1. CASE Known(s) /\ source'[s] = source[s]
    BY <2>1 DEF SourceTitled, Stored
  <2>2. CASE source'[s].localId = NoId
    BY <2>2, StoreAssumption
  <2>3. ASSUME NEW j \in Ids, source'[s] = [title |-> scenario[j].title, localId |-> j]
        PROVE  source'[s].title = scenario[id].title
    BY <2>3
  <2> QED BY <1>2, <2>1, <2>2, <2>3
<1>4. UndoDetached'
  <2> SUFFICES ASSUME NEW t \in Tabs, undo'[t] # Nothing,
                      tombstone'[undo'[t].id] = undo'[t].generation,
                      NEW s \in Sessions, Known(s)'
               PROVE  source'[s].localId # undo'[t].id
    BY DEF UndoDetached
  <2>1. /\ undo'[t] = undo[t] /\ undo[t].id \in Ids
        /\ tombstone[undo[t].id] = undo[t].generation /\ undo[t].generation \in Nat
        /\ undo[t].record.of \in Nat /\ undo[t].record.of + 1 = undo[t].generation
    BY <1>1, StoreAssumption DEF IInv, TypeOK, UndoBehind, Deletions, Records, Generations
  <2>2. undo[t].id # NoId /\ tombstone[undo[t].id] # 0
    BY <2>1, StoreAssumption
  <2>3. CASE Known(s) /\ source'[s] = source[s]
    BY <2>1, <2>3 DEF UndoDetached
  <2>4. CASE source'[s].localId = NoId
    BY <2>2, <2>4, <2>1
  <2>5. ASSUME NEW j \in Ids, tombstone[j] = 0,
               source'[s] = [title |-> scenario[j].title, localId |-> j]
        PROVE  source'[s].localId # undo'[t].id
    BY <2>1, <2>2, <2>5
  <2> QED BY <1>2, <2>3, <2>4, <2>5
<1> QED BY <1>3, <1>4

(* An undo handle whose tombstone is in force. *)
LEMMA Restorables ==
    ASSUME IInv, NEW t \in Tabs, undo[t] # Nothing
    PROVE  /\ undo[t].id \in Ids /\ undo[t].generation \in Nat \ {0}
           /\ undo[t].generation <= generation[undo[t].id]
           /\ undo[t].sources \in SUBSET Sessions
  BY StoreAssumption DEF IInv, TypeOK, UndoBehind, Deletions, Records, Generations

LEMMA SaveSInv ==
    ASSUME SInv, NEW t \in Tabs, NEW makeActive \in BOOLEAN, NEW advance \in BOOLEAN,
           SaveScenario(t, makeActive, advance)
    PROVE  SourceTitled' /\ UndoDetached'
<1> DEFINE id == held[t].id
           current == IF makeActive THEN id ELSE active
<1>1. IInv /\ held[t] \in Copies /\ id \in Ids /\ tombstone[id] = 0 /\ undo' = undo
  BY DEF SInv, SaveScenario, IInv, TypeOK, Copies, Accepts
<1>2. PICK session \in Sessions \cup {NoSession}, dirty \in BOOLEAN, P \in SUBSET Ids :
          WriteSaved(id, SavedRecord(held[t], session, dirty, advance), P, current, advance)
  BY <1>1 DEF SaveScenario, Copies
<1> DEFINE r == SavedRecord(held[t], session, dirty, advance)
           recs == [scenario EXCEPT ![id] = r]
           src == SourcesSaved(r, id)
<1>3. \A p \in P : recs[p] # Nothing /\ p # id
  <2>1. P \in PrunedSets(recs, id, current)
    BY <1>2 DEF WriteSaved
  <2> HIDE DEF recs, id, current
  <2> QED BY <2>1, PrunedIsOther
<1>4. ASSUME NEW i \in Ids
      PROVE  /\ i \in P => scenario'[i] = Nothing /\ tombstone'[i] = generation[i] + 1
             /\ i \notin P => /\ tombstone'[i] = tombstone[i]
                             /\ scenario'[i] = IF i = id THEN r ELSE scenario[i]
  BY <1>1, <1>2, <1>3 DEF WriteSaved, IInv, TypeOK, Safety, GenerationInForce, Stored
<1>5. ASSUME NEW s \in Sessions, Known(s)'
      PROVE  \/ source'[s].localId = NoId
             \/ Known(s) /\ s = r.session /\ source'[s] = [title |-> r.title, localId |-> id]
             \/ Known(s) /\ s # r.session /\ source'[s] = source[s]
  <2>1. source'[s] = IF src[s] # Nothing /\ \E p \in P : scenario[p].session = s
                     THEN [src[s] EXCEPT !.localId = NoId] ELSE src[s]
    BY <1>2 DEF WriteSaved, SourcesPruned
  <2>2. src[s] = IF s = r.session /\ Known(s) THEN [title |-> r.title, localId |-> id]
                 ELSE source[s]
    BY DEF SourcesSaved
  <2>3. source[s] \in Sources \cup {Nothing}
    BY <1>1 DEF IInv, TypeOK
  <2> HIDE DEF r, src, id
  <2>4. CASE s = r.session /\ Known(s)
    BY <2>1, <2>2, <2>4
  <2>5. CASE ~(s = r.session /\ Known(s))
    <3>1. src[s] = source[s]
      BY <2>2, <2>5
    <3>2. Known(s)
      BY <1>5, <2>1, <3>1 DEF Known
    <3>3. source[s] \in Sources
      BY <2>3, <3>2 DEF Known
    <3> QED BY <2>1, <2>5, <3>1, <3>2, <3>3 DEF Sources
  <2> QED BY <2>4, <2>5
<1> HIDE DEF r, id
<1>6. SourceTitled'
  <2> SUFFICES ASSUME NEW s \in Sessions, NEW i \in Ids, Known(s)', source'[s].localId = i,
                      scenario'[i] # Nothing, scenario'[i].session = s
               PROVE  source'[s].title = scenario'[i].title
    BY DEF SourceTitled, Stored
  <2>1. i \notin P /\ i # NoId
    BY <1>4, StoreAssumption
  <2>2. CASE s = r.session /\ source'[s] = [title |-> r.title, localId |-> id]
    BY <1>4, <2>1, <2>2
  <2>3. CASE Known(s) /\ s # r.session /\ source'[s] = source[s]
    BY <1>4, <2>1, <2>3 DEF SInv, SourceTitled, Stored
  <2> QED BY <1>5, <2>1, <2>2, <2>3
<1>7. UndoDetached'
  <2> SUFFICES ASSUME NEW u \in Tabs, undo[u] # Nothing,
                      tombstone'[undo[u].id] = undo[u].generation,
                      NEW s \in Sessions, Known(s)'
               PROVE  source'[s].localId # undo[u].id
    BY <1>1 DEF UndoDetached
  <2>1. /\ undo[u].id \in Ids /\ undo[u].generation \in Nat \ {0}
        /\ undo[u].generation <= generation[undo[u].id]
        /\ generation[undo[u].id] \in Nat
    BY <1>1, Restorables, StoreAssumption DEF IInv, TypeOK, Generations
  <2>2. undo[u].id \notin P /\ undo[u].id # id /\ undo[u].id # NoId
        /\ tombstone[undo[u].id] = undo[u].generation
    BY <1>1, <1>4, <2>1, StoreAssumption
  <2>3. Known(s) => source[s].localId # undo[u].id
    BY <2>2 DEF SInv, UndoDetached
  <2> QED BY <1>5, <2>2, <2>3
<1> QED BY <1>6, <1>7

LEMMA RenameSInv ==
    ASSUME SInv, NEW t \in Tabs, RenameScenario(t)
    PROVE  SourceTitled' /\ UndoDetached'
<1> DEFINE id == held[t].id
           title == scenario[id].title + 1
<1>1. /\ IInv /\ id \in Ids /\ scenario[id] \in Records
      /\ scenario' = [scenario EXCEPT ![id].title = title]
      /\ UNCHANGED <<tombstone, undo>>
  BY DEF SInv, RenameScenario, Visible, Stored, IInv, TypeOK, Copies, tabVars
<1>2. ASSUME NEW s \in Sessions, Known(s)'
      PROVE  /\ Known(s) /\ source'[s].localId = source[s].localId
             /\ source'[s].title = IF s = scenario[id].session /\ source[s].localId = id
                                   THEN title ELSE source[s].title
  <2>1. source[s] \in Sources \cup {Nothing}
        /\ source'[s] = IF s = scenario[id].session /\ Known(s) /\ source[s].localId = id
                        THEN [source[s] EXCEPT !.title = title] ELSE source[s]
    BY <1>1 DEF RenameScenario, IInv, TypeOK
  <2>2. Known(s) /\ source[s] \in Sources
    BY <1>2, <2>1 DEF Known
  <2> HIDE DEF title, id
  <2> QED BY <2>1, <2>2 DEF Sources
<1>3. SourceTitled'
  <2> SUFFICES ASSUME NEW s \in Sessions, NEW i \in Ids, Known(s)', source'[s].localId = i,
                      scenario'[i] # Nothing, scenario'[i].session = s
               PROVE  source'[s].title = scenario'[i].title
    BY DEF SourceTitled, Stored
  <2>1. CASE i = id
    <3>1. scenario'[i].title = title /\ scenario'[i].session = scenario[id].session
      BY <1>1, <2>1 DEF IInv, TypeOK, Records
    <3> QED BY <1>2, <2>1, <3>1
  <2>2. CASE i # id
    <3>1. scenario'[i] = scenario[i]
      BY <1>1, <2>2 DEF IInv, TypeOK
    <3> QED BY <1>2, <2>2, <3>1 DEF SInv, SourceTitled, Stored
  <2> QED BY <2>1, <2>2
<1>4. UndoDetached'
  BY <1>1, <1>2 DEF SInv, UndoDetached
<1> QED BY <1>3, <1>4

LEMMA DeleteSInv ==
    ASSUME SInv, NEW t \in Tabs, NEW id \in Ids, DeleteScenario(t, id)
    PROVE  SourceTitled' /\ UndoDetached'
<1> DEFINE g == DeletionGeneration(id)
<1>1. /\ IInv
      /\ scenario' = [scenario EXCEPT ![id] = Nothing]
      /\ tombstone' = [tombstone EXCEPT ![id] = g]
      /\ undo' = [undo EXCEPT ![t] = Deletion(id)]
  BY DEF SInv, DeleteScenario, WriteDeleted
<1>2. g = generation[id] + 1 /\ generation[id] \in Nat
  BY StoreAssumption DEF SInv, IInv, TypeOK, Safety, GenerationInForce, DeleteScenario,
     WriteDeleted, DeletionGeneration, Larger, Stored, Generations
<1>3. ASSUME NEW s \in Sessions, Known(s)'
      PROVE  /\ Known(s) /\ source'[s].localId # id
             /\ source[s].localId # id => source'[s] = source[s]
             /\ source[s].localId = id => source'[s].localId = NoId
  <2>1. /\ source[s] \in Sources \cup {Nothing}
        /\ source'[s] = IF Known(s) /\ source[s].localId = id
                        THEN [source[s] EXCEPT !.localId = NoId] ELSE source[s]
    BY DEF DeleteScenario, WriteDeleted, Attached, SInv, IInv, TypeOK
  <2>2. Known(s) /\ source[s] \in Sources
    BY <1>3, <2>1 DEF Known
  <2> QED BY <2>1, <2>2, StoreAssumption DEF Sources
<1>4. SourceTitled'
  <2> SUFFICES ASSUME NEW s \in Sessions, NEW i \in Ids, Known(s)', source'[s].localId = i,
                      scenario'[i] # Nothing, scenario'[i].session = s
               PROVE  source'[s].title = scenario'[i].title
    BY DEF SourceTitled, Stored
  <2>1. i # id /\ scenario'[i] = scenario[i] /\ i # NoId
    BY <1>1, StoreAssumption DEF IInv, TypeOK
  <2> QED BY <1>3, <2>1 DEF SInv, SourceTitled, Stored
<1>5. UndoDetached'
  <2> SUFFICES ASSUME NEW u \in Tabs, undo'[u] # Nothing,
                      tombstone'[undo'[u].id] = undo'[u].generation,
                      NEW s \in Sessions, Known(s)'
               PROVE  source'[s].localId # undo'[u].id
    BY DEF UndoDetached
  <2>1. CASE u = t
    <3>1. undo'[u].id = id
      BY <1>1, <2>1 DEF Deletion, IInv, TypeOK
    <3> QED BY <1>3, <3>1
  <2>2. CASE u # t
    <3>1. undo'[u] = undo[u]
      BY <1>1, <2>2 DEF IInv, TypeOK
    <3>2. /\ undo[u].id \in Ids /\ undo[u].generation \in Nat
          /\ undo[u].generation <= generation[undo[u].id]
      BY <1>1, <3>1, Restorables
    <3> HIDE DEF g
    <3>3. undo[u].id # id
      BY <1>1, <1>2, <3>1, <3>2 DEF IInv, TypeOK
    <3>4. tombstone[undo[u].id] = undo[u].generation /\ undo[u].id # NoId
      BY <1>1, <3>1, <3>2, <3>3, StoreAssumption DEF IInv, TypeOK
    <3> QED BY <1>3, <3>1, <3>4 DEF SInv, UndoDetached
  <2> QED BY <2>1, <2>2
<1> QED BY <1>4, <1>5

LEMMA RestoreSInv ==
    ASSUME SInv, NEW t \in Tabs, RestoreDeletedScenario(t)
    PROVE  SourceTitled' /\ UndoDetached'
<1> DEFINE d  == undo[t]
           id == d.id
           r  == [d.record EXCEPT !.generation = generation[id] + 1, !.of = @ + 2]
<1>1. /\ IInv /\ d # Nothing /\ id \in Ids /\ tombstone[id] = d.generation
      /\ scenario' = [scenario EXCEPT ![id] = r]
      /\ tombstone' = [tombstone EXCEPT ![id] = 0]
      /\ undo' = [undo EXCEPT ![t] = Nothing]
  BY Restorables DEF SInv, RestoreDeletedScenario, WriteRestored, Restorable
<1>2. ASSUME NEW s \in Sessions, Known(s)'
      PROVE  /\ Known(s) /\ source[s].localId # id
             /\ \/ source'[s] = [title |-> r.title, localId |-> id]
                \/ source'[s] = source[s]
  <2>1. source'[s] = IF s \in d.sources /\ Known(s) /\ source[s].localId \in {NoId, id}
                     THEN [title |-> r.title, localId |-> id] ELSE source[s]
    BY DEF RestoreDeletedScenario, WriteRestored
  <2> HIDE DEF r, id, d
  <2>2. Known(s)
    BY <1>2, <2>1 DEF Known
  <2>3. source[s].localId # id
    BY <1>1, <2>2 DEF SInv, UndoDetached, d, id
  <2> QED BY <2>1, <2>2, <2>3
<1> HIDE DEF r, id, d
<1>3. SourceTitled'
  <2> SUFFICES ASSUME NEW s \in Sessions, NEW i \in Ids, Known(s)', source'[s].localId = i,
                      scenario'[i] # Nothing, scenario'[i].session = s
               PROVE  source'[s].title = scenario'[i].title
    BY DEF SourceTitled, Stored
  <2>1. CASE i = id
    <3>1. scenario'[i] = r /\ source'[s] = [title |-> r.title, localId |-> id]
      BY <1>1, <1>2, <2>1 DEF IInv, TypeOK
    <3> QED BY <3>1
  <2>2. CASE i # id
    <3>1. scenario'[i] = scenario[i] /\ source'[s] = source[s]
      BY <1>1, <1>2, <2>2 DEF IInv, TypeOK
    <3> QED BY <1>2, <3>1 DEF SInv, SourceTitled, Stored
  <2> QED BY <2>1, <2>2
<1>4. UndoDetached'
  <2> SUFFICES ASSUME NEW u \in Tabs, undo'[u] # Nothing,
                      tombstone'[undo'[u].id] = undo'[u].generation,
                      NEW s \in Sessions, Known(s)'
               PROVE  source'[s].localId # undo'[u].id
    BY DEF UndoDetached
  <2>1. u # t /\ undo'[u] = undo[u]
    BY <1>1 DEF IInv, TypeOK
  <2>2. undo[u].id \in Ids /\ undo[u].generation \in Nat \ {0}
    BY <1>1, <2>1, Restorables
  <2>3. undo[u].id # id /\ tombstone[undo[u].id] = undo[u].generation
    BY <1>1, <2>1, <2>2 DEF IInv, TypeOK
  <2> QED BY <1>2, <2>1, <2>3 DEF SInv, UndoDetached
<1> QED BY <1>3, <1>4

(* The source of a stored scenario's session, if it is attached to the      *)
(* scenario, bears its name, whatever was saved from older copies, renamed, *)
(* removed, forgotten and restored.                                         *)
THEOREM SourcesTitled == Spec => []SourceTitled
<1>1. SInv /\ IInv' /\ [Next]_vars => SInv'
  <2> SUFFICES ASSUME SInv, IInv', [Next]_vars PROVE SourceTitled' /\ UndoDetached'
    BY DEF SInv
  <2>1. ASSUME NEW t \in Tabs, NEW id \in Ids, DeleteScenario(t, id)
        PROVE  SourceTitled' /\ UndoDetached'
    BY <2>1, DeleteSInv
  <2>2. ASSUME NEW t \in Tabs, NEW makeActive \in BOOLEAN, NEW advance \in BOOLEAN,
               SaveScenario(t, makeActive, advance)
        PROVE  SourceTitled' /\ UndoDetached'
    BY <2>2, SaveSInv
  <2>3. ASSUME NEW t \in Tabs, RenameScenario(t)
        PROVE  SourceTitled' /\ UndoDetached'
    BY <2>3, RenameSInv
  <2>4. ASSUME NEW t \in Tabs, RestoreDeletedScenario(t)
        PROVE  SourceTitled' /\ UndoDetached'
    BY <2>4, RestoreSInv
  <2>5. ASSUME \/ \E t \in Tabs :
                    \/ \E id \in Ids : Read(t, id) \/ NewScenario(t, id)
                    \/ SetActiveScenario(t) \/ UndoGone(t) \/ RememberShareSource(t)
               \/ \E s \in Sessions : ForgetShareSource(s)
               \/ UNCHANGED vars
        PROVE  SourceTitled' /\ UndoDetached'
    BY <2>5, OtherSInv
  <2> QED BY <2>1, <2>2, <2>3, <2>4, <2>5 DEF Next
<1>2. SInv => SourceTitled
  BY DEF SInv
<1> QED BY InitSInv, Invariant, <1>1, <1>2, PTL DEF Spec
=============================================================================
