--------------------------- MODULE ScenarioStore ---------------------------
(***************************************************************************)
(* The browser's scenario store (product/web/src/scenario-store.ts): the   *)
(* IndexedDB object stores scenarios, shareSources and meta (generations,  *)
(* tombstones, the active pointer), shared by every tab of the editor.     *)
(* Each exported function is one IndexedDB transaction, hence one action;  *)
(* a tab works between them on a copy it read earlier, which may be stale. *)
(*                                                                         *)
(* A title stands for the number of renames behind it, as its revision     *)
(* does.  A deletion's id and generation are both new each time, so the    *)
(* generation stands for the pair.  The game state in a record is not      *)
(* kept: `of' says in which epoch it was read (see epoch below).           *)
(***************************************************************************)
EXTENDS Naturals, FiniteSets

CONSTANTS Tabs,           \* tabs, or chains of callbacks within one
          Ids,            \* local ids
          Sessions,       \* ids of hosted sessions
          MaxKept,        \* MAX_LOCAL_SCENARIOS
          MaxGeneration,  \* bound on the generation of a scenario
          MaxTitle,       \* bound on the renames of a scenario
          NoId, NoSession, Nothing

VARIABLES
    scenario,     \* the records of the object store scenarios
    generation,   \* meta: scenario-generation:<id>, 0 when absent
    tombstone,    \* meta: scenario-deleted:<id>, its generation, 0 when absent
    active,       \* meta: activeScenario
    source,       \* the records of the object store shareSources
    held,         \* the copy of a record each tab works on
    undo,         \* the DeletedScenario each tab can still restore
    epoch,        \* history: removals, undos and handovers of each scenario
    renames       \* history: renames of each scenario that were committed

storeVars == <<scenario, generation, tombstone, active, source>>
tabVars   == <<held, undo>>
vars      == <<storeVars, tabVars, epoch, renames>>

Generations == 0..MaxGeneration
Titles      == 0..MaxTitle

Records == [generation : Generations, title : Titles, session : Sessions \cup {NoSession},
            dirty : BOOLEAN, of : Nat]
Copies  == [id : Ids, generation : Generations, title : Titles,
            session : Sessions \cup {NoSession}, of : Nat]
Sources == [title : Titles, localId : Ids \cup {NoId}]
Deletions == [id : Ids, record : Records, generation : Generations,
              sources : SUBSET Sessions]

ASSUME StoreAssumption ==
    /\ MaxKept \in Nat \ {0} /\ MaxGeneration \in Nat /\ MaxTitle \in Nat
    /\ NoId \notin Ids /\ NoSession \notin Sessions
    /\ Nothing \notin Records \cup Copies \cup Sources \cup Deletions

TypeOK ==
    /\ scenario \in [Ids -> Records \cup {Nothing}]
    /\ generation \in [Ids -> Generations]
    /\ tombstone \in [Ids -> Generations]
    /\ active \in Ids \cup {NoId}
    /\ source \in [Sessions -> Sources \cup {Nothing}]
    /\ held \in [Tabs -> Copies \cup {Nothing}]
    /\ undo \in [Tabs -> Deletions \cup {Nothing}]
    /\ epoch \in [Ids -> Nat]
    /\ renames \in [Ids -> Titles]

Stored(id) == scenario[id] # Nothing
Known(s)   == source[s] # Nothing

(* What getScenario, listScenarios, loadActiveScenario, setActiveScenario,  *)
(* renameScenario and rememberShareSource take for a scenario that exists.  *)
Visible(id) ==
    Stored(id) /\ tombstone[id] = 0 /\ scenario[id].generation >= generation[id]

(* A new database, or one openDatabase has upgraded: generations 0, a share *)
(* source for every record that has a session.                              *)
Init ==
    /\ \/ /\ scenario = [id \in Ids |-> Nothing]
          /\ source = [s \in Sessions |-> Nothing]
          /\ active = NoId
       \/ \E id \in Ids, session \in Sessions \cup {NoSession} :
            /\ scenario = [i \in Ids |->
                   IF i = id THEN [generation |-> 0, title |-> 0, session |-> session,
                                   dirty |-> TRUE, of |-> 0]
                             ELSE Nothing]
            /\ source = [s \in Sessions |->
                   IF s = session THEN [title |-> 0, localId |-> id] ELSE Nothing]
            /\ active \in {NoId, id}
    /\ generation = [id \in Ids |-> 0]
    /\ tombstone = [id \in Ids |-> 0]
    /\ held = [t \in Tabs |-> Nothing]
    /\ undo = [t \in Tabs |-> Nothing]
    /\ epoch = [id \in Ids |-> 0]
    /\ renames = [id \in Ids |-> 0]

-----------------------------------------------------------------------------
(* Reads, and a record made from nothing *)

Read(t, id) ==
    /\ Visible(id)
    /\ held' = [held EXCEPT ![t] =
           [id |-> id, generation |-> scenario[id].generation,
            title |-> scenario[id].title, session |-> scenario[id].session,
            of |-> epoch[id]]]
    /\ UNCHANGED <<storeVars, undo, epoch, renames>>

(* newScenarioId: a random id, never seen before. *)
Unused(id) ==
    /\ ~Stored(id) /\ generation[id] = 0 /\ tombstone[id] = 0
    /\ \A u \in Tabs : held[u] # Nothing => held[u].id # id

NewScenario(t, id) ==
    /\ Unused(id)
    /\ held' = [held EXCEPT ![t] =
           [id |-> id, generation |-> 0, title |-> 0, session |-> NoSession, of |-> 0]]
    /\ UNCHANGED <<storeVars, undo, epoch, renames>>

-----------------------------------------------------------------------------
(* saveScenario *)

AcceptsAll(c) == TRUE  \* mutant: no compare-and-save at all
AcceptsAny(c) == tombstone[c.id] = 0  \* mutant: no comparison of generations
Accepts(c) == tombstone[c.id] = 0 /\ c.generation >= generation[c.id]

Larger(m, n) == IF m >= n THEN m ELSE n
Next1(n, advance) == IF advance THEN n + 1 ELSE n

BumpedTitle(c) == Larger(c.title, renames[c.id]) + 1  \* mutant: every save counts as a rename
IncomingTitle(c) == c.title  \* mutant: a save writes the title it was read with
MergedTitle(c) ==
    IF Stored(c.id) THEN Larger(scenario[c.id].title, c.title) ELSE c.title

(* The record stored for the copy c: the newer title wins. *)
SavedRecord(c, session, dirty, advance) ==
    [generation |-> Next1(Larger(c.generation, generation[c.id]), advance),
     title |-> MergedTitle(c), session |-> session, dirty |-> dirty,
     of |-> Next1(c.of, advance)]

KeepActiveOnly(recs, id, current) ==  \* mutant: dirty records are pruned too
    {p \in Ids : recs[p] # Nothing /\ p # id /\ p # current}
PrunableAny(recs, id, current) ==  \* mutant: the active record is pruned too
    {p \in Ids : recs[p] # Nothing /\ p # id /\ ~recs[p].dirty}
(* What may go: neither dirty, nor active, nor among the MaxKept records    *)
(* opened last, of which the saved one, just stamped, is the first.         *)
Prunable(recs, id, current) ==
    {p \in Ids : recs[p] # Nothing /\ p # id /\ p # current /\ ~recs[p].dirty}

PrunedSets(recs, id, current) ==
    {P \in SUBSET Prunable(recs, id, current) :
        LET all == {p \in Ids : recs[p] # Nothing} IN
        \E keep \in SUBSET all :
            /\ id \in keep
            /\ Cardinality(keep) = IF Cardinality(all) <= MaxKept
                                   THEN Cardinality(all) ELSE MaxKept
            /\ P = Prunable(recs, id, current) \ keep}

(* The source of the saved session follows the record, when it is known. *)
KeepTitle(r, id) == source  \* mutant: the source is not updated
SourcesSaved(r, id) ==
    [s \in Sessions |-> IF s = r.session /\ Known(s)
                        THEN [title |-> r.title, localId |-> id] ELSE source[s]]

(* Pruning detaches the source of each pruned record's current session. *)
SourcesPruned(src, P) ==
    [s \in Sessions |->
        IF src[s] # Nothing /\ \E p \in P : scenario[p].session = s
        THEN [src[s] EXCEPT !.localId = NoId] ELSE src[s]]

(* A session the server has just made: nobody has seen its id. *)
Fresh(s) ==
    /\ ~Known(s) /\ \A id \in Ids : Stored(id) => scenario[id].session # s
    /\ \A u \in Tabs : /\ held[u] # Nothing => held[u].session # s
                      /\ undo[u] # Nothing => undo[u].record.session # s

(* The writes of the transaction for the record r and the pruned ids P. *)
WriteSaved(id, r, P, current, advance) ==
    LET recs == [scenario EXCEPT ![id] = r] IN
    /\ P \in PrunedSets(recs, id, current)
    /\ \A p \in P : recs[p].generation < MaxGeneration
    /\ scenario' = [i \in Ids |-> IF i \in P THEN Nothing ELSE recs[i]]
    /\ generation' = [i \in Ids |->
           IF i = id THEN r.generation
           ELSE IF i \in P THEN recs[i].generation + 1 ELSE generation[i]]
    /\ tombstone' = [i \in Ids |->
           IF i \in P THEN recs[i].generation + 1 ELSE tombstone[i]]
    /\ source' = SourcesPruned(SourcesSaved(r, id), P)
    /\ epoch' = [i \in Ids |-> Next1(epoch[i], i \in P \/ (i = id /\ advance))]
    /\ active' = current

SaveScenario(t, makeActive, advance) ==
    /\ held[t] # Nothing /\ Accepts(held[t])
    /\ Next1(held[t].generation, advance) <= MaxGeneration
    /\ LET c == held[t]
           current == IF makeActive THEN c.id ELSE active IN
       \E session \in {c.session} \cup {s \in Sessions : Fresh(s)}, dirty \in BOOLEAN,
          P \in SUBSET Ids :
           /\ WriteSaved(c.id, SavedRecord(c, session, dirty, advance), P, current, advance)
           /\ held' = [held EXCEPT ![t].session = session]
    /\ UNCHANGED <<undo, renames>>

-----------------------------------------------------------------------------
(* setActiveScenario and renameScenario *)

SetActiveScenario(t) ==
    /\ held[t] # Nothing /\ Visible(held[t].id)
    /\ active' = held[t].id
    /\ UNCHANGED <<scenario, generation, tombstone, source, tabVars, epoch, renames>>

RenameScenario(t) ==
    /\ held[t] # Nothing /\ Visible(held[t].id)
    /\ LET id == held[t].id
           title == scenario[id].title + 1
           s == scenario[id].session IN
       /\ scenario[id].title = held[t].title /\ title <= MaxTitle
       /\ scenario' = [scenario EXCEPT ![id].title = title]
       /\ source' = [x \in Sessions |->
              IF x = s /\ Known(x) /\ source[x].localId = id
              THEN [source[x] EXCEPT !.title = title] ELSE source[x]]
       /\ renames' = [renames EXCEPT ![id] = @ + 1]
    /\ UNCHANGED <<generation, tombstone, active, tabVars, epoch>>

-----------------------------------------------------------------------------
(* deleteScenario and restoreDeletedScenario *)

DeletionGeneration(id) == Larger(scenario[id].generation, generation[id]) + 1

ActiveWithout(id) == IF active = id THEN NoId ELSE active

Attached(id) == {s \in Sessions : Known(s) /\ source[s].localId = id}

Deletion(id) ==
    [id |-> id, record |-> scenario[id], generation |-> DeletionGeneration(id),
     sources |-> Attached(id)]

(* The writes of deleteScenario. *)
WriteDeleted(id) ==
    /\ Stored(id) /\ tombstone[id] = 0
    /\ DeletionGeneration(id) <= MaxGeneration
    /\ scenario' = [scenario EXCEPT ![id] = Nothing]
    /\ generation' = [generation EXCEPT ![id] = DeletionGeneration(id)]
    /\ tombstone' = [tombstone EXCEPT ![id] = DeletionGeneration(id)]
    /\ active' = ActiveWithout(id)
    /\ source' = [s \in Sessions |->
           IF s \in Attached(id) THEN [source[s] EXCEPT !.localId = NoId] ELSE source[s]]
    /\ epoch' = [epoch EXCEPT ![id] = @ + 1]

DeleteScenario(t, id) ==
    /\ WriteDeleted(id)
    /\ undo' = [undo EXCEPT ![t] = Deletion(id)]
    /\ UNCHANGED <<held, renames>>

Restorable(d) ==
    /\ tombstone[d.id] = d.generation
    /\ generation[d.id] = d.generation
    /\ ~Stored(d.id)

(* The writes of restoreDeletedScenario. *)
WriteRestored(d) ==
    /\ Restorable(d)
    /\ LET id == d.id
           r == [d.record EXCEPT !.generation = generation[id] + 1, !.of = @ + 2] IN
       /\ r.generation <= MaxGeneration
       /\ scenario' = [scenario EXCEPT ![id] = r]
       /\ generation' = [generation EXCEPT ![id] = r.generation]
       /\ tombstone' = [tombstone EXCEPT ![id] = 0]
       /\ source' = [s \in Sessions |->
              IF s \in d.sources /\ Known(s) /\ source[s].localId \in {NoId, id}
              THEN [title |-> r.title, localId |-> id] ELSE source[s]]
       /\ epoch' = [epoch EXCEPT ![id] = @ + 1]
    /\ UNCHANGED active

RestoreDeletedScenario(t) ==
    /\ undo[t] # Nothing /\ WriteRestored(undo[t])
    /\ undo' = [undo EXCEPT ![t] = Nothing]
    /\ UNCHANGED <<held, renames>>

(* The ten seconds are over, or the restoration is refused. *)
UndoGone(t) ==
    /\ undo[t] # Nothing
    /\ undo' = [undo EXCEPT ![t] = Nothing]
    /\ UNCHANGED <<storeVars, held, epoch, renames>>

-----------------------------------------------------------------------------
(* rememberShareSource and forgetShareSource *)

RememberShareSource(t) ==
    /\ held[t] # Nothing /\ held[t].session # NoSession
    /\ LET c == held[t]
           attached == Visible(c.id) /\ scenario[c.id].session = c.session IN
       source' = [source EXCEPT ![c.session] =
           IF attached THEN [title |-> scenario[c.id].title, localId |-> c.id]
                       ELSE [title |-> c.title, localId |-> NoId]]
    /\ UNCHANGED <<scenario, generation, tombstone, active, tabVars, epoch, renames>>

ForgetShareSource(s) ==
    /\ Known(s) /\ source[s].localId = NoId
    /\ source' = [source EXCEPT ![s] = Nothing]
    /\ UNCHANGED <<scenario, generation, tombstone, active, tabVars, epoch, renames>>

-----------------------------------------------------------------------------
Next ==
    \/ \E t \in Tabs :
        \/ \E id \in Ids : Read(t, id) \/ NewScenario(t, id) \/ DeleteScenario(t, id)
        \/ \E makeActive, advance \in BOOLEAN : SaveScenario(t, makeActive, advance)
        \/ SetActiveScenario(t) \/ RenameScenario(t)
        \/ RestoreDeletedScenario(t) \/ UndoGone(t) \/ RememberShareSource(t)
    \/ \E s \in Sessions : ForgetShareSource(s)

Spec == Init /\ [][Next]_vars

-----------------------------------------------------------------------------
(* Properties *)

(* saveScenario, deleteScenario and restoreDeletedScenario keep three       *)
(* object stores in step: a tombstone excludes a record, and carries the    *)
(* generation in force, which is also that of a stored record.              *)
GenerationInForce ==
    \A id \in Ids :
        /\ Stored(id) => tombstone[id] = 0 /\ scenario[id].generation = generation[id]
        /\ tombstone[id] # 0 => tombstone[id] = generation[id]

(* loadActiveScenario opens what the active pointer names: neither a        *)
(* removal nor a pruning on behalf of another tab leaves it dangling.       *)
ActiveIsStored == active # NoId => Stored(active)

(* What is stored of a scenario derives from a copy that was read after its *)
(* last removal, undo or handover: a queued autosave or an old undo handle  *)
(* of another tab never overwrites them.                                    *)
FencedContent == \A id \in Ids : Stored(id) => scenario[id].of = epoch[id]

(* A committed renameScenario survives every autosave made from an older    *)
(* copy, and a removal that is undone.                                      *)
NoRenameLost == \A id \in Ids : Stored(id) => scenario[id].title = renames[id]

(* The manager shows a source under its scenario's name.                    *)
SourceTitled ==
    \A s \in Sessions, id \in Ids :
        /\ Known(s) /\ source[s].localId = id
        /\ Stored(id) /\ scenario[id].session = s
        => source[s].title = scenario[id].title

(* A record with work that is not on the server yet leaves the store only   *)
(* by a removal that hands somebody the means to undo it, never by pruning. *)
DirtyNeverPruned ==
    [][\A id \in Ids :
        Stored(id) /\ scenario[id].dirty /\ ~Stored(id)'
            => \E t \in Tabs : undo'[t] # Nothing /\ undo'[t].record = scenario[id]]_vars

(* scenario-store.ts:27-31: a source outlives the local scenario only as    *)
(* long as it is needed; forgetShareSource removes detached sources only,   *)
(* so a source attached to a removed scenario would stay for ever.          *)
AttachedIsStored ==
    \A s \in Sessions : Known(s) /\ source[s].localId # NoId => Stored(source[s].localId)
=============================================================================
