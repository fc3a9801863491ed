---------------------------- MODULE ScenarioTabs ----------------------------
(***************************************************************************)
(* The windows of the editor (product/web/src/main.tsx) on one scenario    *)
(* store: hydration, autosave, opening, removing and restoring scenarios,  *)
(* and the notices of removals.  Each procedure is a chain of store        *)
(* transactions; a step is one transaction and what its continuation does  *)
(* before the next.  A window's own transactions run in the order of their *)
(* calls, those of different windows in any order, and none fails.         *)
(*                                                                         *)
(* A draft is not kept: `of' is the epoch in which it was read (see        *)
(* ScenarioStore), and two histories say that it holds edits which neither *)
(* the store nor the session service has.  Edits are possible at any time. *)
(* Those made while an opening, a removal or a hydration is at work, or    *)
(* while the draft has neither a scenario nor a title, are `loose', until  *)
(* nothing is under way any more; the others, and then those, `unsaved'.   *)
(* The session is left out but for the dirty flag: it is assumed to hold   *)
(* what a clean record holds.                                              *)
(***************************************************************************)
EXTENDS Naturals, FiniteSets

CONSTANTS Windows,
          Ids,             \* local ids
          First,           \* the scenario that is open at first
          MaxKept,         \* MAX_LOCAL_SCENARIOS
          MaxGeneration,   \* bound on the generation of a scenario
          MaxActs,         \* bound on what the users do: edits, commands, reloads
          NoId, NoSession, Nothing

VARIABLES
    scenario, generation, tombstone, active,  \* the store
    epoch,        \* history, see ScenarioStore
    tab,          \* the state of each window
    notices,      \* ids whose removal each window has still to be told of
    acts          \* what the users did so far

storeVars == <<scenario, generation, tombstone, active, epoch>>
vars      == <<storeVars, tab, notices, acts>>

Store == INSTANCE ScenarioStore
    WITH Tabs <- {}, Sessions <- {}, MaxTitle <- 0,
         source <- <<>>, held <- <<>>, undo <- <<>>, renames <- [id \in Ids |-> 0]

ASSUME TabsAssumption ==
    /\ First \in Ids /\ NoId \notin Ids
    /\ IsFiniteSet(Windows) /\ Cardinality(Windows) <= MaxActs
    /\ MaxActs \in Nat /\ MaxGeneration \in Nat
    /\ Nothing \notin Store!Records \cup Store!Deletions

Stored(id)  == Store!Stored(id)
Visible(id) == Store!Visible(id)

(* An idle procedure, and those under way: an autosave from its read to its *)
(* write, a hydration, and the opening or removal the user asked for.       *)
Idle == [at |-> "idle"]

AutoStages == {"write", "recheck"}
HydStages  == {"read", "create", "net", "save", "recheck"}
MainStages == {"prev", "out", "outrecheck", "get", "put", "point", "catch", "back",
               "keep", "switch", "delete", "recover"}

Blank ==
    [cur |-> NoId,        \* activeLocalIdRef
     gen |-> 0,           \* activeScenarioGenerationRef
     of |-> 0,            \* history: the epoch of the draft
     dirty |-> FALSE,     \* scenarioDirty
     unsaved |-> FALSE,   \* history: the draft holds edits that are nowhere else,
     loose |-> FALSE,     \* history: and such edits, made in a procedure or in limbo
     orphan |-> FALSE,    \* orphanedScenarioTitle # null
     hydrated |-> FALSE,
     due |-> FALSE,       \* an autosave effect has to run
     auto |-> Idle, hyd |-> [at |-> "read", pin |-> NoId], main |-> Idle,
     undo |-> Nothing,    \* undoScenarioDeletion
     lost |-> {},         \* history: which of them were given up since the last edit
     returned |-> FALSE]  \* history: the draft came back after a failed opening

(* Some scenarios are stored, and every window shows the active one; or the *)
(* store is empty, and every window has just been opened, an act each.      *)
Init ==
    /\ \E stored \in SUBSET Ids :
        /\ First \in stored \/ stored = {}
        /\ scenario = [id \in Ids |->
               IF id \in stored
               THEN [generation |-> 0, title |-> 0, session |-> NoSession,
                     dirty |-> FALSE, of |-> 0]
               ELSE Nothing]
        /\ active = IF stored = {} THEN NoId ELSE First
        /\ tab = [w \in Windows |->
               IF stored = {} THEN Blank
               ELSE [Blank EXCEPT !.cur = First, !.hydrated = TRUE, !.hyd = Idle]]
        /\ acts = IF stored = {} THEN Cardinality(Windows) ELSE 0
    /\ generation = [id \in Ids |-> 0]
    /\ tombstone = [id \in Ids |-> 0]
    /\ epoch = [id \in Ids |-> 0]
    /\ notices = [w \in Windows |-> {}]

-----------------------------------------------------------------------------
(* What happens to a window's state *)

Unwatched(t) == [t EXCEPT !.auto = Idle]  \* mutant: the effect does not run again
(* A dependency of the autosave effect changed: the running one is          *)
(* cancelled, and the next one does nothing without a scenario.             *)
Touched(t) ==
    [t EXCEPT !.due = t.cur # NoId,
              !.auto = IF @.at = "write" THEN [@ EXCEPT !.live = FALSE] ELSE Idle]

(* The edits of the draft that are nowhere else. *)
Unkept(t) ==
    (IF t.unsaved THEN {"settled"} ELSE {}) \cup (IF t.loose THEN {"loose"} ELSE {})

(* setDraftState: the draft is another one now. *)
Replaced(t) ==
    Touched([t EXCEPT !.lost = @ \cup Unkept(t), !.unsaved = FALSE, !.loose = FALSE,
                      !.returned = FALSE,
                      !.auto = IF @.at = "write" THEN [@ EXCEPT !.covers = FALSE] ELSE @])

Detached(t) == Touched([t EXCEPT !.cur = NoId])

(* preserveActiveDraftAsOrphan *)
Orphaned(t) == Detached([t EXCEPT !.orphan = TRUE, !.dirty = TRUE])

(* The draft is the stored one of the scenario id. *)
Loaded(t, id) ==
    Replaced([t EXCEPT !.cur = id, !.gen = scenario[id].generation, !.of = epoch[id],
                       !.dirty = scenario[id].dirty])

(* setSessionAttempt: the hydration starts again. *)
Rehydrating(t) == [t EXCEPT !.hyd = [at |-> "read", pin |-> t.cur]]

(* adoptScenarioFromAnotherTab *)
Adopted(t, id) == Rehydrating(Loaded(t, id))

Yielding(t, id, keep) ==  \* mutant: the stored draft replaces an edited one
    IF ~Visible(id) THEN Orphaned(t) ELSE Adopted(t, id)
Restamped(t, id, keep) ==  \* mutant: the stored generation is taken, not the draft
    IF keep \/ ~Visible(id) THEN Orphaned(t)
    ELSE Rehydrating(Touched([t EXCEPT !.gen = scenario[id].generation]))
(* The common reaction to a scenario that is gone or has moved on. *)
GivenUp(t, id, keep) == IF keep \/ ~Visible(id) THEN Orphaned(t) ELSE Adopted(t, id)

MovedOn(t, id) == Visible(id) => scenario[id].generation # t.gen

(* No write of the window is waiting in its queue of transactions. *)
Quiet(t) == t.auto.at # "write" /\ t.hyd.at # "save"

(* Nothing is under way but, perhaps, the requests of a hydration, which    *)
(* will not touch a draft that is edited.                                   *)
Settled(t) == t.main = Idle /\ t.hyd.at \in {"idle", "net"}

(* The draft has a scenario, or a title to save it under.                   *)
Homed(t) == t.cur # NoId \/ t.orphan

(* Once all is settled, loose edits are edits like any other.               *)
Calmed(t) ==
    IF t.loose /\ Settled(t) /\ Homed(t) THEN [t EXCEPT !.unsaved = TRUE, !.loose = FALSE]
    ELSE t

Become(w, t) == tab' = [tab EXCEPT ![w] = Calmed(t)]

(* Everybody is told of removed scenarios, the window itself included.      *)
TellNobody(ids) == notices' = notices  \* mutant: no event is published
Publish(ids) == notices' = [w \in Windows |-> notices[w] \cup ids]

Saves(id, gen, of, dirty, advance) ==
    LET c == [id |-> id, generation |-> gen, title |-> 0, session |-> NoSession, of |-> of] IN
    /\ Store!Next1(Store!Larger(gen, generation[id]), advance) <= MaxGeneration
    /\ \E P \in SUBSET Ids :
        /\ Store!WriteSaved(id, Store!SavedRecord(c, NoSession, dirty, advance), P,
                            active, advance)
        /\ Publish(P)

Accepts(id, gen) == Store!Accepts([id |-> id, generation |-> gen])

-----------------------------------------------------------------------------
(* The user edits; persistSession succeeds *)

Acting == acts < MaxActs /\ acts' = acts + 1

EditedDraft(t) ==
    Touched([t EXCEPT !.dirty = TRUE, !.loose = TRUE, !.lost = {},
        !.auto = IF @.at = "write" THEN [@ EXCEPT !.covers = FALSE] ELSE @,
        !.hyd = IF @.at = "net" THEN [@ EXCEPT !.edited = TRUE] ELSE @])

(* The board is closed to edits only while a replay is shown. *)
Edit(w) ==
    /\ Acting
    /\ Become(w, EditedDraft(tab[w]))
    /\ UNCHANGED <<storeVars, notices>>

PersistSession(w) ==
    /\ tab[w].cur # NoId /\ tab[w].hyd = Idle /\ tab[w].dirty
    /\ Become(w, Touched([tab[w] EXCEPT !.dirty = FALSE, !.unsaved = FALSE,
                                        !.loose = FALSE]))
    /\ UNCHANGED <<storeVars, notices, acts>>

-----------------------------------------------------------------------------
(* The autosave effect.  It comes after the hydration effect, and so does its *)
(* read.                                                                      *)

AutoRead(w) ==
    LET t == [tab[w] EXCEPT !.due = FALSE] IN
    /\ tab[w].due /\ t.hydrated /\ Quiet(t) /\ t.hyd.at # "read"
    /\ Become(w, IF MovedOn(t, t.cur) THEN GivenUp(t, t.cur, t.dirty)
                 ELSE [t EXCEPT !.auto = [at |-> "write", id |-> t.cur, dirty |-> t.dirty,
                                          live |-> TRUE, covers |-> TRUE]])
    /\ UNCHANGED <<storeVars, notices, acts>>

AutoWrite(w) ==
    LET t == tab[w]
        a == t.auto IN
    /\ a.at = "write"
    /\ \/ /\ Accepts(a.id, t.gen)
          /\ Saves(a.id, t.gen, t.of, a.dirty, FALSE)
          /\ Become(w, [t EXCEPT !.auto = Idle, !.unsaved = @ /\ ~a.covers,
                                 !.loose = @ /\ ~a.covers])
       \/ /\ ~Accepts(a.id, t.gen)
          /\ Become(w, [t EXCEPT !.auto = IF a.live THEN [at |-> "recheck", dirty |-> a.dirty]
                                                    ELSE Idle])
          /\ UNCHANGED <<storeVars, notices>>
    /\ UNCHANGED acts

AutoRecheck(w) ==
    LET t == tab[w] IN
    /\ t.auto.at = "recheck" /\ Quiet(t)
    /\ Become(w, IF MovedOn(t, t.cur) THEN GivenUp(t, t.cur, t.auto.dirty)
                 ELSE Touched([t EXCEPT !.dirty = TRUE]))
    /\ UNCHANGED <<storeVars, notices, acts>>

-----------------------------------------------------------------------------
(* The hydration effect *)

(* The draft of the scenario id, to be restored from its session.  Edits    *)
(* made before it comes from the store are replaced.                        *)
Hydrating(t, id) ==
    [Loaded(t, id) EXCEPT !.hyd = [at |-> "net", id |-> id, dirty |-> scenario[id].dirty,
                                   edited |-> FALSE]]

Offline(t) == [t EXCEPT !.hyd = Idle, !.hydrated = TRUE]

HydRead(w) ==
    LET t == tab[w]
        pin == t.hyd.pin IN
    /\ t.hyd.at = "read" /\ Quiet(t)
    /\ Become(w,
         CASE pin # NoId /\ ~Visible(pin) -> [Orphaned(t) EXCEPT !.hyd = Idle]
           [] pin # NoId /\ Visible(pin) -> Hydrating(t, pin)
           [] pin = NoId /\ t.orphan -> [t EXCEPT !.hyd = Idle]
           [] pin = NoId /\ ~t.orphan /\ active # NoId /\ Visible(active) ->
                  Hydrating(t, active)
           [] OTHER -> [t EXCEPT !.hyd = [at |-> "create"]])
    /\ UNCHANGED <<storeVars, notices, acts>>

(* newScenarioId *)
Unused(id) ==
    /\ Store!Unused(id)
    /\ \A w \in Windows : tab[w].main # Idle => tab[w].main.target # id

(* No scenario is active: a new one is made, and made active. *)
HydCreate(w) ==
    /\ tab[w].hyd.at = "create"
    /\ \E id \in Ids, P \in SUBSET Ids :
        LET t == tab[w]
            r == [generation |-> 0, title |-> 0, session |-> NoSession, dirty |-> TRUE,
                  of |-> 0] IN
        /\ Unused(id)
        /\ Store!WriteSaved(id, r, P, id, FALSE)
        /\ Publish(P)
        /\ Become(w, Replaced([t EXCEPT !.cur = id, !.gen = 0, !.of = 0, !.dirty = TRUE,
               !.hyd = [at |-> "net", id |-> id, dirty |-> TRUE, edited |-> FALSE]]))
    /\ UNCHANGED acts

FromServer(h, dirty) == dirty  \* mutant: edits made meanwhile count as saved
StillDirty(h, dirty) == h.edited \/ dirty

(* The answers of the session service: either it fails, or a record without *)
(* a session is on the server now, a dirty one with a session stays dirty.  *)
HydNet(w) ==
    LET t == tab[w]
        h == t.hyd IN
    /\ h.at = "net" /\ Quiet(t)
    /\ \/ t.cur # h.id /\ Become(w, Offline(t))
       \/ /\ t.cur = h.id
          /\ \/ Become(w, Touched(Offline([t EXCEPT !.dirty = StillDirty(h, h.dirty)])))
             \/ \E dirty \in {FALSE, h.dirty} :
                  Become(w, Touched([t EXCEPT !.dirty = StillDirty(h, dirty),
                      !.hyd = [at |-> "save", id |-> h.id, dirty |-> StillDirty(h, dirty),
                               kept |-> h.edited]]))
    /\ UNCHANGED <<storeVars, notices, acts>>

HydSave(w) ==
    LET t == tab[w]
        h == t.hyd IN
    /\ h.at = "save"
    /\ \/ /\ Accepts(h.id, t.gen)
          /\ Saves(h.id, t.gen, t.of, h.dirty, FALSE)
          /\ Become(w, Offline([t EXCEPT !.unsaved = FALSE]))
       \/ /\ ~Accepts(h.id, t.gen)
          /\ Become(w, [t EXCEPT !.hyd.at = "recheck"])
          /\ UNCHANGED <<storeVars, notices>>
    /\ UNCHANGED acts

HydRecheck(w) ==
    LET t == tab[w]
        h == t.hyd IN
    /\ h.at = "recheck" /\ Quiet(t)
    /\ Become(w, IF t.cur # h.id THEN Offline(t)
                 ELSE IF MovedOn(t, h.id)
                 THEN [GivenUp(Offline(t), h.id, h.kept) EXCEPT !.hydrated = TRUE]
                 ELSE Offline(Touched([t EXCEPT !.dirty = TRUE])))
    /\ UNCHANGED <<storeVars, notices, acts>>

(* The reconnect button and the browser's online event. *)
Reconnect(w) ==
    /\ Settled(tab[w]) /\ ~tab[w].due /\ tab[w].auto = Idle
    /\ Acting
    /\ Become(w, Rehydrating(tab[w]))
    /\ UNCHANGED <<storeVars, notices>>

(* The window is closed or crashes, and is opened again. *)
Reload(w) ==
    /\ Acting
    /\ Become(w, [Blank EXCEPT !.lost = IF Unkept(tab[w]) = {} THEN {} ELSE {"closed"}])
    /\ notices' = [notices EXCEPT ![w] = {}]
    /\ UNCHANGED storeVars

-----------------------------------------------------------------------------
(* activateScenario *)

(* Its argument, and what it captured of the draft it leaves.  `removing'   *)
(* is the scenario being removed when the opening is part of a removal.     *)
Opening(t, id, new, removing) ==
    [at |-> IF t.cur = NoId THEN "get" ELSE "prev", target |-> id, new |-> new,
     out |-> t.cur, of |-> t.of, dirty |-> t.dirty, wasDirty |-> t.dirty,
     canRestore |-> FALSE, copy |-> [gen |-> 0, of |-> 0, dirty |-> TRUE],
     removing |-> removing, tries |-> 2]

Opened(t, id, new) ==
    [Detached(t) EXCEPT !.main = Opening(t, id, new, NoId)]

(* The manager's list of scenarios may be old. *)
Listed(id) == Stored(id) \/ tombstone[id] # 0

Open(w, id) ==
    LET t == tab[w] IN
    /\ Settled(t) /\ Listed(id) /\ t.cur # id /\ ~t.orphan
    /\ Acting
    /\ Become(w, Opened(t, id, FALSE))
    /\ UNCHANGED <<storeVars, notices>>

(* The active one is opened again. *)
OpenSame(w) ==
    LET t == tab[w] IN
    /\ Settled(t) /\ t.cur # NoId /\ Quiet(t)
    /\ MovedOn(t, t.cur)
    /\ Acting
    /\ Become(w, GivenUp(t, t.cur, t.dirty))
    /\ UNCHANGED <<storeVars, notices>>

(* createScenario, for the user or to save a copy of an orphan. *)
Create(w, id) ==
    /\ Settled(tab[w]) /\ Unused(id)
    /\ Acting
    /\ Become(w, Opened(tab[w], id, TRUE))
    /\ UNCHANGED <<storeVars, notices>>

(* The window's opening or removal has done its next transaction.           *)
Step(w, stage) == tab[w].main.at = stage /\ Quiet(tab[w])
Goes(t, stage) == [t EXCEPT !.main.at = stage]

(* A removal whose first save was refused does not keep the draft: it is     *)
(* left without a scenario or a title, or another one is put in its place.   *)
Abandoned(t) ==
    [t EXCEPT !.lost = IF t.unsaved THEN @ \cup {"refused"} ELSE @, !.unsaved = FALSE]

Done(t) == [IF Homed(t) THEN t ELSE Abandoned(t) EXCEPT !.main = Idle]

(* An opening is over.  A removal goes on by deleting its scenario, or, the *)
(* switch having failed, by opening it again.                               *)
Ended(t, opened) ==
    LET m == t.main IN
    IF opened /\ m.target # m.removing /\ m.removing # NoId THEN Goes(t, "delete")
    ELSE IF ~opened /\ m.removing # NoId /\ m.tries > 0 THEN Goes(t, "recover")
    ELSE Done(t)

Prev(w) ==
    LET t == tab[w]
        m == t.main IN
    /\ Step(w, "prev")
    /\ Become(w,
         IF ~MovedOn(t, m.out) THEN Goes(t, "out")
         ELSE IF m.wasDirty THEN Ended([t EXCEPT !.orphan = TRUE, !.dirty = TRUE], FALSE)
         ELSE Goes(IF Visible(m.out)
                   THEN [t EXCEPT !.main.of = epoch[m.out], !.main.canRestore = TRUE,
                                  !.main.dirty = scenario[m.out].dirty]
                   ELSE t, "get"))
    /\ UNCHANGED <<storeVars, notices, acts>>

(* The draft is saved and its generation advanced, which fences the saves   *)
(* that are queued elsewhere.                                               *)
Out(w) ==
    LET t == tab[w]
        m == t.main IN
    /\ Step(w, "out")
    /\ \/ /\ Accepts(m.out, t.gen)
          /\ Saves(m.out, t.gen, m.of, m.dirty, TRUE)
          /\ Become(w, Goes([t EXCEPT !.unsaved = FALSE, !.main.of = @ + 1,
                                      !.main.canRestore = TRUE], "get"))
       \/ /\ ~Accepts(m.out, t.gen)
          /\ Become(w, Goes(t, "outrecheck"))
          /\ UNCHANGED <<storeVars, notices>>
    /\ UNCHANGED acts

OutRecheck(w) ==
    LET t == tab[w]
        m == t.main IN
    /\ Step(w, "outrecheck")
    /\ Become(w,
         IF m.wasDirty THEN Ended([t EXCEPT !.orphan = TRUE, !.dirty = TRUE], FALSE)
         ELSE Goes(IF Visible(m.out)
                   THEN [t EXCEPT !.main.of = epoch[m.out], !.main.canRestore = TRUE,
                                  !.main.dirty = scenario[m.out].dirty]
                   ELSE t, "get"))
    /\ UNCHANGED <<storeVars, notices, acts>>

Get(w) ==
    LET t == tab[w]
        m == t.main IN
    /\ Step(w, "get")
    /\ Become(w,
         CASE Visible(m.target) ->
                Goes([t EXCEPT !.main.copy = [gen |-> scenario[m.target].generation,
                                              of |-> epoch[m.target],
                                              dirty |-> scenario[m.target].dirty]], "put")
           [] m.new /\ ~Visible(m.target) -> Goes(t, "put")
           [] OTHER -> Goes(t, "catch"))
    /\ UNCHANGED <<storeVars, notices, acts>>

(* The copy of an orphan holds its draft. *)
Put(w) ==
    LET t == tab[w]
        c == t.main.copy IN
    /\ Step(w, "put")
    /\ \/ /\ Accepts(t.main.target, c.gen)
          /\ Saves(t.main.target, c.gen, c.of, c.dirty, FALSE)
          /\ Become(w, Goes([t EXCEPT !.unsaved = @ /\ ~(t.main.new /\ t.orphan)], "point"))
       \/ /\ ~Accepts(t.main.target, c.gen)
          /\ Become(w, Goes(t, "catch"))
          /\ UNCHANGED <<storeVars, notices>>
    /\ UNCHANGED acts

Point(w) ==
    LET t == tab[w]
        m == t.main
        c == m.copy IN
    /\ Step(w, "point")
    /\ \/ /\ Visible(m.target)
          /\ active' = m.target
          /\ Become(w, Ended(Rehydrating(Replaced(
                 [IF m.removing # NoId THEN Abandoned(t) ELSE t
                     EXCEPT !.cur = m.target, !.gen = c.gen, !.of = c.of,
                            !.dirty = c.dirty, !.orphan = FALSE])), TRUE))
       \/ /\ ~Visible(m.target)
          /\ Become(w, Goes(t, "catch"))
          /\ UNCHANGED active
    /\ UNCHANGED <<scenario, generation, tombstone, epoch, notices, acts>>

(* The opening failed.  A draft kept as an orphan is the one captured. *)
Catch(w) ==
    LET t == tab[w]
        m == t.main IN
    /\ Step(w, "catch")
    /\ Become(w,
         IF m.out = NoId THEN Ended(t, FALSE)
         ELSE IF Visible(m.out) /\ (m.canRestore \/ ~m.wasDirty)
         THEN [t EXCEPT !.main = [m EXCEPT !.at = "back",
                  !.copy = [gen |-> scenario[m.out].generation,
                            of |-> IF m.canRestore THEN m.of ELSE epoch[m.out],
                            dirty |-> IF m.canRestore THEN m.dirty
                                      ELSE scenario[m.out].dirty]]]
         ELSE IF m.wasDirty
         THEN Ended(Orphaned([t EXCEPT !.lost = @ \cup (Unkept(t) \cap {"loose"}),
                                       !.loose = FALSE]), FALSE)
         ELSE Ended(Detached(t), FALSE))
    /\ UNCHANGED <<storeVars, notices, acts>>

(* Back to the scenario it left: with its own draft, but the generation     *)
(* that is stored now.                                                      *)
Back(w) ==
    LET t == tab[w]
        m == t.main
        c == m.copy IN
    /\ Step(w, "back")
    /\ IF Visible(m.out)
       THEN /\ active' = m.out
            /\ Become(w, Ended([Rehydrating(Replaced([t EXCEPT
                   !.cur = m.out, !.gen = c.gen, !.of = c.of, !.dirty = c.dirty]))
                       EXCEPT !.returned = c.gen = generation[m.out] /\ c.of # epoch[m.out]],
                   FALSE))
       ELSE Become(w, Ended(t, FALSE)) /\ UNCHANGED active
    /\ UNCHANGED <<scenario, generation, tombstone, epoch, notices, acts>>

-----------------------------------------------------------------------------
(* removeScenarioFromBrowser *)

Removal(t, id, stage) ==
    [Opening(t, id, FALSE, id) EXCEPT !.at = stage, !.out = NoId, !.tries = 1]

Remove(w, id) ==
    LET t == tab[w] IN
    /\ Settled(t) /\ Listed(id) /\ Quiet(t)
    /\ Acting
    /\ Become(w,
         IF t.cur = id
         THEN IF MovedOn(t, id) THEN GivenUp(t, id, t.dirty)
              ELSE [Detached(t) EXCEPT !.main = Removal(t, id, "keep")]
         ELSE IF Visible(id) THEN [t EXCEPT !.main = Removal(t, id, "delete")] ELSE t)
    /\ UNCHANGED <<storeVars, notices>>

(* The draft of the scenario on screen is saved first, for the undo. *)
Keep(w) ==
    LET t == tab[w]
        m == t.main IN
    /\ Step(w, "keep")
    /\ \/ /\ Accepts(m.target, t.gen)
          /\ Saves(m.target, t.gen, m.of, m.dirty, TRUE)
          /\ Become(w, Goes([t EXCEPT !.unsaved = FALSE, !.main.tries = 2], "switch"))
       \/ /\ ~Accepts(m.target, t.gen)
          /\ Become(w, Goes(t, "recover"))
          /\ UNCHANGED <<storeVars, notices>>
    /\ UNCHANGED acts

(* Another scenario is opened in its place, or a new one. *)
Switch(w) ==
    LET t == tab[w]
        m == t.main
        others == {id \in Ids : Visible(id) /\ id # m.removing}
        To(id, new) == Become(w, [t EXCEPT !.main = [m EXCEPT
            !.at = "get", !.target = id, !.new = new]]) IN
    /\ Step(w, "switch")
    /\ IF others # {} THEN \E id \in others : To(id, FALSE)
       ELSE \E id \in Ids : Unused(id) /\ To(id, TRUE)
    /\ UNCHANGED <<storeVars, notices, acts>>

Delete(w) ==
    LET t == tab[w]
        m == t.main
        id == m.removing IN
    /\ Step(w, "delete")
    /\ \/ /\ Store!WriteDeleted(id)
          /\ Become(w, Done([t EXCEPT !.undo = Store!Deletion(id)]))
          /\ Publish({id})
       \/ /\ ~Stored(id)
          /\ Become(w, IF m.target = id THEN Done(t)
                       ELSE Goes([t EXCEPT !.main.tries = 1], "recover"))
          /\ UNCHANGED <<storeVars, notices>>
    /\ UNCHANGED acts

(* The removal failed: its scenario, if it is still there, is opened again. *)
(* What is captured of the draft on screen is as old as the removal.        *)
Recover(w) ==
    LET t == tab[w]
        m == t.main
        again == [Opening(t, m.removing, FALSE, m.removing) EXCEPT
                      !.dirty = m.wasDirty, !.wasDirty = m.wasDirty, !.tries = m.tries - 1] IN
    /\ Step(w, "recover")
    /\ Become(w,
         IF Visible(m.removing) THEN [Detached(t) EXCEPT !.main = again]
         ELSE Ended([t EXCEPT !.main.tries = @ - 1], FALSE))
    /\ UNCHANGED <<storeVars, notices, acts>>

(* undoScenarioRemoval, and the ten seconds after which it is too late. *)
Undo(w) ==
    LET t == tab[w] IN
    /\ Settled(t) /\ t.undo # Nothing /\ Quiet(t)
    /\ \/ Store!WriteRestored(t.undo)
       \/ ~Store!Restorable(t.undo) /\ UNCHANGED storeVars
    /\ Become(w, [t EXCEPT !.undo = Nothing])
    /\ UNCHANGED <<notices, acts>>

UndoGone(w) ==
    /\ tab[w].undo # Nothing
    /\ Become(w, [tab[w] EXCEPT !.undo = Nothing])
    /\ UNCHANGED <<storeVars, notices, acts>>

(* The event of a removal reaches the window. *)
Deliver(w, id) ==
    /\ id \in notices[w]
    /\ notices' = [notices EXCEPT ![w] = @ \ {id}]
    /\ Become(w, IF tab[w].cur = id THEN Orphaned(tab[w]) ELSE tab[w])
    /\ UNCHANGED <<storeVars, acts>>

-----------------------------------------------------------------------------
Autosave(w)  == AutoRead(w) \/ AutoWrite(w) \/ AutoRecheck(w)
Hydration(w) == HydRead(w) \/ HydCreate(w) \/ HydNet(w) \/ HydSave(w) \/ HydRecheck(w)
Chain(w) ==
    \/ Prev(w) \/ Out(w) \/ OutRecheck(w) \/ Get(w) \/ Put(w) \/ Point(w)
    \/ Catch(w) \/ Back(w)
    \/ Keep(w) \/ Switch(w) \/ Delete(w) \/ Recover(w)
Command(w) ==
    \/ Edit(w) \/ PersistSession(w) \/ Reconnect(w) \/ Reload(w) \/ OpenSame(w)
    \/ Undo(w) \/ UndoGone(w)
    \/ \E id \in Ids : Open(w, id) \/ Create(w, id) \/ Remove(w, id)

Next ==
    \E w \in Windows :
        \/ Autosave(w) \/ Hydration(w) \/ Chain(w) \/ Command(w)
        \/ \E id \in Ids : Deliver(w, id)

(* Transactions end, the service answers or fails, events are delivered;    *)
(* the user need not do anything.                                           *)
Fairness ==
    \A w \in Windows :
        /\ WF_vars(Autosave(w)) /\ WF_vars(Hydration(w)) /\ WF_vars(Chain(w))
        /\ WF_vars(\E id \in Ids : Deliver(w, id))

Spec == Init /\ [][Next]_vars /\ Fairness

-----------------------------------------------------------------------------
(* Properties *)

TypeOK ==
    /\ active \in Ids \cup {NoId} /\ notices \in [Windows -> SUBSET Ids]
    /\ acts \in 0..MaxActs
    /\ \A w \in Windows :
        LET t == tab[w] IN
        /\ DOMAIN t = DOMAIN Blank
        /\ t.cur \in Ids \cup {NoId} /\ t.gen \in 0..MaxGeneration /\ t.of \in Nat
        /\ {t.dirty, t.unsaved, t.loose, t.orphan, t.hydrated, t.due,
            t.returned} \subseteq BOOLEAN
        /\ t.lost \subseteq {"settled", "loose", "refused", "closed"}
        /\ t.auto = Idle \/ t.auto.at \in AutoStages
        /\ t.hyd = Idle \/ t.hyd.at \in HydStages
        /\ t.main = Idle \/ t.main.at \in MainStages
        /\ t.unsaved \/ t.loose => t.dirty

(* main.tsx:1656-1660: the generation a window keeps is that of the draft   *)
(* it shows, so a draft older than the last removal, undo or handover of    *)
(* its scenario is never accepted by the store.  A draft put back after a   *)
(* failed opening gets the generation stored now, and is left out.          *)
StaleDraftIsFenced ==
    \A w \in Windows :
        LET t == tab[w] IN
        t.cur # NoId /\ Stored(t.cur) /\ ~t.returned
            => t.of = epoch[t.cur] \/ t.gen < generation[t.cur]

(* A draft with edits that are nowhere else is not replaced by another one: *)
(* edits that were made, or have outlasted, while nothing was under way are *)
(* saved before the draft goes, or it becomes a copy with a title.  That    *)
(* leaves out loose edits (LooseIsKept), and the draft of a removal whose   *)
(* first save is refused (NothingAbandoned).                                *)
UnsavedIsKept == \A w \in Windows : "settled" \notin tab[w].lost

(* A window whose scenario was removed by another finds out: it does not    *)
(* show that scenario for ever.                                             *)
RemovalNoticed ==
    \A w \in Windows, id \in Ids :
        (tab[w].cur = id /\ ~Stored(id)) ~> (tab[w].cur # id \/ Stored(id))

(* Edits that are unsaved do not stay on the screen only: they are written  *)
(* to the store or reach the session service, or their draft has a title    *)
(* under which a copy can be saved.  What was replaced does not count as    *)
(* saved; the two exceptions are stated: a removal whose first save was     *)
(* refused, and a window that was closed.  Edits that stay loose are not    *)
(* spoken of (LooseIsKept, NeverInLimbo).                                   *)
EditsReachStore ==
    \A w \in Windows :
        tab[w].unsaved ~> \/ tab[w].orphan
                          \/ ~tab[w].unsaved /\ "settled" \notin tab[w].lost
                          \/ tab[w].lost \cap {"refused", "closed"} # {}

(* docs/ux.md:80-82: "active removals switch to another scenario, and       *)
(* cross-tab changes/removals preserve stale drafts as saveable copies".    *)
Limbo(t) == ~Homed(t) /\ t.main = Idle /\ t.hyd.at \notin {"read", "create"}
NothingAbandoned == \A w \in Windows : "refused" \notin tab[w].lost
NeverInLimbo == \A w \in Windows : ~Limbo(tab[w])

(* main.tsx:1458: "Do not clobber edits the user made while the session was *)
(* connecting": neither a hydration nor an opening replaces edits made      *)
(* while it was under way.                                                  *)
LooseIsKept == \A w \in Windows : "loose" \notin tab[w].lost
=============================================================================
